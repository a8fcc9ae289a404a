-------------------------- MODULE LiveStrategyProofs --------------------------
(***************************************************************************)
(* TLAPS proofs about LiveStrategy: the paper account and the curve of a   *)
(* session, whatever the signals are, for any prices, window and length of *)
(* the curve.                                                              *)
(***************************************************************************)
EXTENDS LiveStrategy, BacktestProofs, FiniteSetTheorems, SequenceTheorems, TLAPS

IInv == AccountIsReplay /\ CurveTellsTheTrades

\* The bounds are what the code's numbers are.
LEMMA Bounds ==
  /\ Level \subseteq Int /\ Nothing \notin Int
  /\ FirstBars \in Nat \ {0} /\ MaxBar \in Nat \ {0} /\ MaxCurve \in Nat \ {0} /\ MaxTime \in Nat
  /\ FirstBars <= MaxBar
<1>1. {FirstBars, MaxBar, Window, MaxCurve} \subseteq Nat \ {0}
  BY LiveStrategyAssumption
<1>2. Level \subseteq Nat /\ Nothing \notin Int /\ MaxTime \in Nat /\ FirstBars <= MaxBar
  BY LiveStrategyAssumption
<1>3. QED
  BY <1>1, <1>2

(***************************************************************************)
(* Lemmas about a signal applied to an account: the fields that each of    *)
(* the assignments changes, and those it leaves alone.                     *)
(***************************************************************************)

LEMMA RecordFields ==
  ASSUME NEW s \in SessionState, NEW t \in Nat, NEW kind \in {"buy", "sell"},
         s.CurrentPrice \in Level, NEW value \in Int, value = totalValue(s),
         NEW q, q = Record(s, t, kind)
  PROVE  /\ q \in SessionState /\ q.Trades = s.Trades + 1
         /\ q.TradeHistory
              = Append(s.TradeHistory, [T |-> t, Kind |-> kind, Price |-> s.CurrentPrice,
                                        PnL |-> value])
         /\ q.Position = s.Position /\ q.EntryPrice = s.EntryPrice
         /\ q.cash = s.cash /\ q.shares = s.shares
         /\ q.CurrentPrice = s.CurrentPrice /\ q.EquityCurve = s.EquityCurve
<1> DEFINE trade == [T |-> t, Kind |-> kind, Price |-> s.CurrentPrice, PnL |-> value]
           history == Append(s.TradeHistory, trade)
<1>1. history \in Seq(TradeRecord)
  <2>1. trade \in TradeRecord
    BY DEF TradeRecord
  <2>2. s.TradeHistory \in Seq(TradeRecord)
    BY DEF SessionState
  <2>3. QED
    BY <2>1, <2>2, AppendProperties
<1>2. q = [s EXCEPT !.Trades = s.Trades + 1, !.TradeHistory = history]
  BY DEF Record
<1>3. s.Trades + 1 \in Nat
  <2>1. s.Trades \in Nat
    BY DEF SessionState
  <2>2. QED
    BY <2>1
<1> HIDE DEF history
<1>4. /\ q \in SessionState /\ q.Trades = s.Trades + 1 /\ q.TradeHistory = history
      /\ q.Position = s.Position /\ q.EntryPrice = s.EntryPrice
      /\ q.cash = s.cash /\ q.shares = s.shares
      /\ q.CurrentPrice = s.CurrentPrice /\ q.EquityCurve = s.EquityCurve
  BY <1>1, <1>2, <1>3 DEF SessionState
<1>5. QED
  BY <1>4 DEF history

\* The curve d of this tick: the earlier curve c without its first, or none, and a point.
Extends(c, d, cut, point) ==
  /\ Len(d) \in 1 .. MaxCurve
  /\ Len(d) = Len(c) + 1 - cut
  /\ d[Len(d)] = point
  /\ \A i \in 1 .. Len(d) - 1 : d[i] = c[i + cut]

\* The curve gets a point at its end and, when it is too long, loses one at its front.
LEMMA KeptNewest ==
  ASSUME NEW curve \in Seq(EquityPoint), Len(curve) <= MaxCurve, NEW point \in EquityPoint,
         NEW kept, kept = KeepNewest(Append(curve, point))
  PROVE  kept \in Seq(EquityPoint) /\ \E cut \in {0, 1} : Extends(curve, kept, cut, point)
<1> DEFINE all == Append(curve, point)
<1>1. /\ all \in Seq(EquityPoint) /\ Len(all) = Len(curve) + 1 /\ all[Len(all)] = point
      /\ \A i \in 1 .. Len(curve) : all[i] = curve[i]
      /\ Len(curve) \in Nat /\ MaxCurve \in Nat \ {0}
  BY AppendProperties, LenProperties, Bounds
<1> HIDE DEF all
<1>2. CASE Len(all) <= MaxCurve
  <2>1. kept = all
    BY <1>1, <1>2 DEF KeepNewest, all
  <2>2. QED
    <3>1. Extends(curve, kept, 0, point)
      BY <1>1, <1>2, <2>1 DEF Extends
    <3>2. QED
      BY <1>1, <2>1, <3>1
<1>3. CASE Len(all) > MaxCurve
  <2>1. Len(curve) = MaxCurve /\ Len(all) = MaxCurve + 1
    BY <1>1, <1>3
  <2>2. kept = SubSeq(all, 2, MaxCurve + 1)
    <3>1. kept = SubSeq(all, Len(all) - MaxCurve + 1, Len(all))
      BY <1>3 DEF KeepNewest, all
    <3>2. Len(all) - MaxCurve + 1 = 2
      BY <1>1, <2>1
    <3>3. QED
      BY <2>1, <3>1, <3>2
  <2>3. /\ kept \in Seq(EquityPoint) /\ Len(kept) = MaxCurve
        /\ \A i \in 1 .. MaxCurve : kept[i] = all[i + 1]
    <3>1. 2 \in 1 .. Len(all) + 1 /\ MaxCurve + 1 \in 1 .. Len(all)
      BY <1>1, <2>1
    <3>2. QED
      BY <1>1, <2>2, <3>1, SubSeqProperties
  <2>4. kept[MaxCurve] = point
    BY <1>1, <2>1, <2>3
  <2>5. \A i \in 1 .. MaxCurve - 1 : kept[i] = curve[i + 1]
    BY <1>1, <2>1, <2>3
  <2>6. QED
    <3>1. Extends(curve, kept, 1, point)
      BY <1>1, <2>1, <2>3, <2>4, <2>5 DEF Extends
    <3>2. QED
      BY <2>3, <3>1
<1>4. QED
  BY <1>1, <1>2, <1>3

LEMMA MarkFields ==
  ASSUME NEW s \in SessionState, NEW t \in Nat, NEW value \in Int, value = totalValue(s),
         Len(s.EquityCurve) <= MaxCurve,
         NEW q, q = Mark(s, t)
  PROVE  /\ q \in SessionState /\ q.PnL = value
         /\ q.EquityCurve = KeepNewest(Append(s.EquityCurve, [T |-> t, V |-> value]))
         /\ q.Position = s.Position /\ q.EntryPrice = s.EntryPrice
         /\ q.cash = s.cash /\ q.shares = s.shares /\ q.Trades = s.Trades
         /\ q.CurrentPrice = s.CurrentPrice /\ q.TradeHistory = s.TradeHistory
<1> DEFINE curve == KeepNewest(Append(s.EquityCurve, [T |-> t, V |-> value]))
<1>1. curve \in Seq(EquityPoint)
  <2>1. [T |-> t, V |-> value] \in EquityPoint
    BY DEF EquityPoint
  <2>2. s.EquityCurve \in Seq(EquityPoint)
    BY DEF SessionState
  <2>3. QED
    BY <2>1, <2>2, KeptNewest
<1>2. q = [s EXCEPT !.PnL = value, !.EquityCurve = curve]
  BY DEF Mark
<1> HIDE DEF curve
<1>3. /\ q \in SessionState /\ q.PnL = value /\ q.EquityCurve = curve
      /\ q.Position = s.Position /\ q.EntryPrice = s.EntryPrice
      /\ q.cash = s.cash /\ q.shares = s.shares /\ q.Trades = s.Trades
      /\ q.CurrentPrice = s.CurrentPrice /\ q.TradeHistory = s.TradeHistory
  BY <1>1, <1>2 DEF SessionState
<1>4. QED
  BY <1>3 DEF curve

\* What a signal does to the account: it buys, it sells, or it is held.
Traded(s, q, kind, price, t, value) ==
  /\ q.Trades = s.Trades + 1
  /\ q.TradeHistory
       = Append(s.TradeHistory, [T |-> t, Kind |-> kind, Price |-> price, PnL |-> value])

Bought(s, q, price, t, value) ==
  /\ s.Position = "flat" /\ value = s.cash
  /\ q.Position = "long" /\ q.EntryPrice = price
  /\ q.cash = Nothing /\ q.shares = value - price
  /\ Traded(s, q, "buy", price, t, value)

Sold(s, q, price, t, value) ==
  /\ s.Position = "long" /\ value = s.shares + price
  /\ q.Position = "flat" /\ q.cash = value /\ q.shares = Nothing
  /\ Traded(s, q, "sell", price, t, value)

Kept(s, q, price, value) ==
  /\ value = IF s.Position = "long" THEN s.shares + price ELSE s.cash
  /\ q.Position = s.Position /\ q.EntryPrice = s.EntryPrice
  /\ q.cash = s.cash /\ q.shares = s.shares
  /\ q.Trades = s.Trades /\ q.TradeHistory = s.TradeHistory

LEMMA Applied ==
  ASSUME NEW s \in SessionState, NEW signal \in {"buy", "sell", "hold"}, NEW price \in Level,
         NEW t \in Nat, Len(s.EquityCurve) <= MaxCurve,
         IF s.Position = "long" THEN s.shares \in Int ELSE s.cash \in Int,
         NEW q, q = applySignal(s, signal, price, t)
  PROVE  /\ q \in SessionState /\ q.CurrentPrice = price
         /\ \E value \in Int :
              /\ \/ Bought(s, q, price, t, value)
                 \/ Sold(s, q, price, t, value)
                 \/ Kept(s, q, price, value)
              /\ q.PnL = value
              /\ q.EquityCurve = KeepNewest(Append(s.EquityCurve, [T |-> t, V |-> value]))
<1>0. PICK seen : seen = [s EXCEPT !.CurrentPrice = price, !.Signal = signal]
  OBVIOUS
<1>1. /\ seen \in SessionState /\ seen.CurrentPrice = price
      /\ seen.Position = s.Position /\ seen.EntryPrice = s.EntryPrice
      /\ seen.cash = s.cash /\ seen.shares = s.shares /\ seen.Trades = s.Trades
      /\ seen.TradeHistory = s.TradeHistory /\ seen.EquityCurve = s.EquityCurve
  <2>1. price \in Money
    BY Bounds DEF Money
  <2>2. QED
    BY <1>0, <2>1 DEF SessionState
<1>2. q = Mark(IF signal = "buy" /\ s.Position = "flat" THEN Buy(seen, t)
               ELSE IF signal = "sell" /\ s.Position = "long" THEN Sell(seen, t)
               ELSE seen, t)
  BY <1>0 DEF applySignal
<1>3. price \in Int /\ price \in Money /\ Nothing \in Money
  BY Bounds DEF Money
<1>4. s.Position \in {"flat", "long"}
  BY DEF SessionState
<1>5. CASE signal = "buy" /\ s.Position = "flat"
  <2> DEFINE x == [seen EXCEPT !.Position = "long", !.EntryPrice = seen.CurrentPrice,
                               !.shares = seen.cash - seen.CurrentPrice, !.cash = Nothing]
             b == Buy(seen, t)
  <2>1. PICK value \in Int : value = s.cash
    BY <1>5
  <2>2. value - price \in Int /\ value - price \in Money /\ value - price + price = value
    BY <1>3, <2>1 DEF Money
  <2>3. /\ x \in SessionState /\ x.Position = "long" /\ x.EntryPrice = price
        /\ x.cash = Nothing /\ x.shares = value - price /\ x.CurrentPrice = price
        /\ x.Trades = s.Trades /\ x.TradeHistory = s.TradeHistory
        /\ x.EquityCurve = s.EquityCurve
    BY <1>1, <1>3, <2>1, <2>2 DEF SessionState
  <2>4. b = Record(x, t, "buy")
    BY DEF Buy
  <2> HIDE DEF x, b
  <2>5. value = totalValue(x)
    BY <2>2, <2>3 DEF totalValue
  <2>6. /\ b \in SessionState /\ b.Trades = s.Trades + 1
        /\ b.TradeHistory = Append(s.TradeHistory, [T |-> t, Kind |-> "buy", Price |-> price,
                                                    PnL |-> value])
        /\ b.Position = "long" /\ b.EntryPrice = price /\ b.cash = Nothing
        /\ b.shares = value - price /\ b.CurrentPrice = price /\ b.EquityCurve = s.EquityCurve
    BY <2>3, <2>4, <2>5, RecordFields, SMTT(30)
  <2>7. value = totalValue(b)
    BY <2>2, <2>6 DEF totalValue
  <2>8. q = Mark(b, t)
    BY <1>2, <1>5 DEF b
  <2>9. /\ q \in SessionState /\ q.PnL = value
        /\ q.EquityCurve = KeepNewest(Append(s.EquityCurve, [T |-> t, V |-> value]))
        /\ q.Position = "long" /\ q.EntryPrice = price
        /\ q.cash = Nothing /\ q.shares = value - price /\ q.Trades = b.Trades
        /\ q.CurrentPrice = price /\ q.TradeHistory = b.TradeHistory
    BY <2>6, <2>7, <2>8, MarkFields
  <2>10. Bought(s, q, price, t, value)
    BY <1>5, <2>1, <2>6, <2>9 DEF Bought, Traded
  <2>11. QED
    BY <2>9, <2>10
<1>6. CASE signal = "sell" /\ s.Position = "long"
  <2> DEFINE x == [seen EXCEPT !.cash = seen.shares + seen.CurrentPrice, !.shares = Nothing,
                               !.Position = "flat"]
             b == Sell(seen, t)
  <2>1. PICK value \in Int : value = s.shares + price
    BY <1>3, <1>6
  <2>2. value \in Money
    BY <2>1 DEF Money
  <2>3. /\ x \in SessionState /\ x.Position = "flat"
        /\ x.cash = value /\ x.shares = Nothing /\ x.CurrentPrice = price
        /\ x.Trades = s.Trades /\ x.TradeHistory = s.TradeHistory
        /\ x.EquityCurve = s.EquityCurve
    BY <1>1, <1>3, <2>1, <2>2 DEF SessionState
  <2>4. b = Record(x, t, "sell")
    BY DEF Sell
  <2> HIDE DEF x, b
  <2>5. value = totalValue(x)
    BY <2>3 DEF totalValue
  <2>6. /\ b \in SessionState /\ b.Trades = s.Trades + 1
        /\ b.TradeHistory = Append(s.TradeHistory, [T |-> t, Kind |-> "sell", Price |-> price,
                                                    PnL |-> value])
        /\ b.Position = "flat" /\ b.cash = value /\ b.shares = Nothing
        /\ b.CurrentPrice = price /\ b.EquityCurve = s.EquityCurve
    BY <2>3, <2>4, <2>5, RecordFields
  <2>7. value = totalValue(b)
    BY <2>6 DEF totalValue
  <2>8. q = Mark(b, t)
    BY <1>2, <1>6 DEF b
  <2>9. /\ q \in SessionState /\ q.PnL = value
        /\ q.EquityCurve = KeepNewest(Append(s.EquityCurve, [T |-> t, V |-> value]))
        /\ q.Position = "flat" /\ q.cash = value /\ q.shares = Nothing /\ q.Trades = b.Trades
        /\ q.CurrentPrice = price /\ q.TradeHistory = b.TradeHistory
    BY <2>6, <2>7, <2>8, MarkFields
  <2>10. Sold(s, q, price, t, value)
    BY <1>6, <2>1, <2>6, <2>9 DEF Sold, Traded
  <2>11. QED
    BY <2>9, <2>10
<1>7. CASE ~(signal = "buy" /\ s.Position = "flat") /\ ~(signal = "sell" /\ s.Position = "long")
  <2>1. PICK value \in Int : value = IF s.Position = "long" THEN s.shares + price ELSE s.cash
    BY <1>3, <1>4
  <2>2. value = totalValue(seen) /\ q = Mark(seen, t)
    BY <1>1, <1>2, <1>7, <2>1 DEF totalValue
  <2>3. /\ q \in SessionState /\ q.PnL = value
        /\ q.EquityCurve = KeepNewest(Append(s.EquityCurve, [T |-> t, V |-> value]))
        /\ q.Position = s.Position /\ q.EntryPrice = s.EntryPrice
        /\ q.cash = s.cash /\ q.shares = s.shares /\ q.Trades = s.Trades
        /\ q.CurrentPrice = price /\ q.TradeHistory = s.TradeHistory
    <3>1. /\ seen \in SessionState /\ Len(seen.EquityCurve) <= MaxCurve /\ value \in Int
          /\ value = totalValue(seen) /\ q = Mark(seen, t)
      BY <1>1, <2>1, <2>2
    <3>2. /\ q \in SessionState /\ q.PnL = value
          /\ q.EquityCurve = KeepNewest(Append(seen.EquityCurve, [T |-> t, V |-> value]))
          /\ q.Position = seen.Position /\ q.EntryPrice = seen.EntryPrice
          /\ q.cash = seen.cash /\ q.shares = seen.shares /\ q.Trades = seen.Trades
          /\ q.CurrentPrice = seen.CurrentPrice /\ q.TradeHistory = seen.TradeHistory
      BY <3>1, MarkFields
    <3>3. QED
      BY <1>1, <3>2
  <2>4. Kept(s, q, price, value)
    BY <2>1, <2>3 DEF Kept
  <2>5. QED
    BY <2>3, <2>4
<1>8. QED
  BY <1>5, <1>6, <1>7

(***************************************************************************)
(* A trade at the end of the history leaves what the history tells of the  *)
(* trades before it.                                                       *)
(***************************************************************************)

LEMMA Grown ==
  ASSUME NEW h \in Seq(TradeRecord), NEW trade \in TradeRecord, NEW n, n = Len(h)
  PROVE  LET g == Append(h, trade)
         IN  /\ g \in Seq(TradeRecord) /\ n \in Nat /\ Len(g) = n + 1
             /\ DOMAIN h = 1 .. n /\ DOMAIN g = 1 .. n + 1
             /\ g[n + 1] = trade /\ \A k \in 1 .. n : g[k] = h[k]
             /\ \A k \in 0 .. n : Worth(g, k) = Worth(h, k)
             /\ Worth(g, n + 1) = trade.PnL
<1> DEFINE g == Append(h, trade)
<1>1. /\ g \in Seq(TradeRecord) /\ n \in Nat /\ Len(g) = n + 1
      /\ g[n + 1] = trade /\ \A k \in 1 .. n : g[k] = h[k]
  BY AppendProperties, LenProperties
<1> HIDE DEF g
<1>2. DOMAIN h = 1 .. n /\ DOMAIN g = 1 .. n + 1
  BY <1>1, LenProperties
<1>3. \A k \in 0 .. n : Worth(g, k) = Worth(h, k)
  <2>1. TAKE k \in 0 .. n
  <2>2. k = 0 \/ k \in 1 .. n
    BY <1>1
  <2>3. k = 0 \/ g[k] = h[k]
    BY <1>1, <2>2
  <2>4. QED
    BY <2>3 DEF Worth
<1>4. Worth(g, n + 1) = trade.PnL
  <2>1. n + 1 # 0
    BY <1>1
  <2>2. QED
    BY <1>1, <2>1 DEF Worth
<1>5. QED
  BY <1>1, <1>2, <1>3, <1>4 DEF g

LEMMA WorthType ==
  ASSUME NEW h \in Seq(TradeRecord), NEW k \in 0 .. Len(h)
  PROVE  Worth(h, k) \in Int /\ (k > 0 => h[k].Price \in Int)
<1>1. CASE k = 0
  BY <1>1 DEF Worth
<1>2. CASE k > 0
  <2>1. h[k] \in TradeRecord
    BY <1>2, LenProperties
  <2>2. h[k].PnL \in Int /\ h[k].Price \in Int
    BY <2>1, Bounds DEF TradeRecord
  <2>3. QED
    BY <1>2, <2>2 DEF Worth
<1>3. QED
  BY <1>1, <1>2, LenProperties

LEMMA Parity ==
  ASSUME NEW n \in Nat
  PROVE  /\ n % 2 = 0 \/ n % 2 = 1
         /\ n % 2 = 1 => n > 0
         /\ n % 2 = 0 <=> (n + 1) % 2 = 1
         /\ n % 2 = 1 => n % 2 # 0 /\ (n + 1) % 2 # 1
OBVIOUS

\* The trade that is due after n trades.
Due(h, n, trade) ==
  IF n % 2 = 0
  THEN trade.Kind = "buy" /\ trade.PnL = Worth(h, n)
  ELSE trade.Kind = "sell" /\ trade.PnL = Worth(h, n) + trade.Price - h[n].Price

LEMMA AlternateOn ==
  ASSUME NEW h \in Seq(TradeRecord), NEW trade \in TradeRecord, NEW g, g = Append(h, trade),
         Alternate(h), NEW n, n = Len(h), Due(h, n, trade)
  PROVE  Alternate(g)
<1>1. /\ n \in Nat /\ DOMAIN h = 1 .. n /\ DOMAIN g = 1 .. n + 1
      /\ g[n + 1] = trade /\ \A k \in 1 .. n : g[k] = h[k]
      /\ \A k \in 0 .. n : Worth(g, k) = Worth(h, k)
  BY Grown
<1> DEFINE Right(x, k) ==
             IF k % 2 = 1
             THEN x[k].Kind = "buy" /\ x[k].PnL = Worth(x, k - 1)
             ELSE /\ x[k].Kind = "sell"
                  /\ x[k].PnL = Worth(x, k - 1) + x[k].Price - x[k - 1].Price
<1>2. \A k \in 1 .. n : Right(g, k)
  <2>1. TAKE k \in 1 .. n
  <2>2. Right(h, k)
    BY <1>1 DEF Alternate
  <2>3. g[k] = h[k] /\ Worth(g, k - 1) = Worth(h, k - 1) /\ (k % 2 # 1 => g[k - 1] = h[k - 1])
    <3>1. k - 1 \in 0 .. n /\ (k % 2 # 1 => k - 1 \in 1 .. n)
      BY <1>1
    <3>2. QED
      BY <1>1, <3>1
  <2>4. QED
    BY <2>2, <2>3
<1>3. Right(g, n + 1)
  <2>1. n + 1 - 1 = n /\ n \in 0 .. n /\ (n % 2 = 0 <=> (n + 1) % 2 = 1)
        /\ (n % 2 # 0 => n \in 1 .. n)
    BY <1>1
  <2>2. g[n + 1] = trade /\ Worth(g, n) = Worth(h, n) /\ (n % 2 # 0 => g[n] = h[n])
    BY <1>1, <2>1
  <2>3. QED
    BY <2>1, <2>2 DEF Due
<1> HIDE DEF Right
<1>4. \A k \in DOMAIN g : Right(g, k)
  <2>1. \A k \in DOMAIN g : k \in 1 .. n \/ k = n + 1
    BY <1>1
  <2>2. QED
    BY <1>2, <1>3, <2>1
<1>5. QED
  BY <1>4 DEF Alternate, Right

\* A session whose account its history replays holds money or shares, worth a number.
LEMMA Counted ==
  ASSUME NEW s \in SessionState, NEW n, n = Len(s.TradeHistory), Replays(s, n)
  PROVE  /\ n \in Nat
         /\ IF s.Position = "long" THEN s.shares \in Int ELSE s.cash \in Int
<1>1. s.TradeHistory \in Seq(TradeRecord)
  BY DEF SessionState
<1>2. n \in Nat
  BY <1>1, LenProperties
<1>3. Worth(s.TradeHistory, n) \in Int /\ (n > 0 => s.TradeHistory[n].Price \in Int)
  BY <1>1, <1>2, WorthType
<1>4. n % 2 = 1 => n > 0
  BY <1>2, Parity
<1>5. QED
  <2>1. CASE n % 2 = 1
    <3>1. s.Position = "long" /\ s.shares = Worth(s.TradeHistory, n) - s.TradeHistory[n].Price
      BY <2>1 DEF Replays
    <3>2. QED
      BY <1>2, <1>3, <1>4, <2>1, <3>1
  <2>2. CASE n % 2 # 1
    <3>1. s.Position = "flat" /\ s.cash = Worth(s.TradeHistory, n)
      BY <2>2 DEF Replays
    <3>2. QED
      BY <1>2, <1>3, <3>1
  <2>3. QED
    BY <2>1, <2>2

Stepped(s, q, price, t, value) ==
  \/ Bought(s, q, price, t, value)
  \/ Sold(s, q, price, t, value)
  \/ Kept(s, q, price, value)

\* The history stays as it is, or gets the trade that is due.
LEMMA ReplaysOn ==
  ASSUME NEW s \in SessionState, NEW h, h = s.TradeHistory, NEW n, n = Len(h),
         Replays(s, n), Alternate(h),
         NEW price \in Level, NEW t \in Nat, NEW value \in Int, NEW q \in SessionState,
         q.CurrentPrice = price, q.PnL = value, Stepped(s, q, price, t, value),
         NEW g, g = q.TradeHistory
  PROVE  /\ Alternate(g) /\ Replays(q, Len(g))
         /\ \/ g = h
            \/ \E trade \in TradeRecord :
                 trade.T = t /\ trade.PnL = value /\ g = Append(h, trade)
<1>1. h \in Seq(TradeRecord) /\ n \in Nat
  <2>1. h \in Seq(TradeRecord)
    BY DEF SessionState
  <2>2. QED
    BY <2>1, LenProperties
<1>2. Worth(h, n) \in Int /\ (n > 0 => h[n].Price \in Int) /\ price \in Int
  BY <1>1, Bounds, WorthType
<1>3. CASE Bought(s, q, price, t, value)
  <2>1. PICK trade : trade = [T |-> t, Kind |-> "buy", Price |-> price, PnL |-> value]
    OBVIOUS
  <2>2. /\ trade \in TradeRecord /\ trade.T = t /\ trade.PnL = value
        /\ trade.Kind = "buy" /\ trade.Price = price
    BY <2>1 DEF TradeRecord
  <2>3. g = Append(h, trade) /\ q.Trades = s.Trades + 1
    BY <1>3, <2>1 DEF Bought, Traded
  <2>4. n % 2 = 0 /\ value = Worth(h, n) /\ s.Trades = n
    <3>1. s.Position = "flat" /\ value = s.cash
      BY <1>3 DEF Bought
    <3>2. n % 2 # 1 /\ s.cash = Worth(h, n) /\ s.Trades = n
      BY <3>1 DEF Replays
    <3>3. n % 2 = 0 \/ n % 2 = 1
      BY <1>1, Parity
    <3>4. QED
      BY <3>1, <3>2, <3>3
  <2>5. Alternate(g)
    <3>1. Due(h, n, trade)
      BY <2>2, <2>4 DEF Due
    <3>2. QED
      BY <1>1, <2>2, <2>3, <3>1, AlternateOn
  <2>6. /\ Len(g) = n + 1 /\ g[n + 1] = trade /\ Worth(g, n + 1) = value
    BY <1>1, <2>2, <2>3, Grown
  <2>7. Replays(q, n + 1)
    <3>1. (n + 1) % 2 = 1
      BY <1>1, <2>4, Parity
    <3>4. value + price - price = value
      BY <1>2
    <3>2. /\ q.Position = "long" /\ q.EntryPrice = price
          /\ q.cash = Nothing /\ q.shares = value - price
      BY <1>3 DEF Bought
    <3>3. QED
      BY <2>2, <2>3, <2>4, <2>6, <3>1, <3>2, <3>4 DEF Replays
  <2>8. QED
    BY <2>2, <2>3, <2>5, <2>6, <2>7
<1>4. CASE Sold(s, q, price, t, value)
  <2>1. PICK trade : trade = [T |-> t, Kind |-> "sell", Price |-> price, PnL |-> value]
    OBVIOUS
  <2>2. /\ trade \in TradeRecord /\ trade.T = t /\ trade.PnL = value
        /\ trade.Kind = "sell" /\ trade.Price = price
    BY <2>1 DEF TradeRecord
  <2>3. g = Append(h, trade) /\ q.Trades = s.Trades + 1
    BY <1>4, <2>1 DEF Sold, Traded
  <2>4. n % 2 = 1 /\ value = Worth(h, n) + price - h[n].Price /\ s.Trades = n
    <3>1. s.Position = "long" /\ value = s.shares + price
      BY <1>4 DEF Sold
    <3>2. n % 2 = 1 /\ s.shares = Worth(h, n) - h[n].Price /\ s.Trades = n
      BY <3>1 DEF Replays
    <3>3. n > 0
      BY <1>1, <3>2, Parity
    <3>4. value = Worth(h, n) + price - h[n].Price
      BY <1>2, <3>1, <3>2, <3>3
    <3>5. QED
      BY <3>2, <3>4
  <2>5. Alternate(g)
    <3>1. n % 2 # 0
      BY <1>1, <2>4, Parity
    <3>2. Due(h, n, trade)
      BY <2>2, <2>4, <3>1 DEF Due
    <3>3. QED
      BY <1>1, <2>2, <2>3, <3>2, AlternateOn
  <2>6. Len(g) = n + 1 /\ Worth(g, n + 1) = value
    BY <1>1, <2>2, <2>3, Grown
  <2>7. Replays(q, n + 1)
    <3>1. (n + 1) % 2 # 1
      BY <1>1, <2>4, Parity
    <3>2. q.Position = "flat" /\ q.cash = value /\ q.shares = Nothing
      BY <1>4 DEF Sold
    <3>3. QED
      BY <2>3, <2>4, <2>6, <3>1, <3>2 DEF Replays
  <2>8. QED
    BY <2>2, <2>3, <2>5, <2>6, <2>7
<1>5. CASE Kept(s, q, price, value)
  <2>1. /\ g = h /\ q.Trades = s.Trades /\ q.Position = s.Position
        /\ q.EntryPrice = s.EntryPrice /\ q.cash = s.cash /\ q.shares = s.shares
        /\ value = IF s.Position = "long" THEN s.shares + price ELSE s.cash
    BY <1>5 DEF Kept
  <2>2. CASE n % 2 = 1
    <3>1. n > 0
      BY <1>1, <2>2, Parity
    <3>2. /\ s.Position = "long" /\ s.shares = Worth(h, n) - h[n].Price
          /\ s.EntryPrice = h[n].Price /\ s.cash = Nothing /\ s.Trades = n
      BY <2>2 DEF Replays
    <3>3. value = Worth(h, n) + price - h[n].Price
      BY <1>2, <2>1, <3>1, <3>2
    <3>4. Replays(q, n)
      BY <2>1, <2>2, <3>2, <3>3 DEF Replays
    <3>5. QED
      BY <2>1, <3>4
  <2>3. CASE n % 2 # 1
    <3>1. s.Position = "flat" /\ s.cash = Worth(h, n) /\ s.shares = Nothing /\ s.Trades = n
      BY <2>3 DEF Replays
    <3>2. Replays(q, n)
      BY <2>1, <2>3, <3>1 DEF Replays
    <3>3. QED
      BY <2>1, <3>2
  <2>4. QED
    BY <2>2, <2>3
<1>6. QED
  BY <1>3, <1>4, <1>5 DEF Stepped

(***************************************************************************)
(* The curve: old points are kept but for the oldest, and the point of     *)
(* this tick is new.                                                       *)
(***************************************************************************)

LEMMA UpTo ==
  ASSUME NEW n \in Nat
  PROVE  IsFiniteSet(1 .. n) /\ Cardinality(1 .. n) = n
<1>1. /\ IsFiniteSet(1 .. n)
      /\ Cardinality(1 .. n) = IF 1 > n THEN 0 ELSE n - 1 + 1
  BY FS_Interval
<1>2. QED
  BY <1>1

\* How many trades there were by a time.
LEMMA TradesByType ==
  ASSUME NEW h \in Seq(TradeRecord), NEW t
  PROVE  TradesBy(h, t) \in 0 .. Len(h)
<1>1. PICK n : n = Len(h)
  OBVIOUS
<1>2. n \in Nat /\ DOMAIN h = 1 .. n
  BY <1>1, LenProperties
<1>3. PICK before : before = {k \in DOMAIN h : h[k].T <= t}
  OBVIOUS
<1>4. before \subseteq 1 .. n
  BY <1>2, <1>3
<1>5. IsFiniteSet(1 .. n) /\ Cardinality(1 .. n) = n
  BY <1>2, UpTo
<1>6. IsFiniteSet(before) /\ Cardinality(before) <= n
  BY <1>4, <1>5, FS_Subset
<1>7. Cardinality(before) \in Nat
  BY <1>6, FS_CardinalityType
<1>8. Cardinality(before) \in 0 .. n
  BY <1>2, <1>6, <1>7
<1>9. TradesBy(h, t) = Cardinality(before)
  BY <1>3 DEF TradesBy
<1>10. QED
  BY <1>1, <1>8, <1>9

\* All trades, when none is later.
LEMMA AllTradesBy ==
  ASSUME NEW h \in Seq(TradeRecord), NEW t, \A k \in DOMAIN h : h[k].T <= t
  PROVE  TradesBy(h, t) = Len(h)
<1>1. PICK n : n = Len(h)
  OBVIOUS
<1>2. n \in Nat /\ DOMAIN h = 1 .. n
  BY <1>1, LenProperties
<1>3. {k \in DOMAIN h : h[k].T <= t} = 1 .. n
  BY <1>2
<1>4. Cardinality(1 .. n) = n
  BY <1>2, UpTo
<1>5. TradesBy(h, t) = Cardinality(1 .. n)
  BY <1>3 DEF TradesBy
<1>6. QED
  BY <1>1, <1>4, <1>5

\* The history g of this tick: the earlier one, or that and a trade of value v at time t.
Goes(h, g, t, v) ==
  \/ g = h
  \/ \E trade \in TradeRecord : trade.T = t /\ trade.PnL = v /\ g = Append(h, trade)

Longer(h, g, t, v, n, m) ==
  /\ g \in Seq(TradeRecord) /\ n \in Nat /\ m \in {n, n + 1}
  /\ DOMAIN h = 1 .. n /\ DOMAIN g = 1 .. m
  /\ \A k \in 1 .. n : g[k] = h[k]
  /\ \A k \in 0 .. n : Worth(g, k) = Worth(h, k)
  /\ m = n + 1 => g[n + 1].T = t /\ g[n + 1].PnL = v

LEMMA GoesOn ==
  ASSUME NEW h \in Seq(TradeRecord), NEW t \in Nat, NEW v, NEW g, Goes(h, g, t, v)
  PROVE  Longer(h, g, t, v, Len(h), Len(g))
<1>0. PICK n, m : n = Len(h) /\ m = Len(g)
  OBVIOUS
<1>1. n \in Nat /\ DOMAIN h = 1 .. n
  BY <1>0, LenProperties
<1>2. CASE g = h
  <2>1. m = n /\ m # n + 1
    BY <1>0, <1>1, <1>2
  <2>2. QED
    BY <1>0, <1>1, <1>2, <2>1 DEF Longer
<1>3. CASE g # h
  <2>1. PICK trade \in TradeRecord :
          trade.T = t /\ trade.PnL = v /\ g = Append(h, trade)
    BY <1>3 DEF Goes
  <2>2. /\ g \in Seq(TradeRecord) /\ m = n + 1 /\ DOMAIN g = 1 .. n + 1
        /\ g[n + 1] = trade /\ \A k \in 1 .. n : g[k] = h[k]
        /\ \A k \in 0 .. n : Worth(g, k) = Worth(h, k)
    BY <1>0, <2>1, Grown
  <2>3. QED
    BY <1>0, <1>1, <2>1, <2>2 DEF Longer
<1>4. QED
  BY <1>2, <1>3

\* A time before this tick has the trades it had.
LEMMA SameTradesBy ==
  ASSUME NEW h \in Seq(TradeRecord), NEW t \in Nat, NEW v, NEW g, Goes(h, g, t, v),
         NEW u \in Nat, u < t
  PROVE  TradesBy(g, u) = TradesBy(h, u)
<1>0. PICK n, m : n = Len(h) /\ m = Len(g)
  OBVIOUS
<1>1. /\ n \in Nat /\ m \in {n, n + 1} /\ DOMAIN h = 1 .. n /\ DOMAIN g = 1 .. m
      /\ \A k \in 1 .. n : g[k] = h[k]
      /\ m = n + 1 => g[n + 1].T = t
  BY <1>0, GoesOn DEF Longer
<1>2. \A k : k \in DOMAIN g /\ g[k].T <= u <=> k \in DOMAIN h /\ h[k].T <= u
  <2>1. TAKE k
  <2>2. CASE k \in DOMAIN h
    <3>1. k \in DOMAIN g /\ g[k] = h[k]
      BY <1>1, <2>2
    <3>2. QED
      BY <2>2, <3>1
  <2>3. CASE k \notin DOMAIN h
    <3>1. k \in DOMAIN g => k = n + 1 /\ m = n + 1
      BY <1>1, <2>3
    <3>2. ~(t <= u)
      OBVIOUS
    <3>3. QED
      BY <1>1, <2>3, <3>1, <3>2
  <2>4. QED
    BY <2>2, <2>3
<1>3. {k \in DOMAIN g : g[k].T <= u} = {k \in DOMAIN h : h[k].T <= u}
  BY <1>2
<1>4. QED
  BY <1>3 DEF TradesBy

Past(x, t) == \A i \in DOMAIN x : x[i].T < t

LEMMA TellsOn ==
  ASSUME NEW c \in Seq(EquityPoint), NEW h \in Seq(TradeRecord), TellsTheTrades(c, h),
         NEW t \in Nat, Past(c, t), Past(h, t), NEW v \in Int,
         NEW g, Goes(h, g, t, v),
         NEW d \in Seq(EquityPoint), NEW cut \in {0, 1}, Extends(c, d, cut, [T |-> t, V |-> v]),
         Len(g) % 2 = 0 => v = Worth(g, Len(g))
  PROVE  TellsTheTrades(d, g)
<1>1. PICK H, G : H = Len(h) /\ G = Len(g)
  OBVIOUS
<1>0. /\ g \in Seq(TradeRecord) /\ H \in Nat /\ G \in {H, H + 1}
      /\ DOMAIN h = 1 .. H /\ DOMAIN g = 1 .. G
      /\ \A k \in 1 .. H : g[k] = h[k]
      /\ \A k \in 0 .. H : Worth(g, k) = Worth(h, k)
      /\ G = H + 1 => g[H + 1].T = t /\ g[H + 1].PnL = v
  <2>1. Longer(h, g, t, v, H, G)
    BY <1>1, GoesOn
  <2>2. QED
    BY <2>1 DEF Longer
<1>2. PICK n : n = Len(d)
  OBVIOUS
<1>3. PICK m : m = Len(c)
  OBVIOUS
<1>4. /\ n \in Nat /\ m \in Nat /\ n >= 1 /\ n = m + 1 - cut
      /\ DOMAIN c = 1 .. m /\ DOMAIN d = 1 .. n
  BY <1>2, <1>3, LenProperties DEF Extends
<1>5. d[n] = [T |-> t, V |-> v] /\ \A i \in 1 .. n - 1 : d[i] = c[i + cut]
  BY <1>2 DEF Extends
<1>6. \A i \in 1 .. m : c[i].T \in Nat /\ c[i].T < t
  <2>1. \A i \in 1 .. m : c[i] \in EquityPoint
    BY <1>3, LenProperties
  <2>2. QED
    BY <1>4, <2>1 DEF EquityPoint, Past
<1>7. \A k \in 1 .. H : h[k].T \in Nat /\ h[k].T < t
  <2>1. \A k \in 1 .. H : h[k] \in TradeRecord
    BY <1>1, LenProperties
  <2>2. QED
    BY <1>0, <2>1 DEF TradeRecord, Past
<1>8. \A i, j \in 1 .. m : i < j => c[i].T < c[j].T
  BY <1>4 DEF TellsTheTrades
<1>9. \A i \in 1 .. n - 1 : i + cut \in 1 .. m
  BY <1>4
<1>10. \A k \in DOMAIN g : k \in 1 .. H \/ (k = H + 1 /\ G = H + 1)
  BY <1>0
<1>11. \A k \in DOMAIN g : g[k].T \in Nat /\ g[k].T <= t
  <2>1. TAKE k \in DOMAIN g
  <2>2. CASE k \in 1 .. H
    <3>1. g[k] = h[k] /\ h[k].T \in Nat /\ h[k].T < t
      BY <1>0, <1>7, <2>2
    <3>2. QED
      BY <3>1
  <2>3. CASE k = H + 1 /\ G = H + 1
    BY <1>0, <2>3
  <2>4. QED
    BY <1>10, <2>2, <2>3
<1>12. \A i, j \in DOMAIN d : i < j => d[i].T < d[j].T
  <2>1. SUFFICES ASSUME NEW i \in 1 .. n, NEW j \in 1 .. n, i < j
                 PROVE  d[i].T < d[j].T
    BY <1>4
  <2>2. i \in 1 .. n - 1 /\ i + cut \in 1 .. m /\ d[i] = c[i + cut]
    BY <1>4, <1>5, <1>9, <2>1
  <2>3. CASE j = n
    BY <1>5, <1>6, <2>2, <2>3
  <2>4. CASE j # n
    <3>1. j \in 1 .. n - 1 /\ j + cut \in 1 .. m /\ d[j] = c[j + cut]
      BY <1>4, <1>5, <1>9, <2>4
    <3>2. i + cut < j + cut
      BY <2>1, <1>4
    <3>3. QED
      BY <1>8, <2>2, <3>1, <3>2
  <2>5. QED
    BY <2>3, <2>4
<1>13. g # <<>> => d # <<>> /\ g[Len(g)].T <= d[Len(d)].T
  <2>1. d # <<>>
    BY <1>2, <1>4
  <2>2. g # <<>> => G \in DOMAIN g
    <3>1. g # <<>> => G # 0
      BY <1>0, <1>1, EmptySeq
    <3>2. QED
      BY <1>0, <3>1
  <2>3. QED
    BY <1>1, <1>2, <1>5, <1>11, <2>1, <2>2
<1>14. ASSUME NEW k \in DOMAIN g, d[1].T <= g[k].T
       PROVE  \E i \in DOMAIN d : d[i] = [T |-> g[k].T, V |-> g[k].PnL]
  <2>1. CASE k = H + 1 /\ G = H + 1
    <3>1. d[n] = [T |-> g[k].T, V |-> g[k].PnL] /\ n \in DOMAIN d
      BY <1>0, <1>4, <1>5, <2>1
    <3>2. QED
      BY <3>1
  <2>2. CASE k \in 1 .. H
    <3>1. g[k] = h[k] /\ h[k].T \in Nat /\ h[k].T < t /\ k \in DOMAIN h
      BY <1>0, <1>7, <2>2
    <3>2. 1 \in 1 .. n - 1
      <4>1. n # 1
        BY <1>5, <1>14, <3>1
      <4>2. QED
        BY <1>4, <4>1
    <3>3. d[1] = c[1 + cut] /\ 1 + cut \in 1 .. m
      BY <1>5, <1>9, <3>2
    <3>4. c[1].T <= c[1 + cut].T
      <4>1. 1 \in 1 .. m /\ (cut = 0 \/ 1 < 1 + cut) /\ (cut = 0 => 1 + cut = 1)
        BY <1>4, <3>3
      <4>2. c[1].T \in Nat /\ c[1 + cut].T \in Nat
        BY <1>6, <3>3, <4>1
      <4>3. QED
        BY <1>8, <3>3, <4>1, <4>2, SMTT(30)
    <3>5. c[1].T <= h[k].T
      <4>1. c[1].T \in Nat /\ c[1 + cut].T \in Nat /\ c[1 + cut].T <= h[k].T
        BY <1>4, <1>6, <1>14, <3>1, <3>3
      <4>2. QED
        BY <3>1, <3>4, <4>1, SMTT(30)
    <3>6. PICK i \in 1 .. m : c[i] = [T |-> h[k].T, V |-> h[k].PnL]
      BY <1>4, <3>1, <3>5 DEF TellsTheTrades
    <3>7. 1 + cut <= i
      <4>1. ~(c[i].T < c[1 + cut].T)
        <5>1. c[i].T = h[k].T /\ c[1 + cut].T \in Nat /\ c[1 + cut].T <= h[k].T
          BY <1>6, <1>14, <3>1, <3>3, <3>6
        <5>2. QED
          BY <3>1, <5>1, SMTT(30)
      <4>2. ~(i < 1 + cut)
        BY <1>8, <3>3, <3>6, <4>1
      <4>3. QED
        BY <1>4, <3>6, <4>2
    <3>8. i - cut \in 1 .. n - 1 /\ i - cut + cut = i
      BY <1>4, <3>6, <3>7
    <3>9. i - cut \in DOMAIN d /\ d[i - cut] = c[i]
      BY <1>4, <1>5, <3>8
    <3>10. QED
      BY <3>1, <3>6, <3>9
  <2>3. QED
    BY <1>10, <2>1, <2>2
<1>15. ASSUME NEW i \in DOMAIN d, TradesBy(g, d[i].T) % 2 = 0
       PROVE  d[i].V = Worth(g, TradesBy(g, d[i].T))
  <2>1. CASE i = n
    <3>1. d[i].T = t /\ d[i].V = v
      BY <1>5, <2>1
    <3>2. TradesBy(g, t) = Len(g)
      BY <1>0, <1>11, AllTradesBy
    <3>3. QED
      BY <1>15, <3>1, <3>2
  <2>2. CASE i # n
    <3>1. i \in 1 .. n - 1
      BY <1>4, <2>2
    <3>2. i + cut \in 1 .. m /\ d[i] = c[i + cut]
      BY <1>5, <1>9, <3>1
    <3>3. PICK u : u = d[i].T
      OBVIOUS
    <3>4. u \in Nat /\ u < t /\ u = c[i + cut].T
      BY <1>6, <3>2, <3>3
    <3>5. TradesBy(g, u) = TradesBy(h, u)
      BY <3>4, SameTradesBy
    <3>6. TradesBy(h, u) \in 0 .. H
      BY <1>1, TradesByType
    <3>7. TradesBy(h, c[i + cut].T) % 2 = 0
            => c[i + cut].V = Worth(h, TradesBy(h, c[i + cut].T))
      <4>1. i + cut \in DOMAIN c
        BY <1>4, <3>2
      <4>2. QED
        BY <4>1 DEF TellsTheTrades
    <3>8. d[i].V = Worth(h, TradesBy(h, u))
      BY <1>15, <3>2, <3>3, <3>4, <3>5, <3>7
    <3>9. Worth(g, TradesBy(h, u)) = Worth(h, TradesBy(h, u))
      BY <1>0, <3>6
    <3>10. QED
      BY <3>3, <3>5, <3>8, <3>9
  <2>3. QED
    BY <2>1, <2>2
<1>16. QED
  BY <1>12, <1>13, <1>14, <1>15 DEF TellsTheTrades

(***************************************************************************)
(* The steps of a session.                                                 *)
(***************************************************************************)

LEMMA Signals ==
  ASSUME TypeOK, NEW closes
  PROVE  computeLiveSignal(closes) \in {"buy", "sell", "hold"}
<1>1. strategy \in Builtin \cup {"custom"}
  BY DEF TypeOK
<1>2. \A useEMA : liveSignalCrossover(closes, useEMA) \in {"buy", "sell", "hold"}
  BY DEF liveSignalCrossover
<1>3. liveSignalRSI(closes) \in {"buy", "sell", "hold"}
  BY DEF liveSignalRSI
<1>4. liveSignalBollinger(closes) \in {"buy", "sell", "hold"}
  BY DEF liveSignalBollinger
<1>5. liveSignalBreakout(closes) \in {"buy", "sell", "hold"}
  BY DEF liveSignalBreakout
<1>6. computeCustomLiveSignal(closes) \in {"buy", "sell", "hold"}
  BY DEF computeCustomLiveSignal
<1>7. QED
  BY <1>1, <1>2, <1>3, <1>4, <1>5, <1>6 DEF computeLiveSignal, Builtin

\* What a tick finds at the exchange, and the time.
LEMMA Fired ==
  ASSUME TypeOK, Fires
  PROVE  /\ market' \in Seq(Level) /\ Len(market') \in FirstBars .. MaxBar
         /\ Last(market') \in Level
         /\ now \in Nat /\ now' = now + 1 /\ now' \in 0 .. MaxTime
         /\ strategy' = strategy /\ code' = code
<1>1. now \in Nat /\ now' = now + 1 /\ now' \in 0 .. MaxTime
  <2>1. now \in 0 .. MaxTime /\ now < MaxTime /\ now' = now + 1
    BY DEF TypeOK, Fires
  <2>2. MaxTime \in Nat
    BY Bounds
  <2>3. QED
    BY <2>1, <2>2
<1>2. /\ market \in Seq(Level) /\ Len(market) \in FirstBars .. MaxBar
      /\ FirstBars \in Nat \ {0} /\ MaxBar \in Nat
  BY Bounds DEF TypeOK
<1>3. PICK p \in Level :
        \/ market' = [market EXCEPT ![Len(market)] = p]
        \/ Len(market) < MaxBar /\ market' = Append(market, p)
  BY DEF Fires, MarketMoves
<1>4. /\ market' \in Seq(Level) /\ Len(market') \in FirstBars .. MaxBar
      /\ market'[Len(market')] \in Level
  <2>1. CASE market' = [market EXCEPT ![Len(market)] = p]
    <3>1. Len(market) \in 1 .. Len(market)
      BY <1>2
    <3>2. /\ market' \in Seq(Level) /\ Len(market') = Len(market)
          /\ market'[Len(market)] = p
      BY <1>2, <2>1, <3>1, ExceptSeq
    <3>3. QED
      BY <1>2, <3>2
  <2>2. CASE Len(market) < MaxBar /\ market' = Append(market, p)
    <3>1. /\ market' \in Seq(Level) /\ Len(market') = Len(market) + 1
          /\ market'[Len(market) + 1] = p
      BY <1>2, <2>2, AppendProperties
    <3>2. QED
      BY <1>2, <2>2, <3>1
  <2>3. QED
    BY <1>3, <2>1, <2>2
<1>5. Last(market') \in Level
  BY <1>4 DEF Last
<1>6. strategy' = strategy /\ code' = code
  BY DEF Fires
<1>7. QED
  BY <1>1, <1>4, <1>5, <1>6

LEMMA InitIInv == Init => IInv
<1> SUFFICES ASSUME Init PROVE IInv
  OBVIOUS
<1>1. <<strategy, code>> \in (Builtin \X {""}) \cup ({"custom"} \X Preset)
  BY DEF Init
<1>2. market \in Seq(Level) /\ Len(market) \in FirstBars .. MaxBar
  <2>1. market \in [1 .. FirstBars -> Level] /\ FirstBars \in Nat
    BY Bounds DEF Init
  <2>2. market \in Seq(Level) /\ Len(market) = FirstBars
    BY <2>1
  <2>3. QED
    BY <2>2, Bounds
<1>3. now \in 0 .. MaxTime
  <2>1. now = 0
    BY DEF Init
  <2>2. MaxTime \in Nat
    BY Bounds
  <2>3. QED
    BY <2>1, <2>2
<1>4. PICK s : s = sess
  OBVIOUS
<1>5. /\ s.TradeHistory = <<>> /\ s.EquityCurve = <<>> /\ s.Trades = 0 /\ s.PnL = 0
      /\ s.Position = "flat" /\ s.cash = 0 /\ s.shares = Nothing
      /\ s \in SessionState
  <2>1. s = NewSession
    BY <1>4 DEF Init
  <2>2. 0 \in Money /\ Nothing \in Money /\ 0 \in Int /\ 0 \in Nat
    BY DEF Money
  <2>3. <<>> \in Seq(TradeRecord) /\ <<>> \in Seq(EquityPoint)
    BY EmptySeq
  <2>4. QED
    BY <2>1, <2>2, <2>3 DEF NewSession, SessionState
<1>6. Len(<<>>) = 0 /\ DOMAIN <<>> = {}
  OBVIOUS
<1>7. TypeOK
  <2>1. sess = s /\ 0 <= MaxCurve
    BY <1>4, Bounds
  <2>2. QED
    BY <1>1, <1>2, <1>3, <1>5, <1>6, <2>1 DEF TypeOK
<1>8. Alternate(<<>>)
  BY <1>6 DEF Alternate
<1>9. Replays(s, 0)
  BY <1>5 DEF Replays, Worth
<1>10. TellsTheTrades(<<>>, <<>>)
  BY <1>6 DEF TellsTheTrades
<1>11. QED
  BY <1>4, <1>5, <1>6, <1>7, <1>8, <1>9, <1>10 DEF IInv, AccountIsReplay, CurveTellsTheTrades

\* A tick that has the closes, whatever it takes them for.
LEMMA SignalIInv ==
  ASSUME IInv, Fires, NEW signal \in {"buy", "sell", "hold"},
         sess' = applySignal(sess, signal, Last(market'), now')
  PROVE  IInv'
<1>1. TypeOK /\ Alternate(sess.TradeHistory) /\ Replays(sess, Len(sess.TradeHistory))
      /\ TellsTheTrades(sess.EquityCurve, sess.TradeHistory)
  BY DEF IInv, AccountIsReplay, CurveTellsTheTrades
<1>2. /\ market' \in Seq(Level) /\ Len(market') \in FirstBars .. MaxBar
      /\ now \in Nat /\ now' = now + 1 /\ now' \in 0 .. MaxTime
      /\ strategy' = strategy /\ code' = code
  BY <1>1, Fired
<1>3. PICK price \in Level : price = Last(market')
  BY <1>1, Fired
<1>4. PICK t \in Nat : t = now' /\ t = now + 1
  BY <1>2
<1>5. PICK s \in SessionState : s = sess
  BY <1>1 DEF TypeOK
<1>6. PICK q : q = sess'
  OBVIOUS
<1>7. PICK h : h = s.TradeHistory
  OBVIOUS
<1>8. PICK c : c = s.EquityCurve
  OBVIOUS
<1>9. h \in Seq(TradeRecord) /\ c \in Seq(EquityPoint)
  BY <1>7, <1>8 DEF SessionState
<1>10. /\ Alternate(h) /\ Replays(s, Len(h)) /\ TellsTheTrades(c, h)
       /\ Len(c) <= MaxCurve
       /\ \A k \in DOMAIN h : h[k].T \in 1 .. now
       /\ \A i \in DOMAIN c : c[i].T \in 1 .. now
  BY <1>1, <1>5, <1>7, <1>8 DEF TypeOK
<1>11. q = applySignal(s, signal, price, t)
  BY <1>3, <1>4, <1>5, <1>6
<1>12. IF s.Position = "long" THEN s.shares \in Int ELSE s.cash \in Int
  BY <1>7, <1>10, Counted
<1>13. Len(s.EquityCurve) <= MaxCurve
  BY <1>8, <1>10
<1>14. /\ q \in SessionState /\ q.CurrentPrice = price
       /\ \E value \in Int :
            /\ Stepped(s, q, price, t, value)
            /\ q.PnL = value
            /\ q.EquityCurve = KeepNewest(Append(s.EquityCurve, [T |-> t, V |-> value]))
  BY <1>11, <1>12, <1>13, Applied, SMTT(30) DEF Stepped
<1>15. PICK value \in Int :
            /\ Stepped(s, q, price, t, value)
            /\ q.PnL = value
            /\ q.EquityCurve = KeepNewest(Append(s.EquityCurve, [T |-> t, V |-> value]))
  BY <1>14
<1>16. PICK g : g = q.TradeHistory
  OBVIOUS
<1>17. /\ Alternate(g) /\ Replays(q, Len(g)) /\ Goes(h, g, t, value)
  BY <1>7, <1>10, <1>14, <1>15, <1>16, ReplaysOn, SMTT(30) DEF Goes
<1>18. PICK d : d = q.EquityCurve
  OBVIOUS
<1>19. PICK point : point = [T |-> t, V |-> value]
  OBVIOUS
<1>20. point \in EquityPoint /\ point.T = t /\ point.V = value
  BY <1>19 DEF EquityPoint
<1>21. /\ d \in Seq(EquityPoint) /\ Len(d) \in 1 .. MaxCurve /\ d[Len(d)] = point
       /\ \E cut \in {0, 1} : Extends(c, d, cut, point)
  <2>1. d = KeepNewest(Append(c, point))
    BY <1>8, <1>15, <1>18, <1>19
  <2>2. /\ c \in Seq(EquityPoint) /\ Len(c) <= MaxCurve /\ point \in EquityPoint
        /\ d = KeepNewest(Append(c, point))
    BY <1>9, <1>10, <1>20, <2>1
  <2>3. d \in Seq(EquityPoint) /\ \E cut \in {0, 1} : Extends(c, d, cut, point)
    BY <2>2, KeptNewest
  <2>4. QED
    BY <2>3 DEF Extends
<1>22. PICK cut \in {0, 1} : Extends(c, d, cut, point)
  BY <1>21
<1>23. Past(c, t) /\ Past(h, t)
  <2>1. \A u \in 1 .. now : u < t
    BY <1>2, <1>4
  <2>2. QED
    BY <1>10, <2>1 DEF Past
<1>24. Len(g) % 2 = 0 => value = Worth(g, Len(g))
  <2>1. g \in Seq(TradeRecord)
    BY <1>14, <1>16 DEF SessionState
  <2>2. Len(g) \in Nat
    BY <2>1, LenProperties
  <2>3. Len(g) % 2 = 1 => Len(g) % 2 # 0
    BY <2>2, Parity
  <2>4. QED
    BY <1>15, <1>16, <1>17, <2>3 DEF Replays
<1>25. TellsTheTrades(d, g)
  BY <1>9, <1>10, <1>17, <1>19, <1>21, <1>22, <1>23, <1>24, TellsOn
<1>26. \A k \in DOMAIN g : g[k].T \in 1 .. now'
  <2>1. PICK n, m : n = Len(h) /\ m = Len(g)
    OBVIOUS
  <2>2. /\ n \in Nat /\ m \in {n, n + 1} /\ DOMAIN h = 1 .. n /\ DOMAIN g = 1 .. m
        /\ \A k \in 1 .. n : g[k] = h[k]
        /\ m = n + 1 => g[n + 1].T = t
    BY <1>9, <1>17, <2>1, GoesOn DEF Longer
  <2>3. t \in 1 .. now' /\ \A u \in 1 .. now : u \in 1 .. now'
    BY <1>2, <1>4
  <2>4. TAKE k \in DOMAIN g
  <2>5. k \in 1 .. n \/ (k = n + 1 /\ m = n + 1)
    BY <2>2
  <2>6. QED
    BY <1>10, <2>2, <2>3, <2>5
<1>27. \A i \in DOMAIN d : d[i].T \in 1 .. now'
  <2>1. PICK n, m : n = Len(d) /\ m = Len(c)
    OBVIOUS
  <2>2. /\ n \in Nat /\ m \in Nat /\ n = m + 1 - cut
        /\ DOMAIN c = 1 .. m /\ DOMAIN d = 1 .. n
    BY <1>9, <1>21, <1>22, <2>1, LenProperties DEF Extends
  <2>3. d[n] = point /\ \A i \in 1 .. n - 1 : d[i] = c[i + cut]
    BY <1>22, <2>1 DEF Extends
  <2>4. t \in 1 .. now' /\ \A u \in 1 .. now : u \in 1 .. now'
    BY <1>2, <1>4
  <2>5. TAKE i \in DOMAIN d
  <2>6. i = n \/ (i \in 1 .. n - 1 /\ i + cut \in DOMAIN c)
    BY <2>2
  <2>7. QED
    BY <1>10, <1>20, <2>3, <2>4, <2>6
<1>28. TypeOK'
  <2>1. q = sess' /\ g = sess'.TradeHistory /\ d = sess'.EquityCurve
    BY <1>6, <1>16, <1>18
  <2>2. <<strategy', code'>> \in (Builtin \X {""}) \cup ({"custom"} \X Preset)
    BY <1>1, <1>2 DEF TypeOK
  <2>3. Len(d) <= MaxCurve
    BY <1>21, Bounds
  <2>4. QED
    BY <1>2, <1>14, <1>26, <1>27, <2>1, <2>2, <2>3 DEF TypeOK
<1>29. AccountIsReplay'
  BY <1>6, <1>16, <1>17, <1>28 DEF AccountIsReplay
<1>30. CurveTellsTheTrades'
  <2>1. d[Len(d)].V = q.PnL
    BY <1>15, <1>20, <1>21
  <2>2. QED
    BY <1>6, <1>16, <1>18, <1>25, <2>1 DEF CurveTellsTheTrades
<1>31. QED
  BY <1>29, <1>30 DEF IInv

\* A tick that has no answer lets the time pass.
LEMMA FetchFailsIInv == IInv /\ FetchFails => IInv'
<1> SUFFICES ASSUME IInv, FetchFails PROVE IInv'
  OBVIOUS
<1>1. TypeOK /\ sess' = sess /\ Fires
  BY DEF IInv, AccountIsReplay, FetchFails
<1>2. /\ market' \in Seq(Level) /\ Len(market') \in FirstBars .. MaxBar
      /\ now \in Nat /\ now' = now + 1 /\ now' \in 0 .. MaxTime
      /\ strategy' = strategy /\ code' = code
  BY <1>1, Fired
<1>3. \A u \in 1 .. now : u \in 1 .. now'
  BY <1>2
<1>4. TypeOK'
  BY <1>1, <1>2, <1>3 DEF TypeOK
<1>5. QED
  BY <1>1, <1>4 DEF IInv, AccountIsReplay, CurveTellsTheTrades

LEMMA NextIInv == IInv /\ [Next]_vars => IInv'
<1> SUFFICES ASSUME IInv, [Next]_vars PROVE IInv'
  OBVIOUS
<1>1. CASE Tick
  <2>1. PICK signal : /\ signal = computeLiveSignal(Latest(market'))
                      /\ sess' = applySignal(sess, signal, Last(market'), now')
    BY <1>1 DEF Tick
  <2>2. signal \in {"buy", "sell", "hold"}
    BY <2>1, Signals DEF IInv, AccountIsReplay
  <2>3. QED
    BY <1>1, <2>1, <2>2, SignalIInv DEF Tick
<1>2. CASE TickOfFailedProgram
  BY <1>2, SignalIInv DEF TickOfFailedProgram
<1>3. CASE FetchFails
  BY <1>3, FetchFailsIInv
<1>4. CASE UNCHANGED vars
  BY <1>4 DEF vars, IInv, AccountIsReplay, CurveTellsTheTrades, TypeOK
<1>5. QED
  BY <1>1, <1>2, <1>3, <1>4 DEF Next

\* The two properties of a session hold together: that of the curve needs the account's
\* history, of which the last point tells the value.
THEOREM Invariance == Spec => []IInv
<1>1. QED
  BY InitIInv, NextIInv, PTL DEF Spec

\* A session's account is what its own trade history says it must be, after whatever
\* sequence of signals, failed programs and failed fetches.
THEOREM AccountIsReplayHolds == Spec => []AccountIsReplay
<1>1. IInv => AccountIsReplay
  BY DEF IInv
<1>2. QED
  BY <1>1, Invariance, PTL

\* The capped equity curve and the table of trades tell the same story.
THEOREM CurveTellsTheTradesHolds == Spec => []CurveTellsTheTrades
<1>1. IInv => CurveTellsTheTrades
  BY DEF IInv
<1>2. QED
  BY <1>1, Invariance, PTL

(***************************************************************************)
(* Looking ahead.                                                          *)
(***************************************************************************)
LEMMA PricesOf ==
  ASSUME NEW m \in Seq(Level)
  PROVE  /\ Len(Prices(m)) = Len(m) /\ Len(m) \in Nat /\ DOMAIN m = 1 .. Len(m)
         /\ DOMAIN Prices(m) = 1 .. Len(m)
         /\ \A i \in 1 .. Len(m) : Prices(m)[i] = 2 ^ m[i]
<1>1. PICK n : n = Len(m)
  OBVIOUS
<1>2. n \in Nat /\ DOMAIN m = 1 .. n /\ \A i \in 1 .. n : m[i] \in Level
  BY <1>1, LenProperties, ElementOfSeq
<1>3. Prices(m) = [i \in 1 .. n |-> 2 ^ m[i]]
  BY <1>2 DEF Prices
<1>4. Prices(m) \in [1 .. n -> {2 ^ k : k \in Level}]
  BY <1>2, <1>3
<1>5. Len(Prices(m)) = n
  BY <1>2, <1>4, IsASeq, LenProperties
<1>6. QED
  BY <1>1, <1>2, <1>3, <1>5

LEMMA AlikeBefore ==
  ASSUME NEW m \in Seq(Level), NEW n \in Seq(Level), Asked(strategy, code)
  PROVE  TradesAlike(m, Events(strategy, code, Prices(m)),
                     n, Events(strategy, code, Prices(n)))
<1>1. PICK events : events = Events(strategy, code, Prices(m))
  OBVIOUS
<1>2. PICK others : others = Events(strategy, code, Prices(n))
  OBVIOUS
<1>3. /\ Len(Prices(m)) = Len(m) /\ Len(m) \in Nat /\ DOMAIN m = 1 .. Len(m)
      /\ DOMAIN Prices(m) = 1 .. Len(m)
      /\ \A i \in 1 .. Len(m) : Prices(m)[i] = 2 ^ m[i]
  BY PricesOf
<1>4. /\ Len(Prices(n)) = Len(n) /\ Len(n) \in Nat /\ DOMAIN n = 1 .. Len(n)
      /\ DOMAIN Prices(n) = 1 .. Len(n)
      /\ \A i \in 1 .. Len(n) : Prices(n)[i] = 2 ^ n[i]
  BY PricesOf
<1>5. Bounded(events, Len(m)) /\ Bounded(others, Len(n))
  BY <1>1, <1>2, <1>3, <1>4, EventsBounded
<1>6. DOMAIN events = 1 .. Len(events) /\ DOMAIN others = 1 .. Len(others)
  BY <1>5, LenProperties DEF Bounded
<1>7. ASSUME NEW k \in DOMAIN events,
             \A i \in 1 .. events[k].bar : i \in DOMAIN n /\ n[i] = m[i]
      PROVE  k \in DOMAIN others /\ others[k] = events[k]
  <2>1. PICK bar : bar = events[k].bar
    OBVIOUS
  <2>2. bar \in 1 .. Len(m)
    BY <1>5, <1>6, <2>1 DEF Bounded
  <2>3. bar \in 1 .. bar /\ bar \in Nat \ {0} /\ \A i \in 1 .. bar : i \in 1 .. Len(m)
    BY <1>3, <2>2
  <2>4. \A i \in 1 .. bar : i \in 1 .. Len(n) /\ n[i] = m[i]
    BY <1>4, <1>7, <2>1
  <2>5. bar <= Len(m) /\ bar <= Len(n)
    BY <2>2, <2>3, <2>4
  <2>6. \A i \in 1 .. bar : Prices(m)[i] = Prices(n)[i]
    BY <1>3, <1>4, <2>3, <2>4
  <2>7. Twins(bar, Prices(m), Prices(n))
    BY <1>3, <1>4, <2>3, <2>5, <2>6 DEF Twins, Series
  <2>8. AgreeUpTo(bar, events, others)
    BY <1>1, <1>2, <2>7, EventsAgree
  <2>9. QED
    BY <1>6, <2>1, <2>3, <2>8 DEF AgreeUpTo
<1>8. TradesAlike(m, events, n, others)
  BY <1>7 DEF TradesAlike
<1>9. QED
  BY <1>1, <1>2, <1>8

\* The next closes may differ from these in every bar and in their number: wherever the two
\* agree, the trades of a backtest do.
THEOREM NoLookaheadHolds == Spec => NoLookahead
<1> DEFINE Step ==
      market' # market =>
        \A before \in {Events(strategy, code, Prices(market))} :
        \A after \in {Events(strategy, code, Prices(market'))} :
          /\ TradesAlike(market, before, market', after)
          /\ TradesAlike(market', after, market, before)
<1>1. TypeOK /\ TypeOK' => Step
  <2> SUFFICES ASSUME TypeOK, TypeOK' PROVE Step
    OBVIOUS
  <2>1. market \in Seq(Level) /\ market' \in Seq(Level)
    BY DEF TypeOK
  <2>2. Asked(strategy, code)
    BY DEF TypeOK, Asked, Builtin
  <2>3. TradesAlike(market, Events(strategy, code, Prices(market)),
                    market', Events(strategy, code, Prices(market')))
    BY <2>1, <2>2, AlikeBefore
  <2>4. TradesAlike(market', Events(strategy, code, Prices(market')),
                    market, Events(strategy, code, Prices(market)))
    BY <2>1, <2>2, AlikeBefore
  <2>5. QED
    BY <2>3, <2>4
<1>2. IInv => TypeOK
  BY DEF IInv, AccountIsReplay
<1>3. TypeOK /\ TypeOK' => [Step]_vars
  BY <1>1
<1> HIDE DEF Step
<1>4. Spec => [][Step]_vars
  BY <1>2, <1>3, Invariance, PTL
<1>5. QED
  BY <1>4 DEF NoLookahead, Step

(***************************************************************************)
(* A live signal and the backtest over the same closes.  The backtest goes *)
(* where the signal leads it, and what it trades on the newest bar is      *)
(* announced by the signal.                                                *)
(***************************************************************************)
Leads(signal, events) ==
  events # <<>> /\ signal # "hold" => (signal = "buy" <=> Held(events))

Announces(signal, events, n) ==
  events # <<>> /\ Last(events).bar = n => signal = Last(events).kind

LEMMA LatestOf ==
  ASSUME NEW m \in Seq(Level), Len(m) \in Nat \ {0}
  PROVE  PriceSeries(Latest(m))
<1>1. PICK n : n = Len(m)
  OBVIOUS
<1>2. n \in Nat \ {0} /\ Window \in Nat \ {0}
  BY <1>1, LiveStrategyAssumption
<1>3. PICK first : first = IF n > Window THEN n - Window + 1 ELSE 1
  OBVIOUS
<1>4. PICK k : k = n - first + 1
  OBVIOUS
<1>5. k \in Nat \ {0} /\ \A i \in 1 .. k : first + i - 1 \in 1 .. n
  <2>1. first \in 1 .. n
    BY <1>2, <1>3
  <2>2. QED
    BY <1>2, <1>4, <2>1
<1>6. Latest(m) = [i \in 1 .. k |-> 2 ^ m[first + i - 1]]
  BY <1>1, <1>3, <1>4 DEF Latest
<1>7. \A i \in 1 .. n : m[i] \in Level
  BY <1>1, <1>2, ElementOfSeq
<1>8. \A i \in 1 .. k : Latest(m)[i] \in Nat \ {0}
  BY <1>5, <1>6, <1>7, LiveStrategyAssumption
<1>9. Latest(m) \in [1 .. k -> Nat \ {0}]
  BY <1>6, <1>8
<1>10. Latest(m) \in Seq(Nat \ {0}) /\ Len(Latest(m)) = k
  BY <1>5, <1>9, IsASeq, LenProperties
<1>11. QED
  BY <1>5, <1>6, <1>8, <1>10 DEF PriceSeries

LEMMA CrossoverFollows ==
  ASSUME NEW c, PriceSeries(c), NEW useEMA
  PROVE  /\ Leads(liveSignalCrossover(c, useEMA), runCrossover(c, useEMA))
         /\ Announces(liveSignalCrossover(c, useEMA), runCrossover(c, useEMA), Len(c))
<1> DEFINE Above(i) == Less(Averages(c, Slow, useEMA)[i], Averages(c, Fast, useEMA)[i])
           buys == {i \in Slow + 2 .. Len(c) : ~Above(i - 1) /\ Above(i)}
           sells == {i \in Slow + 2 .. Len(c) : Above(i - 1) /\ ~Above(i)}
<1>1. PICK n : n = Len(c)
  OBVIOUS
<1>2. n \in Nat /\ Slow \in Nat
  BY <1>1, Parameters DEF PriceSeries
<1>3. PICK events : events = runCrossover(c, useEMA)
  OBVIOUS
<1>4. PICK signal : signal = liveSignalCrossover(c, useEMA)
  OBVIOUS
<1>5. events = TradeSignals(n, buys, sells)
  BY <1>1, <1>3 DEF runCrossover
<1>6. signal = IF n < Slow + 1 THEN "hold" ELSE IF Above(n) THEN "buy" ELSE "sell"
  BY <1>1, <1>4 DEF liveSignalCrossover
<1>7. (\A i \in buys : Above(i)) /\ (\A i \in sells : ~Above(i))
  OBVIOUS
<1>8. events # <<>> => n >= Slow + 2 /\ (Held(events) <=> Above(n))
  BY <1>1, <1>3, CrossoverHolds
<1> HIDE DEF Above, buys, sells
<1>9. events # <<>> => ~(n < Slow + 1)
  BY <1>2, <1>8
<1>10. Leads(signal, events)
  BY <1>6, <1>8, <1>9 DEF Leads
<1>11. Announces(signal, events, n)
  <2> SUFFICES ASSUME events # <<>>, Last(events).bar = n PROVE signal = Last(events).kind
    BY DEF Announces
  <2>1. \/ Last(events).kind = "buy" /\ n \in buys
        \/ Last(events).kind = "sell" /\ n \in sells
    BY <1>2, <1>5, TradedNow
  <2>2. QED
    BY <1>6, <1>7, <1>9, <2>1
<1>12. QED
  BY <1>1, <1>3, <1>4, <1>10, <1>11

\* The newest of some bars.
LEMMA Newest ==
  ASSUME NEW n \in Nat, NEW s \in SUBSET (1 .. n), s # {}
  PROVE  \E i \in s : \A j \in s : j <= i
<1> DEFINE T == {n - i : i \in s}
<1>1. T \in SUBSET Nat /\ T # {}
  <2>1. PICK i : i \in s
    OBVIOUS
  <2>2. n - i \in T
    BY <2>1
  <2>3. \A j \in s : n - j \in Nat
    OBVIOUS
  <2>4. QED
    BY <2>2, <2>3
<1>2. PICK k \in T : \A m \in T : k <= m
  BY <1>1, LeastNatural
<1>3. PICK i \in s : k = n - i
  BY <1>2
<1>4. \A j \in s : n - i <= n - j
  BY <1>2, <1>3
<1>5. QED
  BY <1>3, <1>4

LEMMA RSIFollows ==
  ASSUME NEW c, PriceSeries(c)
  PROVE  /\ Leads(liveSignalRSI(c), runRSI(c))
         /\ Announces(liveSignalRSI(c), runRSI(c), Len(c))
<1> DEFINE rsi == computeRSI(c, Period)
           None(i) == Equal(rsi[i], Zero)
           Low(i) == Less(rsi[i], <<Oversold, 1>>)
           High(i) == Less(<<Overbought, 1>>, rsi[i])
           valued == {i \in DOMAIN c : ~None(i)}
           buys == {i \in Period + 2 .. Len(c) : ~None(i) /\ Low(i)}
           sells == {i \in Period + 2 .. Len(c) : High(i)}
<1>1. PICK n : n = Len(c)
  OBVIOUS
<1>2. n \in Nat /\ Period \in Nat \ {0} /\ DOMAIN c = 1 .. n
  BY <1>1, Parameters DEF PriceSeries
<1>3. PICK events : events = runRSI(c)
  OBVIOUS
<1>4. PICK signal : signal = liveSignalRSI(c)
  OBVIOUS
<1>5. \A i \in 1 .. n : /\ ~(Low(i) /\ High(i)) /\ (None(i) => ~High(i))
                        /\ i <= Period => None(i)
  BY <1>1, Limits
<1>6. events = TradeSignals(n, buys, sells)
  BY <1>1, <1>3 DEF runRSI
<1>7. signal = IF valued = {} THEN "hold"
               ELSE IF Low(CHOOSE i \in valued : \A j \in valued : j <= i) THEN "buy"
               ELSE IF High(CHOOSE i \in valued : \A j \in valued : j <= i) THEN "sell"
               ELSE "hold"
  BY <1>4 DEF liveSignalRSI
<1>8. \A i \in 1 .. n : i \in valued <=> ~None(i)
  BY <1>2
<1>9. \A i : i \in buys <=> i \in Period + 2 .. n /\ ~None(i) /\ Low(i)
  BY <1>1
<1>10. \A i : i \in sells <=> i \in Period + 2 .. n /\ High(i)
  BY <1>1
<1>11. valued \in SUBSET (1 .. n)
  BY <1>2
<1> HIDE DEF None, Low, High, valued, buys, sells
<1>12. \A i \in 1 .. n : i \in buys \/ i \in sells => i \in valued
  BY <1>5, <1>8, <1>9, <1>10
<1>13. CASE valued = {}
  <2>1. events = <<>>
    BY <1>2, <1>6, <1>12, <1>13, NoTrades
  <2>2. QED
    BY <1>3, <1>4, <2>1 DEF Leads, Announces
<1>14. CASE valued # {}
  <2>1. PICK v : v = CHOOSE i \in valued : \A j \in valued : j <= i
    OBVIOUS
  <2>2. \E i \in valued : \A j \in valued : j <= i
    BY <1>2, <1>11, <1>14, Newest
  <2>3. v \in valued /\ \A j \in valued : j <= v
    BY <2>1, <2>2
  <2>4. v \in 1 .. n /\ ~None(v)
    BY <1>8, <1>11, <2>3
  <2>5. signal = IF Low(v) THEN "buy" ELSE IF High(v) THEN "sell" ELSE "hold"
    BY <1>7, <1>14, <2>1
  <2>6. \A j \in 1 .. n : j > v => j \notin buys /\ j \notin sells
    BY <1>2, <1>12, <2>3, <2>4
  <2>7. v > Period
    BY <1>2, <1>5, <2>4
  <2>8. CASE v = Period + 1
    <3>1. \A j \in 1 .. n : j \notin buys
      BY <1>2, <1>9, <2>6, <2>8
    <3>2. events = <<>>
      BY <1>2, <1>6, <3>1, NoTrades
    <3>3. QED
      BY <1>3, <1>4, <3>2 DEF Leads, Announces
  <2>9. CASE v # Period + 1
    <3>1. v \in Period + 2 .. n
      BY <1>2, <2>4, <2>7, <2>9
    <3>2. \A j \in v .. n : j = v \/ (j \in 1 .. n /\ j > v)
      BY <1>2, <2>4
    <3>3. signal = "buy" => Held(events)
      <4> SUFFICES ASSUME signal = "buy" PROVE Held(events)
        OBVIOUS
      <4>1. Low(v) /\ ~High(v)
        BY <1>5, <2>4, <2>5
      <4>2. v \in buys /\ v \notin sells
        BY <1>9, <1>10, <2>4, <3>1, <4>1
      <4>3. \A j \in v .. n : j \notin sells
        BY <2>6, <3>2, <4>2
      <4>4. QED
        BY <1>2, <1>6, <2>4, <4>2, <4>3, HeldFrom
    <3>4. signal = "sell" => ~Held(events)
      <4> SUFFICES ASSUME signal = "sell" PROVE ~Held(events)
        OBVIOUS
      <4>1. ~Low(v) /\ High(v)
        BY <2>5
      <4>2. v \in sells /\ v \notin buys
        BY <1>9, <1>10, <2>4, <3>1, <4>1
      <4>3. \A j \in v .. n : j \notin buys
        BY <2>6, <3>2, <4>2
      <4>4. QED
        BY <1>2, <1>6, <2>4, <4>2, <4>3, FlatFrom
    <3>5. ASSUME events # <<>>, Last(events).bar = n PROVE signal = Last(events).kind
      <4>1. \/ Last(events).kind = "buy" /\ n \in buys
            \/ Last(events).kind = "sell" /\ n \in sells
        BY <1>2, <1>6, <3>5, TradedNow
      <4>2. n = v
        BY <1>2, <2>4, <2>6, <4>1
      <4>3. QED
        BY <1>5, <1>9, <1>10, <2>4, <2>5, <4>1, <4>2
    <3>6. Leads(signal, events) /\ Announces(signal, events, n)
      BY <2>5, <3>3, <3>4, <3>5 DEF Leads, Announces
    <3>7. QED
      BY <1>1, <1>3, <1>4, <3>6
  <2>10. QED
    BY <2>8, <2>9
<1>15. QED
  BY <1>13, <1>14

\* A lower band of exactly 0 is no band to the backtest alone, which then does not sell.
LEMMA BollingerFollows ==
  ASSUME NEW c, PriceSeries(c)
  PROVE  /\ (liveSignalBollinger(c) = "sell" => ~LowerIsZero(BandOfLast(c)))
              => Leads(liveSignalBollinger(c), runBollinger(c))
         /\ Announces(liveSignalBollinger(c), runBollinger(c), Len(c))
<1> DEFINE band == computeBollinger(c, BandPeriod, StdDevs)
           Low(i) == BelowLower(c[i], band[i], BandPeriod)
           High(i) == AboveMiddle(c[i], band[i], BandPeriod)
           bars == {i \in BandPeriod + 1 .. Len(c) : ~LowerIsZero(band[i])}
           buys == {i \in bars : Low(i)}
           sells == {i \in bars : High(i)}
<1>1. PICK n : n = Len(c)
  OBVIOUS
<1>2. n \in Nat \ {0} /\ BandPeriod \in Nat \ {0} /\ DOMAIN c = 1 .. n
  BY <1>1, Parameters DEF PriceSeries
<1>3. PICK events : events = runBollinger(c)
  OBVIOUS
<1>4. PICK signal : signal = liveSignalBollinger(c)
  OBVIOUS
<1>5. events = TradeSignals(n, buys, sells)
  BY <1>1, <1>3 DEF runBollinger
<1>6. signal = IF LowerIsPositive(band[n]) /\ Low(n) THEN "buy"
               ELSE IF UpperIsPositive(band[n]) /\ High(n) THEN "sell" ELSE "hold"
  BY <1>1, <1>4 DEF liveSignalBollinger, BandOfLast
<1>7. \A i : i \in buys <=> i \in BandPeriod + 1 .. n /\ ~LowerIsZero(band[i]) /\ Low(i)
  BY <1>1
<1>8. \A i : i \in sells <=> i \in BandPeriod + 1 .. n /\ ~LowerIsZero(band[i]) /\ High(i)
  BY <1>1
<1>9. BandOfLast(c) = band[n]
  BY <1>1 DEF BandOfLast
<1>10. n \in Nat /\ n \in 1 .. n
  BY <1>2
<1>11. CASE n < BandPeriod + 1
  <2>1. \A i \in 1 .. n : i \notin buys
    BY <1>2, <1>7, <1>11
  <2> HIDE DEF buys, sells
  <2>2. events = <<>>
    BY <1>5, <1>10, <2>1, NoTrades
  <2>3. QED
    BY <1>3, <1>4, <2>2 DEF Leads, Announces
<1>12. CASE ~(n < BandPeriod + 1)
  <2>1. n \in BandPeriod .. n /\ n \in BandPeriod + 1 .. n /\ StdDevs \in Nat
    BY <1>2, <1>12, BacktestAssumption
  <2>2. PICK mid, spread, scaled : mid = band[n].mid /\ spread = band[n].spread
                                   /\ scaled = BandPeriod * c[n]
    OBVIOUS
  <2>3. mid \in Nat \ {0} /\ spread \in Int
    BY <1>1, <1>2, <2>1, <2>2, BandType
  <2>4. scaled \in Nat \ {0}
    <3>1. c[n] \in Nat \ {0}
      BY <1>1, <1>10 DEF PriceSeries
    <3>2. QED
      BY <1>2, <2>2, <3>1, Products
  <2>5. Low(n) <=> scaled < mid /\ Squared(mid - scaled) > spread
    BY <2>2 DEF BelowLower
  <2>6. High(n) <=> scaled > mid
    BY <2>2 DEF AboveMiddle
  <2>7. Low(n) => LowerIsPositive(band[n]) /\ ~LowerIsZero(band[n]) /\ ~High(n)
    <3>1. Low(n) => Squared(mid) > spread
      BY <2>3, <2>4, <2>5, Below
    <3>2. Squared(mid) \in Int
      BY <2>3 DEF Squared
    <3>3. QED
      BY <2>2, <2>3, <2>4, <2>5, <2>6, <3>1, <3>2 DEF LowerIsPositive, LowerIsZero
  <2>8. UpperIsPositive(band[n])
    BY <2>2, <2>3 DEF UpperIsPositive
  <2>9. signal = IF Low(n) THEN "buy" ELSE IF High(n) THEN "sell" ELSE "hold"
    BY <1>6, <2>7, <2>8
  <2> HIDE DEF Low, High, buys, sells
  <2>10. \A j \in n .. n : j = n
    BY <1>10
  <2>11. signal = "buy" => Held(events)
    <3>1. signal = "buy" => n \in buys /\ \A j \in n .. n : j \notin sells
      BY <1>7, <1>8, <2>1, <2>7, <2>9, <2>10
    <3>2. QED
      BY <1>5, <1>10, <3>1, HeldFrom
  <2>12. signal = "sell" /\ ~LowerIsZero(band[n]) => ~Held(events)
    <3>1. signal = "sell" /\ ~LowerIsZero(band[n])
            => n \in sells /\ \A j \in n .. n : j \notin buys
      BY <1>7, <1>8, <2>1, <2>9, <2>10
    <3>2. QED
      BY <1>5, <1>10, <3>1, FlatFrom
  <2>13. ASSUME events # <<>>, Last(events).bar = n PROVE signal = Last(events).kind
    <3>1. \/ Last(events).kind = "buy" /\ n \in buys
          \/ Last(events).kind = "sell" /\ n \in sells
      BY <1>5, <1>10, <2>13, TradedNow
    <3>2. QED
      BY <1>7, <1>8, <2>7, <2>9, <3>1
  <2>14. Announces(signal, events, n)
    BY <2>13 DEF Announces
  <2>15. (signal = "sell" => ~LowerIsZero(band[n])) => Leads(signal, events)
    BY <2>9, <2>11, <2>12 DEF Leads
  <2>16. QED
    BY <1>1, <1>3, <1>4, <1>9, <2>14, <2>15
<1>13. QED
  BY <1>11, <1>12

LEMMA BreakoutFollows ==
  ASSUME NEW c, PriceSeries(c), runBreakout(c) # <<>>, Last(runBreakout(c)).bar = Len(c),
         Held(runBreakout(c))
  PROVE  liveSignalBreakout(c) = "buy"
<1> DEFINE bars == Lookback + 1 .. Len(c)
           buys == {i \in bars : BreaksOut(c, i)}
           sells == [entry \in 1 .. Len(c) |-> {i \in bars : HeldLong(i, entry)}]
<1>1. PICK n : n = Len(c)
  OBVIOUS
<1>2. n \in Nat /\ Lookback \in Nat
  BY <1>1, Parameters DEF PriceSeries
<1>3. PICK events : events = runBreakout(c)
  OBVIOUS
<1>4. events = Trade(n, buys, sells)
  BY <1>1, <1>3 DEF runBreakout
<1>5. n \in buys => n >= Lookback + 1 /\ BreaksOut(c, n)
  BY <1>1, <1>2
<1> HIDE DEF buys, sells
<1>6. events \in Seq(TradeRec) /\ TakesTurns(events, buys, sells)
  BY <1>2, <1>4, TradeBounded, TradeTakesTurns DEF Bounded
<1>7. events # <<>> /\ Last(events).bar = n /\ Last(events).kind = "buy"
  BY <1>1, <1>3 DEF Held
<1>8. n \in buys
  BY <1>6, <1>7, LastTrade
<1>9. QED
  BY <1>1, <1>5, <1>8 DEF liveSignalBreakout

\* A signal to buy leaves the session long, one to sell leaves it flat.
Fields == {"Position", "EntryPrice", "cash", "shares", "CurrentPrice", "PnL", "Trades", "Signal",
           "TradeHistory", "EquityCurve"}

LEMMA FieldsOf ==
  ASSUME NEW s \in SessionState
  PROVE  DOMAIN s = Fields
BY DEF SessionState, Fields

LEMMA RecordKeeps ==
  ASSUME NEW r, DOMAIN r = Fields, NEW t, NEW kind
  PROVE  /\ DOMAIN Record(r, t, kind) = Fields
         /\ Record(r, t, kind).Signal = r.Signal
         /\ Record(r, t, kind).Position = r.Position
         /\ \E trade : /\ Record(r, t, kind).TradeHistory = Append(r.TradeHistory, trade)
                       /\ trade.Kind = kind
<1> DEFINE trade == [T |-> t, Kind |-> kind, Price |-> r.CurrentPrice, PnL |-> totalValue(r)]
<1>1. trade.Kind = kind
  OBVIOUS
<1>2. Record(r, t, kind) = [r EXCEPT !.Trades = r.Trades + 1,
                                     !.TradeHistory = Append(r.TradeHistory, trade)]
  BY DEF Record
<1> HIDE DEF trade
<1>3. QED
  BY <1>1, <1>2 DEF Fields

LEMMA MarkKeeps ==
  ASSUME NEW r, DOMAIN r = Fields, NEW t
  PROVE  /\ Mark(r, t).Signal = r.Signal /\ Mark(r, t).Position = r.Position
         /\ Mark(r, t).TradeHistory = r.TradeHistory
BY DEF Mark, Fields

LEMMA Obeyed ==
  ASSUME NEW s \in SessionState, NEW signal \in {"buy", "sell", "hold"}, NEW price \in Level,
         NEW t, NEW q, q = applySignal(s, signal, price, t)
  PROVE  /\ q.Signal = signal
         /\ signal = "buy" => q.Position = "long"
         /\ signal = "sell" => q.Position = "flat"
         /\ signal # "sell"
              => \/ q.TradeHistory = s.TradeHistory
                 \/ \E trade : /\ q.TradeHistory = Append(s.TradeHistory, trade)
                               /\ trade.Kind = "buy"
<1>1. PICK seen : seen = [s EXCEPT !.CurrentPrice = price, !.Signal = signal]
  OBVIOUS
<1>2. DOMAIN s = Fields /\ s.Position \in {"flat", "long"}
  BY FieldsOf DEF SessionState
<1>3. /\ DOMAIN seen = Fields /\ seen.Signal = signal /\ seen.Position = s.Position
      /\ seen.TradeHistory = s.TradeHistory
  BY <1>1, <1>2 DEF Fields
<1>4. q = Mark(IF signal = "buy" /\ s.Position = "flat" THEN Buy(seen, t)
               ELSE IF signal = "sell" /\ s.Position = "long" THEN Sell(seen, t)
               ELSE seen, t)
  BY <1>1 DEF applySignal
<1>5. CASE signal = "buy" /\ s.Position = "flat"
  <2>1. PICK x : x = [seen EXCEPT !.Position = "long", !.EntryPrice = seen.CurrentPrice,
                                  !.shares = seen.cash - seen.CurrentPrice, !.cash = Nothing]
    OBVIOUS
  <2>2. /\ DOMAIN x = Fields /\ x.Signal = signal /\ x.Position = "long"
        /\ x.TradeHistory = s.TradeHistory
    BY <1>3, <2>1 DEF Fields
  <2>3. q = Mark(Record(x, t, "buy"), t)
    BY <1>4, <1>5, <2>1 DEF Buy
  <2>4. PICK y : y = Record(x, t, "buy")
    OBVIOUS
  <2>5. /\ DOMAIN y = Fields /\ y.Signal = signal /\ y.Position = "long"
        /\ \E trade : y.TradeHistory = Append(s.TradeHistory, trade) /\ trade.Kind = "buy"
    BY <2>2, <2>4, RecordKeeps
  <2>6. /\ q.Signal = y.Signal /\ q.Position = y.Position /\ q.TradeHistory = y.TradeHistory
    BY <2>3, <2>4, <2>5, MarkKeeps
  <2>7. QED
    BY <1>5, <2>5, <2>6
<1>6. CASE signal = "sell" /\ s.Position = "long"
  <2>1. PICK x : x = [seen EXCEPT !.cash = seen.shares + seen.CurrentPrice,
                                  !.shares = Nothing, !.Position = "flat"]
    OBVIOUS
  <2>2. DOMAIN x = Fields /\ x.Signal = signal /\ x.Position = "flat"
    BY <1>3, <2>1 DEF Fields
  <2>3. q = Mark(Record(x, t, "sell"), t)
    BY <1>4, <1>6, <2>1 DEF Sell
  <2>4. PICK y : y = Record(x, t, "sell")
    OBVIOUS
  <2>5. DOMAIN y = Fields /\ y.Signal = signal /\ y.Position = "flat"
    BY <2>2, <2>4, RecordKeeps
  <2>6. q.Signal = y.Signal /\ q.Position = y.Position
    BY <2>3, <2>4, <2>5, MarkKeeps
  <2>7. QED
    BY <1>6, <2>5, <2>6
<1>7. CASE ~(signal = "buy" /\ s.Position = "flat") /\ ~(signal = "sell" /\ s.Position = "long")
  <2>1. q = Mark(seen, t)
    BY <1>4, <1>7
  <2>2. /\ q.Signal = seen.Signal /\ q.Position = seen.Position
        /\ q.TradeHistory = seen.TradeHistory
    BY <1>3, <2>1, MarkKeeps
  <2>3. QED
    BY <1>2, <1>3, <1>7, <2>2
<1>8. QED
  BY <1>5, <1>6, <1>7

(***************************************************************************)
(* A tick applies the signal of the closes it has read.                    *)
(***************************************************************************)

\* A tick with its signal: that of the closes, or to hold.
LEMMA Ticks ==
  ASSUME IInv, Next, sess' # sess
  PROVE  /\ Fires
         /\ \E signal \in {"buy", "sell", "hold"} :
              /\ \/ signal = computeLiveSignal(Latest(market'))
                 \/ strategy = "custom" /\ signal = "hold"
              /\ sess' = applySignal(sess, signal, Last(market'), now')
<1>1. CASE Tick
  <2>1. computeLiveSignal(Latest(market')) \in {"buy", "sell", "hold"}
    BY Signals DEF IInv, AccountIsReplay
  <2>2. QED
    BY <1>1, <2>1 DEF Tick
<1>2. CASE TickOfFailedProgram
  BY <1>2 DEF TickOfFailedProgram
<1>3. CASE FetchFails
  BY <1>3 DEF FetchFails
<1>4. QED
  BY <1>1, <1>2, <1>3 DEF Next

\* The step of the property for the strategies that ask nothing but the closes.
LEMMA SignalFollows ==
  ASSUME NEW c, PriceSeries(c), strategy \in Builtin \ {"breakout"},
         NEW events, events = Events(strategy, code, c),
         NEW signal, signal = computeLiveSignal(c)
  PROVE  /\ \/ strategy = "bollinger_bands" /\ signal = "sell" /\ LowerIsZero(BandOfLast(c))
            \/ Leads(signal, events)
         /\ Announces(signal, events, Len(c))
<1>1. CASE strategy = "sma_crossover"
  <2>1. \A u : /\ Leads(liveSignalCrossover(c, u), runCrossover(c, u))
               /\ Announces(liveSignalCrossover(c, u), runCrossover(c, u), Len(c))
    BY CrossoverFollows
  <2>2. /\ events = runCrossover(c, FALSE) /\ signal = liveSignalCrossover(c, FALSE)
    BY <1>1 DEF Events, computeLiveSignal
  <2>3. /\ Leads(liveSignalCrossover(c, FALSE), runCrossover(c, FALSE))
        /\ Announces(liveSignalCrossover(c, FALSE), runCrossover(c, FALSE), Len(c))
    BY <2>1, Zenon
  <2>4. QED
    BY <2>2, <2>3
<1>2. CASE strategy = "ema_crossover"
  <2>1. \A u : /\ Leads(liveSignalCrossover(c, u), runCrossover(c, u))
               /\ Announces(liveSignalCrossover(c, u), runCrossover(c, u), Len(c))
    BY CrossoverFollows
  <2>2. /\ events = runCrossover(c, TRUE) /\ signal = liveSignalCrossover(c, TRUE)
    BY <1>2 DEF Events, computeLiveSignal
  <2>3. /\ Leads(liveSignalCrossover(c, TRUE), runCrossover(c, TRUE))
        /\ Announces(liveSignalCrossover(c, TRUE), runCrossover(c, TRUE), Len(c))
    BY <2>1, Zenon
  <2>4. QED
    BY <2>2, <2>3
<1>3. CASE strategy = "rsi_mean_reversion"
  <2>1. events = runRSI(c) /\ signal = liveSignalRSI(c)
    BY <1>3 DEF Events, computeLiveSignal
  <2>2. QED
    BY <2>1, RSIFollows
<1>4. CASE strategy = "bollinger_bands"
  <2>1. events = runBollinger(c) /\ signal = liveSignalBollinger(c)
    BY <1>4 DEF Events, computeLiveSignal
  <2>2. QED
    BY <1>4, <2>1, BollingerFollows
<1>5. QED
  BY <1>1, <1>2, <1>3, <1>4 DEF Builtin

\* A session follows the backtest over the closes it sees, whatever market and session are
\* like, a breakout into the position only.
THEOREM LiveFollowsBacktestHolds == Spec => LiveFollowsBacktest
<1> DEFINE Step(closes, events, signal) ==
      LET tradesNow == events # <<>> /\ Last(events).bar = Len(closes)
      IN  IF strategy = "breakout"
          THEN tradesNow /\ Held(events) => signal = "buy"
          ELSE /\ /\ events # <<>> /\ signal # "hold"
                  /\ strategy = "bollinger_bands" /\ signal = "sell"
                       => ~LowerIsZero(BandOfLast(closes))
                  /\ strategy = "rsi_mean_reversion" => ~RSIIsZero(closes)
                  => (sess'.Position = "long") = Held(events)
               /\ strategy \in Builtin /\ tradesNow => signal = Last(events).kind
           Action ==
      sess' # sess =>
        Step(Latest(market'), Events(strategy, code, Latest(market')), sess'.Signal)
<1>1. IInv /\ [Next]_vars => Action
  <2> SUFFICES ASSUME IInv, Next, sess' # sess
               PROVE  Step(Latest(market'), Events(strategy, code, Latest(market')),
                           sess'.Signal)
    BY DEF vars
  <2>1. TypeOK /\ sess \in SessionState
    BY DEF IInv, AccountIsReplay, TypeOK
  <2>2. Fires
    BY Ticks
  <2>3. PICK signal \in {"buy", "sell", "hold"} :
          /\ \/ signal = computeLiveSignal(Latest(market'))
             \/ strategy = "custom" /\ signal = "hold"
          /\ sess' = applySignal(sess, signal, Last(market'), now')
    BY Ticks
  <2>4. /\ market' \in Seq(Level) /\ Len(market') \in FirstBars .. MaxBar
        /\ Last(market') \in Level /\ strategy' = strategy
    BY <2>1, <2>2, Fired
  <2>5. Len(market') \in Nat \ {0}
    BY <2>4, Bounds
  <2>6. PICK c : c = Latest(market') /\ PriceSeries(c)
    BY <2>4, <2>5, LatestOf
  <2>7. PICK events : events = Events(strategy, code, c)
    OBVIOUS
  <2>8. /\ sess'.Signal = signal
        /\ signal = "buy" => sess'.Position = "long"
        /\ signal = "sell" => sess'.Position = "flat"
    BY <2>1, <2>3, <2>4, Obeyed
  <2>9. CASE strategy = "breakout"
    <3>1. events = runBreakout(c)
      BY <2>7, <2>9 DEF Events
    <3>2. signal = liveSignalBreakout(c)
      BY <2>3, <2>6, <2>9 DEF computeLiveSignal
    <3>3. events # <<>> /\ Last(events).bar = Len(c) /\ Held(events) => signal = "buy"
      BY <2>6, <3>1, <3>2, BreakoutFollows
    <3>4. QED
      BY <2>6, <2>7, <2>8, <2>9, <3>3
  <2>10. CASE strategy \in Builtin \ {"breakout"}
    <3>1. signal = computeLiveSignal(c)
      BY <2>3, <2>6, <2>10 DEF Builtin
    <3>2. /\ \/ strategy = "bollinger_bands" /\ signal = "sell" /\ LowerIsZero(BandOfLast(c))
             \/ Leads(signal, events)
          /\ Announces(signal, events, Len(c))
      BY <2>6, <2>7, <2>10, <3>1, SignalFollows
    <3>3. events # <<>> /\ Last(events).bar = Len(c) => signal = Last(events).kind
      BY <3>2 DEF Announces
    <3>4. \/ strategy = "bollinger_bands" /\ signal = "sell" /\ LowerIsZero(BandOfLast(c))
          \/ events # <<>> /\ signal # "hold" => (signal = "buy" <=> Held(events))
      BY <3>2 DEF Leads
    <3>5. Held(events) \in BOOLEAN
      BY DEF Held
    <3>6. (sess'.Position = "long") = (signal = "buy") \/ signal = "hold"
      BY <2>8
    <3>7. /\ events # <<>> /\ signal # "hold"
          /\ strategy = "bollinger_bands" /\ signal = "sell" => ~LowerIsZero(BandOfLast(c))
          /\ strategy = "rsi_mean_reversion" => ~RSIIsZero(c)
          => (sess'.Position = "long") = Held(events)
      BY <3>4, <3>5, <3>6
    <3>8. QED
      BY <2>6, <2>7, <2>8, <2>10, <3>3, <3>7
  <2>11. CASE strategy = "custom"
    <3>1. events = harness(code, c)
      BY <2>7, <2>11 DEF Events
    <3>2. signal = "hold" \/ signal = IF Held(events) THEN "buy" ELSE "sell"
      BY <2>3, <2>6, <2>11, <3>1 DEF computeLiveSignal, computeCustomLiveSignal
    <3>3. Held(events) \in BOOLEAN
      BY DEF Held
    <3>4. signal # "hold" => (sess'.Position = "long") = Held(events)
      BY <2>8, <3>2, <3>3
    <3>5. strategy \notin Builtin
      BY <2>11 DEF Builtin
    <3>6. QED
      BY <2>6, <2>7, <2>8, <2>11, <3>4, <3>5
  <2>12. QED
    BY <2>1, <2>9, <2>10, <2>11 DEF TypeOK
<1>2. IInv /\ [Next]_vars => [Action]_vars
  BY <1>1
<1> HIDE DEF Action
<1>3. Spec => [][Action]_vars
  BY <1>2, Invariance, PTL DEF Spec
<1>4. QED
  BY <1>3 DEF LiveFollowsBacktest, Action

(***************************************************************************)
(* The programs of the page and the strategies of the code.                *)
(***************************************************************************)
LEMMA MarketPrices ==
  ASSUME TypeOK
  PROVE  PriceSeries(Prices(market)) /\ Len(Prices(market)) = Len(market)
<1>1. market \in Seq(Level) /\ Len(market) \in FirstBars .. MaxBar
  BY DEF TypeOK
<1>2. Len(market) \in Nat \ {0}
  BY <1>1, Bounds
<1>3. /\ Len(Prices(market)) = Len(market) /\ DOMAIN Prices(market) = 1 .. Len(market)
      /\ \A i \in 1 .. Len(market) : Prices(market)[i] = 2 ^ market[i]
  BY <1>1, PricesOf
<1>4. \A i \in 1 .. Len(market) : market[i] \in Level
  BY <1>1, ElementOfSeq
<1>5. \A i \in 1 .. Len(market) : Prices(market)[i] \in Nat \ {0}
  BY <1>3, <1>4, LiveStrategyAssumption
<1>6. QED
  BY <1>2, <1>3, <1>5 DEF PriceSeries

LEMMA ProgramsAgree ==
  ASSUME TypeOK
  PROVE  PresetsAgree
<1> SUFFICES ASSUME strategy = "custom" PROVE PresetsAgree
  BY DEF PresetsAgree
<1>1. PICK c : c = Prices(market) /\ PriceSeries(c)
  BY MarketPrices
<1>2. code \in Preset
  BY DEF TypeOK, Builtin
<1>3. PICK n : n = Len(c)
  OBVIOUS
<1>4. Held(harness(code, c)) \in BOOLEAN
  BY DEF Held
<1>5. CASE code = "breakout"
  <2>1. Len(c) \in Nat
    BY <1>1 DEF PriceSeries
  <2>2. harness("breakout", c) = runBreakout(c)
    BY <2>1, BreakoutsEqual
  <2>3. QED
    BY <1>1, <1>5, <2>2 DEF PresetsAgree
<1>6. CASE code \in {"custom", "sma_crossover"}
  <2>1. /\ runCrossover(c, FALSE) # <<>>
        /\ ~Equal(barSMA(c, Len(c), Fast), barSMA(c, Len(c), Slow))
        => (Held(harness(code, c)) <=> Held(runCrossover(c, FALSE)))
    BY <1>1, <1>6, CrossoversAgree
  <2>2. \A events : Held(events) \in BOOLEAN
    BY DEF Held
  <2>3. \A p, q \in BOOLEAN : (p <=> q) => p = q
    OBVIOUS
  <2>4. /\ runCrossover(c, FALSE) # <<>>
        /\ ~Equal(barSMA(c, Len(c), Fast), barSMA(c, Len(c), Slow))
        => Held(harness(code, c)) = Held(runCrossover(c, FALSE))
    BY <2>1, <2>2, <2>3, Zenon
  <2>5. QED
    BY <1>1, <1>6, <2>4 DEF PresetsAgree
<1>7. CASE code = "rsi_mean_reversion"
  <2>1. PICK rsi : rsi = computeRSI(c, Period)[n]
    OBVIOUS
  <2>2. Held(runRSI(c)) \in BOOLEAN
    BY DEF Held
  <2>3. n >= Period + 2 /\ ~Equal(rsi, Zero)
          /\ (Less(rsi, <<Oversold, 1>>) \/ Less(<<Overbought, 1>>, rsi))
        => (Held(harness("rsi_mean_reversion", c)) <=> Held(runRSI(c)))
    BY <1>1, <1>3, <2>1, ReversionsAgree
  <2>4. n >= Period + 2 /\ ~Equal(rsi, Zero)
          /\ (Less(rsi, <<Oversold, 1>>) \/ Less(<<Overbought, 1>>, rsi))
        => Held(harness(code, c)) = Held(runRSI(c))
    BY <1>4, <1>7, <2>2, <2>3
  <2>5. QED
    BY <1>1, <1>3, <1>7, <2>1, <2>4 DEF PresetsAgree
<1>8. CASE code = "bollinger_bands"
  <2>1. PICK python, band : /\ python = harness("bollinger_bands", c)
                            /\ band = computeBollinger(c, BandPeriod, StdDevs)
    OBVIOUS
  <2>2. /\ python # <<>> => python[1].bar > BandPeriod
        /\ \A i \in BandPeriod + 1 .. n : ~LowerIsZero(band[i])
        => python = runBollinger(c)
    BY <1>1, <1>3, <2>1, BandsAgree
  <2>3. QED
    BY <1>1, <1>3, <1>8, <2>1, <2>2 DEF PresetsAgree
<1>9. CASE code = "ema_crossover"
  BY <1>9 DEF PresetsAgree
<1>10. QED
  BY <1>2, <1>5, <1>6, <1>7, <1>8, <1>9 DEF Preset

\* Whatever the market does, a program of the page and the strategy it stands for hold the
\* same, where the two have made up their mind.
THEOREM PresetsAgreeHolds == Spec => []PresetsAgree
<1>1. IInv => PresetsAgree
  BY ProgramsAgree DEF IInv, AccountIsReplay
<1>2. QED
  BY <1>1, Invariance, PTL

(***************************************************************************)
(* What the indicators compute.                                            *)
(***************************************************************************)
PowerOf(f, b, n) == f = [k \in 0 .. n |-> IF k = 0 THEN 1 ELSE b * f[k - 1]]

LEMMA PowerExists ==
  ASSUME NEW b \in Int, NEW n \in Nat
  PROVE  \E f : PowerOf(f, b, n) /\ Power(b, n) = f[n]
<1> DEFINE S == {k \in Nat : \E f : PowerOf(f, b, k)}
<1>1. 0 \in S
  <2> DEFINE f == [i \in 0 .. 0 |-> 1]
  <2>1. f = [i \in 0 .. 0 |-> IF i = 0 THEN 1 ELSE b * f[i - 1]]
    OBVIOUS
  <2> HIDE DEF f
  <2>2. PowerOf(f, b, 0)
    BY <2>1 DEF PowerOf
  <2>3. QED
    BY <2>2
<1>2. ASSUME NEW k \in 0 .. n - 1, k \in S PROVE k + 1 \in S
  <2>1. PICK f : PowerOf(f, b, k)
    BY <1>2
  <2> DEFINE g == [i \in 0 .. k + 1 |-> IF i = 0 THEN 1 ELSE b * f[i - 1]]
  <2>2. \A i \in 0 .. k : g[i] = f[i]
    BY <2>1 DEF PowerOf
  <2>3. \A i \in 0 .. k + 1 : i # 0 => b * f[i - 1] = b * g[i - 1]
    <3>1. \A i \in 0 .. k + 1 : i # 0 => i - 1 \in 0 .. k
      OBVIOUS
    <3>2. \A i \in 0 .. k + 1 : i # 0 => f[i - 1] = g[i - 1]
      BY <2>2, <3>1
    <3> HIDE DEF g
    <3>3. QED
      BY <3>2
  <2>4. g = [i \in 0 .. k + 1 |-> IF i = 0 THEN 1 ELSE b * g[i - 1]]
    BY <2>3
  <2> HIDE DEF g
  <2>5. PowerOf(g, b, k + 1)
    BY <2>4 DEF PowerOf
  <2>6. QED
    BY <2>5
<1> HIDE DEF S
<1>3. 0 .. n \subseteq S
  BY <1>1, <1>2, Upward
<1>4. \E f : PowerOf(f, b, n)
  <2>1. n \in S
    BY <1>3
  <2>2. QED
    BY <2>1 DEF S
<1> DEFINE f == CHOOSE f : PowerOf(f, b, n)
<1>5. PowerOf(f, b, n)
  BY <1>4, Zenon
<1>6. Power(b, n) = f[n]
  BY DEF Power, PowerOf
<1>7. QED
  BY <1>5, <1>6, Zenon

LEMMA PowerPrefix ==
  ASSUME NEW b \in Int, NEW n \in Nat, NEW m \in Nat, m <= n,
         NEW f, PowerOf(f, b, n), NEW g, PowerOf(g, b, m)
  PROVE  f[m] = g[m]
<1> DEFINE S == {k \in Nat : f[k] = g[k]}
<1>1. \A k \in 0 .. m : /\ g[k] = IF k = 0 THEN 1 ELSE b * g[k - 1]
                       /\ f[k] = IF k = 0 THEN 1 ELSE b * f[k - 1]
  BY DEF PowerOf
<1>2. 0 \in S
  BY <1>1
<1>3. ASSUME NEW k \in 0 .. m - 1, k \in S PROVE k + 1 \in S
  <2>1. k + 1 \in 0 .. m /\ k + 1 # 0 /\ k + 1 - 1 = k
    OBVIOUS
  <2>2. g[k + 1] = b * g[k] /\ f[k + 1] = b * f[k]
    BY <1>1, <2>1
  <2>3. QED
    BY <1>3, <2>2
<1> HIDE DEF S
<1>4. 0 .. m \subseteq S
  BY <1>2, <1>3, Upward
<1>5. m \in S
  BY <1>4
<1>6. QED
  BY <1>5 DEF S

LEMMA PowerStep ==
  ASSUME NEW b \in Int, NEW n \in Nat
  PROVE  Power(b, 0) = 1 /\ Power(b, n + 1) = b * Power(b, n)
<1>1. PICK f : PowerOf(f, b, n + 1) /\ Power(b, n + 1) = f[n + 1]
  BY PowerExists
<1>2. PICK g : PowerOf(g, b, n) /\ Power(b, n) = g[n]
  BY PowerExists
<1>3. PICK h : PowerOf(h, b, 0) /\ Power(b, 0) = h[0]
  BY PowerExists
<1>4. f[n] = g[n]
  BY <1>1, <1>2, PowerPrefix
<1>5. f[n + 1] = b * f[n]
  BY <1>1 DEF PowerOf
<1>6. h[0] = 1
  BY <1>3 DEF PowerOf
<1>7. QED
  BY <1>1, <1>2, <1>3, <1>4, <1>5, <1>6

LEMMA PowerType ==
  ASSUME NEW b \in Int, NEW n \in Nat
  PROVE  Power(b, n) \in Int
<1> DEFINE S == {k \in Nat : Power(b, k) \in Int}
<1>1. 0 \in S
  BY PowerStep
<1>2. ASSUME NEW k \in 0 .. n - 1, k \in S PROVE k + 1 \in S
  <2>1. Power(b, k + 1) = b * Power(b, k) /\ Power(b, k) \in Int
    BY <1>2, PowerStep
  <2>2. QED
    BY <2>1
<1> HIDE DEF S
<1>3. 0 .. n \subseteq S
  BY <1>1, <1>2, Upward
<1>4. n \in S
  BY <1>3
<1>5. QED
  BY <1>4 DEF S

\* The next sum has the terms of this one, grown old by a bar, and the newest bar's.
LEMMA WeightedSumStep ==
  ASSUME NEW x, NEW seed \in Nat, NEW last \in Nat, seed <= last,
         \A i \in DOMAIN x \cap 1 .. seed : x[i] \in Int,
         \A i \in seed + 1 .. last + 1 : x[i] \in Int,
         NEW coefficient \in Int, NEW growth \in Int, NEW decay \in Int
  PROVE  WeightedSum(x, seed, last + 1, coefficient, growth, decay)
           = decay * WeightedSum(x, seed, last, coefficient, growth, decay)
               + coefficient * (Power(growth, last - seed) * x[last + 1])
<1> DEFINE old == Weighted(x, seed, last, growth, decay)
           new == Weighted(x, seed, last + 1, growth, decay)
           bars == seed + 1 .. last
           begin == DOMAIN x \cap 1 .. seed
<1>1. /\ IsFiniteSet(bars) /\ IsFiniteSet(seed + 1 .. last + 1) /\ IsFiniteSet(begin)
  <2>1. IsFiniteSet(1 .. seed) /\ begin \subseteq 1 .. seed
    BY FS_Interval
  <2>2. QED
    BY <2>1, FS_Interval, FS_Subset
<1>2. \A i \in seed + 1 .. last + 1 :
        /\ i - seed - 1 \in Nat /\ last + 1 - i \in Nat
        /\ i # last + 1 => i \in bars /\ last - i \in Nat /\ last + 1 - i = last - i + 1
  OBVIOUS
<1>3. /\ \A i \in bars : old[i] = Power(growth, i - seed - 1) * Power(decay, last - i) * x[i]
      /\ \A i \in seed + 1 .. last + 1 :
           new[i] = Power(growth, i - seed - 1) * Power(decay, last + 1 - i) * x[i]
      /\ SumFunction(old) = SumOver(old, bars)
      /\ SumFunction(new) = SumOver(new, seed + 1 .. last + 1)
  <2>1. old = [i \in bars |-> old[i]] /\ new = [i \in seed + 1 .. last + 1 |-> new[i]]
    BY DEF Weighted
  <2>2. SumFunction(old) = SumOver(old, bars)
    BY <2>1, SumAll
  <2>3. SumFunction(new) = SumOver(new, seed + 1 .. last + 1)
    BY <2>1, SumAll
  <2>4. QED
    BY <2>2, <2>3 DEF Weighted
<1> HIDE DEF old, new
<1>4. \A i \in bars : old[i] \in Int /\ new[i] = decay * old[i]
  <2> TAKE i \in bars
  <2>1. i \in seed + 1 .. last + 1 /\ i # last + 1
    OBVIOUS
  <2>2. PICK g, d : g = Power(growth, i - seed - 1) /\ d = Power(decay, last - i)
    OBVIOUS
  <2>3. g \in Int /\ d \in Int /\ x[i] \in Int
    BY <1>2, <2>1, <2>2, PowerType
  <2>4. Power(decay, last + 1 - i) = decay * d
    BY <1>2, <2>1, <2>2, PowerStep
  <2>5. old[i] = g * d * x[i] /\ new[i] = g * (decay * d) * x[i]
    BY <1>3, <2>1, <2>2, <2>4
  <2>6. QED
    BY <2>3, <2>5
<1>5. new[last + 1] = Power(growth, last - seed) * x[last + 1]
  <2>1. last + 1 \in seed + 1 .. last + 1 /\ last + 1 - seed - 1 = last - seed
        /\ last + 1 - (last + 1) = 0 /\ last - seed \in Nat
    OBVIOUS
  <2>2. Power(decay, 0) = 1 /\ Power(growth, last - seed) \in Int /\ x[last + 1] \in Int
    BY <2>1, PowerStep, PowerType
  <2>3. new[last + 1] = Power(growth, last - seed) * Power(decay, 0) * x[last + 1]
    BY <1>3, <2>1
  <2>4. QED
    BY <2>2, <2>3
<1>6. SumOver(new, seed + 1 .. last + 1) = new[last + 1] + SumOver(new, bars)
  <2>1. last + 1 \in seed + 1 .. last + 1 /\ (seed + 1 .. last + 1) \ {last + 1} = bars
    OBVIOUS
  <2>2. \A i \in seed + 1 .. last + 1 : new[i] \in Int
    <3>1. new[last + 1] \in Int
      <4>1. last - seed \in Nat /\ x[last + 1] \in Int
        OBVIOUS
      <4>2. QED
        BY <1>5, <4>1, PowerType
    <3>2. QED
      BY <1>2, <1>4, <3>1
  <2>3. PICK all : all = seed + 1 .. last + 1
    OBVIOUS
  <2>4. /\ IsFiniteSet(all) /\ last + 1 \in all /\ all \ {last + 1} = bars
        /\ \A i \in all : new[i] \in Int
    BY <1>1, <2>1, <2>2, <2>3
  <2>5. SumOver(new, all) = new[last + 1] + SumOver(new, all \ {last + 1})
    BY <2>4, SumRemove
  <2>6. QED
    BY <2>3, <2>4, <2>5
<1>7. SumOver(new, bars) = decay * SumOver(old, bars)
  BY <1>1, <1>4, SumScale
<1>8. PICK a, b, s, t : /\ a = SumOver(x, begin) /\ b = Power(decay, last - seed)
                        /\ s = SumOver(old, bars) /\ t = new[last + 1]
  OBVIOUS
<1>9. a \in Int /\ s \in Int
  BY <1>1, <1>4, <1>8, SumType
<1>10. b \in Int /\ t \in Int /\ Power(decay, last + 1 - seed) = decay * b
  <2>1. last - seed \in Nat /\ last + 1 - seed = last - seed + 1 /\ x[last + 1] \in Int
    OBVIOUS
  <2>2. PICK k \in Nat : k = last - seed
    BY <2>1
  <2>3. Power(growth, k) \in Int /\ Power(decay, k) \in Int
    BY PowerType
  <2>4. Power(decay, k + 1) = decay * Power(decay, k)
    BY PowerStep
  <2>5. t = Power(growth, k) * x[last + 1]
    BY <1>5, <1>8, <2>2
  <2>6. QED
    BY <1>8, <2>1, <2>2, <2>3, <2>4, <2>5
<1>11. WeightedSum(x, seed, last, coefficient, growth, decay) = b * a + coefficient * s
  BY <1>3, <1>8 DEF WeightedSum, old
<1>12. WeightedSum(x, seed, last + 1, coefficient, growth, decay)
         = decay * b * a + coefficient * (t + decay * s)
  BY <1>3, <1>6, <1>7, <1>8, <1>10 DEF WeightedSum, new
<1>13. decay * b * a + coefficient * (t + decay * s)
         = decay * (b * a + coefficient * s) + coefficient * t
  BY <1>9, <1>10
<1>14. QED
  BY <1>5, <1>8, <1>11, <1>12, <1>13

LEMMA WeightedSumBegins ==
  ASSUME NEW x, NEW seed \in Nat, \A i \in DOMAIN x \cap 1 .. seed : x[i] \in Int,
         NEW coefficient \in Int, NEW growth \in Int, NEW decay \in Int
  PROVE  WeightedSum(x, seed, seed, coefficient, growth, decay)
           = SumOver(x, DOMAIN x \cap 1 .. seed)
<1> DEFINE f == Weighted(x, seed, seed, growth, decay)
           begin == DOMAIN x \cap 1 .. seed
<1>1. seed + 1 .. seed = {} /\ seed - seed = 0
  OBVIOUS
<1>2. SumFunction(f) = SumOver(f, seed + 1 .. seed)
  <2>1. f = [i \in seed + 1 .. seed |-> f[i]]
    BY DEF Weighted
  <2>2. QED
    BY <2>1, SumAll
<1>3. SumFunction(f) = 0
  BY <1>1, <1>2, SumEmpty
<1>4. IsFiniteSet(begin)
  <2>1. IsFiniteSet(1 .. seed) /\ begin \subseteq 1 .. seed
    BY FS_Interval
  <2>2. QED
    BY <2>1, FS_Subset
<1>5. SumOver(x, begin) \in Int
  BY <1>4, SumType
<1>6. Power(decay, 0) = 1
  BY PowerStep
<1>7. QED
  BY <1>1, <1>3, <1>5, <1>6 DEF WeightedSum

LEMMA WeightedSumType ==
  ASSUME NEW x, NEW seed \in Nat, NEW last \in Nat, seed <= last,
         \A i \in DOMAIN x \cap 1 .. seed : x[i] \in Int,
         \A i \in seed + 1 .. last : x[i] \in Int,
         NEW coefficient \in Int, NEW growth \in Int, NEW decay \in Int
  PROVE  WeightedSum(x, seed, last, coefficient, growth, decay) \in Int
<1> DEFINE f == Weighted(x, seed, last, growth, decay)
           begin == DOMAIN x \cap 1 .. seed
           bars == seed + 1 .. last
<1>1. IsFiniteSet(begin) /\ IsFiniteSet(bars)
  <2>1. IsFiniteSet(1 .. seed) /\ begin \subseteq 1 .. seed
    BY FS_Interval
  <2>2. QED
    BY <2>1, FS_Interval, FS_Subset
<1>2. SumFunction(f) = SumOver(f, bars)
  <2>1. f = [i \in bars |-> f[i]]
    BY DEF Weighted
  <2>2. QED
    BY <2>1, SumAll
<1>3. ASSUME NEW i \in bars PROVE f[i] \in Int
  <2>1. i - seed - 1 \in Nat /\ last - i \in Nat /\ x[i] \in Int
    OBVIOUS
  <2>2. PICK g, d : g = Power(growth, i - seed - 1) /\ d = Power(decay, last - i)
    OBVIOUS
  <2>3. g \in Int /\ d \in Int
    BY <2>1, <2>2, PowerType
  <2>4. f[i] = g * d * x[i]
    BY <2>2 DEF Weighted
  <2>5. QED
    BY <2>1, <2>3, <2>4
<1> HIDE DEF f
<1>4. SumOver(f, bars) \in Int /\ SumOver(x, begin) \in Int
  BY <1>1, <1>3, SumType
<1>5. Power(decay, last - seed) \in Int
  <2>1. last - seed \in Nat
    OBVIOUS
  <2>2. QED
    BY <2>1, PowerType
<1>6. QED
  BY <1>2, <1>4, <1>5 DEF WeightedSum, f

LEMMA EMAIsExact ==
  ASSUME NEW c, PriceSeries(c), NEW p \in Nat \ {0}
  PROVE  EMAExact(c, p)
<1> DEFINE W(i) == WeightedSum(c, p, i, 2 * p, p + 1, p - 1)
           D(i) == p * Power(p + 1, i - p)
<1>1. PICK n : n = Len(c)
  OBVIOUS
<1>2. n \in Nat \ {0} /\ DOMAIN c = 1 .. n /\ \A i \in 1 .. n : c[i] \in Int
  BY <1>1 DEF PriceSeries
<1>3. SUFFICES ASSUME p <= n PROVE EMAExact(c, p)
  <2>1. ~(p <= n) => \A i \in p .. n : FALSE
    BY <1>2
  <2>2. QED
    BY <1>1, <2>1 DEF EMAExact
<1>4. PICK seed : seed = [i \in 1 .. n |-> barSMA(c, i, p)]
  OBVIOUS
<1>5. PICK ema : ema = computeEMA(c, p) /\ EMAOf(ema, c, n, p, seed, p)
  <2>1. Series(c)
    BY DEF PriceSeries, Series
  <2>2. QED
    BY <1>1, <1>4, <2>1, EMAIs
<1>6. \A i \in 1 .. n : ema[i] = IF i <= p THEN seed[i] ELSE Smoothed(ema[i - 1], c[i], p)
  BY <1>5 DEF EMAOf
<1>7. p + 1 \in Int /\ p - 1 \in Int /\ 2 * p \in Int /\ p \in Nat
  OBVIOUS
<1>8. DOMAIN c \cap 1 .. p = 1 .. p
  BY <1>2, <1>3
<1>9. \A i \in DOMAIN c \cap 1 .. p : c[i] \in Int
  BY <1>2
<1> DEFINE S == {i \in Nat : ema[i] = <<W(i), D(i)>>}
<1>10. p \in S
  <2>1. p \in 1 .. n /\ ~(p < p) /\ p - p + 1 = 1 /\ p - p = 0 /\ p <= p
    BY <1>2, <1>3
  <2>2. ema[p] = <<SumOver(c, 1 .. p), p>>
    BY <1>4, <1>6, <2>1 DEF barSMA
  <2>3. W(p) = SumOver(c, 1 .. p)
    BY <1>7, <1>8, <1>9, WeightedSumBegins
  <2>4. D(p) = p
    BY <1>7, <2>1, PowerStep
  <2>5. QED
    BY <2>2, <2>3, <2>4
<1>11. ASSUME NEW i \in p .. n - 1, i \in S PROVE i + 1 \in S
  <2>1. /\ i \in Nat /\ p <= i /\ i + 1 \in 1 .. n /\ ~(i + 1 <= p) /\ i + 1 - 1 = i
        /\ i - p \in Nat /\ i + 1 - p = i - p + 1
    BY <1>2
  <2>2. ema[i + 1] = Smoothed(ema[i], c[i + 1], p)
    BY <1>6, <2>1
  <2>3. PICK w, q, x : w = W(i) /\ q = Power(p + 1, i - p) /\ x = c[i + 1]
    OBVIOUS
  <2>4. ema[i] = <<w, p * q>>
    BY <1>11, <2>3
  <2>5. ema[i + 1] = <<2 * x * (p * q) + (p - 1) * w, (p + 1) * (p * q)>>
    BY <2>2, <2>3, <2>4 DEF Smoothed
  <2>6. \A j \in p + 1 .. i + 1 : c[j] \in Int
    BY <1>2, <2>1
  <2>7. W(i + 1) = (p - 1) * w + 2 * p * (q * x)
    BY <1>7, <1>9, <2>1, <2>3, <2>6, WeightedSumStep
  <2>8. Power(p + 1, i + 1 - p) = (p + 1) * q /\ q \in Int
    BY <1>7, <2>1, <2>3, PowerStep, PowerType
  <2>9. x \in Int
    BY <1>2, <2>1, <2>3
  <2>10. 2 * x * (p * q) = 2 * p * (q * x) /\ (p + 1) * (p * q) = p * ((p + 1) * q)
    BY <2>8, <2>9
  <2>11. PICK big, small : big = 2 * p * (q * x) /\ small = (p - 1) * w
    OBVIOUS
  <2>12. W(i + 1) = small + big /\ ema[i + 1] = <<big + small, p * ((p + 1) * q)>>
    BY <2>5, <2>7, <2>10, <2>11
  <2>13. D(i + 1) = p * ((p + 1) * q)
    BY <2>8
  <2>14. big + small = small + big
    <3>1. \A j \in p + 1 .. i : c[j] \in Int
      BY <1>2, <2>1
    <3>2. w \in Int
      BY <1>7, <1>9, <2>1, <2>3, <3>1, WeightedSumType
    <3>3. QED
      BY <2>8, <2>9, <2>11, <3>2
  <2>15. ema[i + 1] = <<W(i + 1), D(i + 1)>>
    BY <2>12, <2>13, <2>14
  <2> HIDE DEF W, D
  <2>16. QED
    BY <2>1, <2>15
<1> HIDE DEF S
<1>12. p .. n \subseteq S
  <2>1. p \in Int /\ n \in Int
    BY <1>2
  <2>2. QED
    BY <1>10, <1>11, <2>1, Upward
<1>13. \A i \in p .. n : ema[i] = <<W(i), D(i)>>
  BY <1>12 DEF S
<1>14. \A i \in p .. n : Equal(ema[i], <<W(i), D(i)>>)
  BY <1>13 DEF Equal
<1>15. QED
  BY <1>1, <1>5, <1>14 DEF EMAExact

LEMMA WeightedAgain ==
  ASSUME NEW p \in Int, NEW seed \in Nat, NEW last \in Nat, seed <= last
  PROVE  \A x : /\ \A j \in DOMAIN x \cap 1 .. seed : x[j] \in Int
                /\ \A j \in seed + 1 .. last + 1 : x[j] \in Int
                => WeightedSum(x, seed, last + 1, p, p, p - 1)
                     = (p - 1) * WeightedSum(x, seed, last, p, p, p - 1)
                         + p * (Power(p, last - seed) * x[last + 1])
<1>1. PICK d \in Int : d = p - 1
  OBVIOUS
<1>2. ASSUME NEW x, \A j \in DOMAIN x \cap 1 .. seed : x[j] \in Int,
             \A j \in seed + 1 .. last + 1 : x[j] \in Int
      PROVE  WeightedSum(x, seed, last + 1, p, p, d)
               = d * WeightedSum(x, seed, last, p, p, d)
                   + p * (Power(p, last - seed) * x[last + 1])
  BY <1>2, WeightedSumStep
<1>3. QED
  BY <1>1, <1>2

LEMMA WilderIsExact ==
  ASSUME NEW n \in Nat \ {0}, NEW moves \in [2 .. n -> Int], NEW p \in Nat \ {0},
         NEW i \in p + 1 .. n
  PROVE  Wilder(moves, p)[i]
           = <<WeightedSum(moves, p + 1, i, p, p, p - 1), p * Power(p, i - p - 1)>>
<1> DEFINE W(k) == WeightedSum(moves, p + 1, k, p, p, p - 1)
           D(k) == p * Power(p, k - p - 1)
<1>1. DOMAIN moves \cup {1} = 1 .. n
  OBVIOUS
<1>2. PICK avg : avg = Wilder(moves, p) /\ WilderOf(avg, moves, n, p)
  BY <1>1, WilderIs
<1>3. \A k \in 1 .. n : avg[k] = IF k <= p THEN Zero
                                 ELSE IF k = p + 1 THEN <<SumOver(moves, 2 .. k), p>>
                                 ELSE WilderStep(avg[k - 1], moves[k], p)
  BY <1>2 DEF WilderOf
<1>4. PICK s : s = p + 1
  OBVIOUS
<1>5. /\ p \in Int /\ p - 1 \in Int /\ s \in Nat /\ s <= n /\ n \in Int /\ s \in Int
      /\ DOMAIN moves \cap 1 .. s = 2 .. s
  BY <1>4
<1>12. \A k \in DOMAIN moves \cap 1 .. s : moves[k] \in Int
  OBVIOUS
<1>13. p \in Int /\ p - 1 \in Int /\ s \in Nat
  BY <1>5
<1> DEFINE S == {k \in Nat : avg[k] = <<W(k), D(k)>>}
<1>6. \A k : W(k) = WeightedSum(moves, s, k, p, p, p - 1)
  BY <1>4
<1>7. s \in S
  <2>1. s \in 1 .. n /\ ~(s <= p) /\ s - p - 1 = 0
    BY <1>4, <1>5
  <2>2. avg[s] = <<SumOver(moves, 2 .. s), p>>
    BY <1>3, <1>4, <2>1
  <2>3. W(s) = SumOver(moves, 2 .. s)
    <3>1. WeightedSum(moves, s, s, p, p, p - 1) = SumOver(moves, DOMAIN moves \cap 1 .. s)
      BY <1>12, <1>13, WeightedSumBegins
    <3>2. QED
      BY <1>5, <1>6, <3>1
  <2>4. D(s) = p
    BY <1>5, <2>1, PowerStep
  <2>5. QED
    BY <1>5, <2>2, <2>3, <2>4
<1> HIDE DEF W
<1>8. ASSUME NEW k \in s .. n - 1, k \in S PROVE k + 1 \in S
  <2>1. /\ k \in Nat /\ s <= k /\ k + 1 \in 1 .. n /\ ~(k + 1 <= p) /\ k + 1 # p + 1
        /\ k + 1 - 1 = k /\ k - p - 1 \in Nat /\ k + 1 - p - 1 = k - p - 1 + 1
        /\ k - s = k - p - 1 /\ k + 1 \in 2 .. n
    BY <1>4, <1>5
  <2>2. avg[k + 1] = WilderStep(avg[k], moves[k + 1], p)
    <3>1. PICK m \in 1 .. n : m = k + 1
      BY <2>1
    <3>2. avg[m] = WilderStep(avg[m - 1], moves[m], p)
      BY <1>3, <2>1, <3>1
    <3>3. QED
      BY <2>1, <3>1, <3>2
  <2>3. PICK w, q, x : w = W(k) /\ q = Power(p, k - p - 1) /\ x = moves[k + 1]
    OBVIOUS
  <2>4. avg[k] = <<w, p * q>>
    BY <1>8, <2>3
  <2>5. avg[k + 1] = <<w * (p - 1) + x * (p * q), p * q * p>>
    BY <2>2, <2>3, <2>4 DEF WilderStep
  <2>6. /\ \A j \in s + 1 .. k + 1 : moves[j] \in Int
        /\ \A j \in s + 1 .. k : moves[j] \in Int
    BY <1>5, <2>1
  <2>7. W(k + 1) = (p - 1) * w + p * (q * x)
    <3>1. WeightedSum(moves, s, k + 1, p, p, p - 1)
            = (p - 1) * WeightedSum(moves, s, k, p, p, p - 1)
                + p * (Power(p, k - s) * moves[k + 1])
      <4>1. \A j \in s + 1 .. k + 1 : moves[j] \in Int
        BY <2>6
      <4>2. k \in Nat /\ s <= k
        BY <2>1
      <4>3. \A x2 : /\ \A j \in DOMAIN x2 \cap 1 .. s : x2[j] \in Int
                    /\ \A j \in s + 1 .. k + 1 : x2[j] \in Int
                    => WeightedSum(x2, s, k + 1, p, p, p - 1)
                         = (p - 1) * WeightedSum(x2, s, k, p, p, p - 1)
                             + p * (Power(p, k - s) * x2[k + 1])
        BY <1>13, <4>2, WeightedAgain
      <4>4. QED
        BY <1>12, <4>1, <4>3
    <3>2. QED
      BY <1>6, <2>1, <2>3, <3>1
  <2>8. Power(p, k + 1 - p - 1) = p * q /\ q \in Int
    BY <1>5, <2>1, <2>3, PowerStep, PowerType
  <2>9. x \in Int /\ w \in Int
    <3>1. x \in Int
      BY <2>1, <2>3
    <3>2. WeightedSum(moves, s, k, p, p, p - 1) \in Int
      BY <1>5, <2>1, <2>6, WeightedSumType
    <3>3. QED
      BY <1>6, <2>3, <3>1, <3>2
  <2>10. w * (p - 1) + x * (p * q) = (p - 1) * w + p * (q * x) /\ p * q * p = p * (p * q)
    BY <2>8, <2>9
  <2>11. D(k + 1) = p * (p * q)
    BY <2>8
  <2>12. avg[k + 1] = <<W(k + 1), D(k + 1)>>
    BY <2>5, <2>7, <2>10, <2>11
  <2> HIDE DEF D
  <2>13. QED
    BY <2>1, <2>12
<1> HIDE DEF S
<1>9. s .. n \subseteq S
  BY <1>5, <1>7, <1>8, Upward
<1>10. avg[i] = <<W(i), D(i)>>
  BY <1>4, <1>9 DEF S
<1>11. QED
  BY <1>2, <1>10 DEF W

\* Both averages of an RSI have the denominator that the weights have.
LEMMA RSIIsExact ==
  ASSUME NEW c, PriceSeries(c), NEW p \in Nat \ {0}
  PROVE  RSIExact(c, p)
<1>1. PICK n : n = Len(c)
  OBVIOUS
<1>2. PICK gains, losses : gains = Gains(c) /\ losses = Losses(c)
  OBVIOUS
<1>3. n \in Nat /\ n > 0 /\ DOMAIN c = 1 .. n /\ (1 .. n) \ {1} = 2 .. n
  BY <1>1 DEF PriceSeries
<1>4. /\ gains = [j \in 2 .. n |-> Gain(c, j)] /\ losses = [j \in 2 .. n |-> Loss(c, j)]
  BY <1>2, <1>3 DEF Gains, Losses
<1>5. \A j \in 2 .. n : gains[j] \in Int /\ losses[j] \in Int
  BY <1>1, <1>2, MovesType
<1>9. gains \in [2 .. n -> Int] /\ losses \in [2 .. n -> Int]
  BY <1>4, <1>5
<1>10. n \in Nat \ {0}
  BY <1>3
<1> DEFINE Moved(moves, i) == WeightedSum(moves, p + 1, i, p, p, p - 1)
<1>7. ASSUME NEW i \in p + 1 .. n
      PROVE  Equal(computeRSI(c, p)[i],
                   IF Moved(losses, i) = 0 THEN <<100, 1>>
                   ELSE <<100 * Moved(gains, i), Moved(gains, i) + Moved(losses, i)>>)
  <2>1. Wilder(gains, p)[i] = <<Moved(gains, i), p * Power(p, i - p - 1)>>
    BY <1>9, <1>10, WilderIsExact
  <2>2. Wilder(losses, p)[i] = <<Moved(losses, i), p * Power(p, i - p - 1)>>
    BY <1>9, <1>10, WilderIsExact
  <2>3. i \in DOMAIN c /\ ~(i <= p)
    BY <1>3
  <2>4. computeRSI(c, p)[i] = toRSI(Wilder(gains, p)[i], Wilder(losses, p)[i])
    BY <1>2, <2>3 DEF computeRSI
  <2> HIDE DEF Moved
  <2>5. computeRSI(c, p)[i] = IF Moved(losses, i) = 0 THEN <<100, 1>>
                              ELSE <<100 * Moved(gains, i), Moved(gains, i) + Moved(losses, i)>>
    BY <2>1, <2>2, <2>4 DEF toRSI
  <2>6. \A a, b : a = b => Equal(a, b)
    BY DEF Equal
  <2>7. QED
    BY <2>5, <2>6
<1>8. QED
  BY <1>1, <1>4, <1>7 DEF RSIExact

\* The squares of the differences from the mean, multiplied out.
LEMMA BandIsExact ==
  ASSUME NEW c, PriceSeries(c), NEW p \in Nat \ {0}
  PROVE  BandExact(c, p)
<1>1. /\ Len(c) \in Nat /\ DOMAIN c = 1 .. Len(c) /\ \A i \in 1 .. Len(c) : c[i] \in Int
  BY DEF PriceSeries
<1>2. SUFFICES ASSUME NEW i \in p .. Len(c)
               PROVE  LET bars == i - p + 1 .. i
                          sum == SumOver(c, bars)
                          squares == [j \in bars |-> Squared(c[j])]
                      IN  computeBollinger(c, p, StdDevs)[i] =
                            [mid |-> sum,
                             spread |-> Squared(StdDevs)
                                          * (p * SumFunction(squares) - Squared(sum))]
  BY DEF BandExact
<1>3. i \in DOMAIN c /\ ~(i < p) /\ i \in Nat
  BY <1>1
<1> DEFINE bars == i - p + 1 .. i
           sum == SumOver(c, bars)
           squares == [j \in bars |-> Squared(c[j])]
           d2 == [j \in bars |-> Squared(p * c[j] - sum)]
<1>4. /\ BarsUpTo(c, i, p) = bars
      /\ computeBollinger(c, p, StdDevs)[i] =
           [mid |-> sum, spread |-> Squared(StdDevs) * (SumFunction(d2) \div p)]
  BY <1>3 DEF computeBollinger, BarsUpTo
<1>5. IsFiniteSet(bars) /\ Cardinality(bars) = p
  <2>1. i - p + 1 \in Int /\ i \in Int /\ ~(i - p + 1 > i) /\ i - (i - p + 1) + 1 = p
    BY <1>3
  <2>2. QED
    BY <2>1, FS_Interval
<1>6. \A j \in bars : c[j] \in Int
  <2>1. \A j \in bars : j \in 1 .. Len(c)
    BY <1>1
  <2>2. QED
    BY <1>1, <2>1
<1>7. sum \in Int
  BY <1>5, <1>6, SumType
<1>8. SumFunction(squares) = SumOver(squares, bars) /\ SumFunction(d2) = SumOver(d2, bars)
  <2>1. squares = [j \in bars |-> squares[j]] /\ d2 = [j \in bars |-> d2[j]]
    OBVIOUS
  <2> HIDE DEF squares, d2, bars
  <2>2. SumFunction(squares) = SumOver(squares, bars)
    BY <2>1, SumAll
  <2>3. SumFunction(d2) = SumOver(d2, bars)
    BY <2>1, SumAll
  <2>4. QED
    BY <2>2, <2>3
<1>9. \A j \in bars : squares[j] = c[j] * c[j] /\ d2[j] = (p * c[j] - sum) * (p * c[j] - sum)
  BY DEF Squared
<1> HIDE DEF squares, d2, bars, sum
<1>10. SumOver(squares, bars) \in Int
  <2>1. \A j \in bars : squares[j] \in Int
    BY <1>6, <1>9
  <2>2. QED
    BY <1>5, <2>1, SumType
<1>11. SumOver(d2, bars) = OfDeviations(p, sum, sum, SumOver(squares, bars), SumOver(c, bars),
                                        SumOver(c, bars), Cardinality(bars))
  <2>1. p \in Int
    OBVIOUS
  <2>2. /\ \A j \in bars : squares[j] = c[j] * c[j]
        /\ \A j \in bars : d2[j] = Deviations(p, sum, sum, c[j], c[j])
    BY <1>9 DEF Deviations
  <2>3. QED
    BY <1>5, <1>6, <1>7, <2>1, <2>2, SumProducts
<1>12. PICK q : q = SumOver(squares, bars)
  OBVIOUS
<1>13. SumOver(c, bars) = sum
  BY DEF sum
<1>14. SumOver(d2, bars) = p * (p * q - sum * sum)
  <2>1. SumOver(d2, bars) = p * p * q - p * sum * sum - p * sum * sum + p * (sum * sum)
    BY <1>5, <1>11, <1>12, <1>13 DEF OfDeviations
  <2>2. p * p * q - p * sum * sum - p * sum * sum + p * (sum * sum) = p * (p * q - sum * sum)
    BY <1>7, <1>10, <1>12
  <2>3. QED
    BY <2>1, <2>2
<1>15. SumOver(d2, bars) \div p = p * q - sum * sum
  <2>1. PICK z \in Int : z = p * q - sum * sum
    BY <1>7, <1>10, <1>12
  <2>2. (p * z) \div p = z
    <3>1. \A a \in Int : \A b \in Nat \ {0} : (b * a) \div b = a
      OBVIOUS
    <3>2. QED
      BY <2>1, <3>1
  <2>3. QED
    BY <1>14, <2>1, <2>2
<1>16. computeBollinger(c, p, StdDevs)[i] =
         [mid |-> sum, spread |-> Squared(StdDevs) * (p * SumFunction(squares) - Squared(sum))]
  BY <1>4, <1>8, <1>12, <1>15 DEF Squared
<1>17. QED
  BY <1>16 DEF squares, sum, bars

\* At every bar of every market, the recurrences of the three indicators give the weighted
\* means of their definitions: each price weighs what its age makes it weigh.
THEOREM IndicatorsExactHolds == Spec => []IndicatorsExact
<1>1. TypeOK => IndicatorsExact
  <2>1. TypeOK => PriceSeries(Prices(market))
    BY MarketPrices
  <2>2. QED
    BY <2>1, Parameters, EMAIsExact, RSIIsExact, BandIsExact DEF IndicatorsExact
<1>2. IInv => TypeOK
  BY DEF IInv, AccountIsReplay
<1>3. QED
  BY <1>1, <1>2, Invariance, PTL

(***************************************************************************)
(* What a backtest reports.  Money stands, after bar i, with the pairs     *)
(* sold by then, and in between with the move of the price since the buy.  *)
(***************************************************************************)
MoneyOf(money, events, c) ==
  money = [i \in DOMAIN c |->
             IF i = 1 THEN <<1, 1>>
             ELSE IF LongAfter(events, i - 1) THEN Times(money[i - 1], Growth(c, i - 1, i))
             ELSE money[i - 1]]

ProductOf(product, events, c) ==
  product = [k \in 0 .. Len(events) \div 2 |->
               IF k = 0 THEN <<1, 1>>
               ELSE IF events[2 * k - 1].kind = "buy" /\ events[2 * k].kind = "sell"
                      THEN Times(product[k - 1],
                                 Growth(c, events[2 * k - 1].bar, events[2 * k].bar))
                      ELSE product[k - 1]]

\* A factor at some of the steps from a to b.
Factored(f, a, b, factors, by) ==
  f = [i \in a .. b |-> IF i = a THEN <<1, 1>>
                        ELSE IF i \in factors THEN Times(f[i - 1], by[i])
                        ELSE f[i - 1]]

LEMMA FactoredExists ==
  ASSUME NEW a \in Nat, NEW b \in Nat, a <= b, NEW factors, NEW by
  PROVE  \E f : Factored(f, a, b, factors, by)
<1> DEFINE S == {k \in Nat : \E f : Factored(f, a, k, factors, by)}
<1>1. a \in S
  <2> DEFINE f == [i \in a .. a |-> <<1, 1>>]
  <2>1. f = [i \in a .. a |-> IF i = a THEN <<1, 1>>
                              ELSE IF i \in factors THEN Times(f[i - 1], by[i])
                              ELSE f[i - 1]]
    OBVIOUS
  <2> HIDE DEF f
  <2>2. Factored(f, a, a, factors, by)
    BY <2>1 DEF Factored
  <2>3. QED
    BY <2>2
<1>2. ASSUME NEW k \in a .. b - 1, k \in S PROVE k + 1 \in S
  <2>1. PICK e : Factored(e, a, k, factors, by)
    BY <1>2
  <2> DEFINE f == [i \in a .. k + 1 |-> IF i = a THEN <<1, 1>>
                                       ELSE IF i \in factors THEN Times(e[i - 1], by[i])
                                       ELSE e[i - 1]]
  <2>2. \A i \in a .. k : f[i] = e[i]
    <3>1. \A i \in a .. k : e[i] = IF i = a THEN <<1, 1>>
                                  ELSE IF i \in factors THEN Times(e[i - 1], by[i])
                                  ELSE e[i - 1]
      BY <2>1 DEF Factored
    <3>2. \A i \in a .. k : i \in a .. k + 1
      OBVIOUS
    <3>3. QED
      BY <3>1, <3>2
  <2>3. \A i \in a .. k + 1 : ~(i = a) => i - 1 \in a .. k
    OBVIOUS
  <2>4. \A i \in a .. k + 1 : ~(i = a) => e[i - 1] = f[i - 1]
    BY <2>2, <2>3
  <2>5. f = [i \in a .. k + 1 |-> IF i = a THEN <<1, 1>>
                                 ELSE IF i \in factors THEN Times(f[i - 1], by[i])
                                 ELSE f[i - 1]]
    BY <2>4
  <2> HIDE DEF f
  <2>6. Factored(f, a, k + 1, factors, by)
    BY <2>5 DEF Factored
  <2>7. QED
    BY <2>6
<1> HIDE DEF S
<1>3. a .. b \subseteq S
  BY <1>1, <1>2, Upward
<1>4. b \in S
  BY <1>3
<1>5. QED
  BY <1>4 DEF S

LEMMA MoneyIs ==
  ASSUME NEW c, Len(c) \in Nat \ {0}, DOMAIN c = 1 .. Len(c), NEW events
  PROVE  MoneyOf(Followed(events, c), events, c)
<1> DEFINE factors == {i \in 1 .. Len(c) : LongAfter(events, i - 1)}
           by == [i \in 1 .. Len(c) |-> Growth(c, i - 1, i)]
<1> HIDE DEF factors, by
<1>7. 1 \in Nat /\ Len(c) \in Nat /\ 1 <= Len(c)
  OBVIOUS
<1>1. PICK f : Factored(f, 1, Len(c), factors, by)
  BY <1>7, FactoredExists
<1>2. \A i \in 1 .. Len(c) : /\ i \in factors <=> LongAfter(events, i - 1)
                             /\ by[i] = Growth(c, i - 1, i)
  BY DEF factors, by
<1>3. MoneyOf(f, events, c)
  BY <1>1, <1>2 DEF Factored, MoneyOf
<1> DEFINE m == CHOOSE m : MoneyOf(m, events, c)
<1>4. MoneyOf(m, events, c)
  BY <1>3, Zenon
<1>5. Followed(events, c) = m
  BY DEF Followed, MoneyOf
<1>6. QED
  BY <1>4, <1>5, Zenon

LEMMA ReturnIs ==
  ASSUME NEW c, NEW events, Len(events) \in Nat
  PROVE  \E p : /\ ProductOf(p, events, c)
                /\ stratReturn(events, c) = WithOpen(events, c, p[Len(events) \div 2])
<1> DEFINE last == Len(events) \div 2
           factors == {k \in 1 .. last : /\ events[2 * k - 1].kind = "buy"
                                         /\ events[2 * k].kind = "sell"}
           by == [k \in 1 .. last |-> Growth(c, events[2 * k - 1].bar, events[2 * k].bar)]
<1>1. last \in Nat /\ 0 <= last
  OBVIOUS
<1>2. PICK f : Factored(f, 0, last, factors, by)
  BY <1>1, FactoredExists
<1>3. \A k \in 0 .. last : k # 0 =>
        /\ k \in factors <=> events[2 * k - 1].kind = "buy" /\ events[2 * k].kind = "sell"
        /\ by[k] = Growth(c, events[2 * k - 1].bar, events[2 * k].bar)
  OBVIOUS
<1> HIDE DEF factors, by
<1>4. ProductOf(f, events, c)
  BY <1>2, <1>3 DEF Factored, ProductOf
<1> DEFINE p == CHOOSE p : ProductOf(p, events, c)
<1>5. ProductOf(p, events, c)
  BY <1>4, Zenon
<1>6. stratReturn(events, c) = WithOpen(events, c, p[last])
  BY DEF stratReturn, ProductOf
<1>7. QED
  BY <1>5, <1>6, Zenon

LEMMA Halves ==
  ASSUME NEW k \in Nat, NEW n \in Nat
  PROVE  /\ (2 * k) % 2 = 0 /\ (2 * k + 1) % 2 = 1 /\ (2 * k + 2) % 2 = 0
         /\ (2 * k) \div 2 = k /\ (2 * k + 1) \div 2 = k
         /\ n \div 2 \in Nat /\ (k <= n \div 2 <=> 2 * k <= n)
OBVIOUS

Fraction(f) == f[1] \in Int /\ f[2] \in Int

LEMMA GrowthType ==
  ASSUME NEW c, PriceSeries(c), NEW i \in 1 .. Len(c), NEW j \in 1 .. Len(c)
  PROVE  /\ Growth(c, i, j) = <<c[j], c[i]>> /\ c[i] \in Int /\ c[j] \in Int
         /\ \A f : Fraction(f) => Fraction(Times(f, Growth(c, i, j)))
BY DEF PriceSeries, Growth, Fraction, Times

LEMMA ProductSteps ==
  ASSUME NEW c, PriceSeries(c), NEW events, Bounded(events, Len(c)), BuysAndSells(events),
         NEW p, ProductOf(p, events, c)
  PROVE  /\ p[0] = <<1, 1>>
         /\ \A k \in 0 .. Len(events) \div 2 - 1 :
              /\ 2 * k + 2 <= Len(events)
              /\ p[k + 1] = Times(p[k], Growth(c, events[2 * k + 1].bar, events[2 * k + 2].bar))
         /\ \A k \in 0 .. Len(events) \div 2 : Fraction(p[k])
<1>1. PICK last : last = Len(events) \div 2
  OBVIOUS
<1>2. Len(events) \in Nat /\ last \in Nat
  BY <1>1, LenProperties DEF Bounded
<1>3. \A k \in 0 .. last :
        p[k] = IF k = 0 THEN <<1, 1>>
               ELSE IF events[2 * k - 1].kind = "buy" /\ events[2 * k].kind = "sell"
                      THEN Times(p[k - 1], Growth(c, events[2 * k - 1].bar, events[2 * k].bar))
                      ELSE p[k - 1]
  BY <1>1 DEF ProductOf
<1>4. p[0] = <<1, 1>>
  BY <1>2, <1>3
<1>5. ASSUME NEW k \in 0 .. last - 1
      PROVE  /\ 2 * k + 1 \in 1 .. Len(events) /\ 2 * k + 2 \in 1 .. Len(events)
             /\ p[k + 1] = Times(p[k], Growth(c, events[2 * k + 1].bar, events[2 * k + 2].bar))
  <2>1. k \in Nat /\ 2 * k + 1 \in 1 .. Len(events) /\ 2 * k + 2 \in 1 .. Len(events)
    BY <1>1, <1>2
  <2>2. (2 * k + 1) % 2 = 1 /\ (2 * k + 2) % 2 # 1
    BY <2>1, Halves
  <2>3. PICK odd, even : odd = 2 * k + 1 /\ even = 2 * k + 2
    OBVIOUS
  <2>4. events[odd].kind = "buy" /\ events[even].kind = "sell"
    BY <2>1, <2>2, <2>3 DEF BuysAndSells
  <2>5. PICK m \in 0 .. last : m = k + 1
    BY <1>2
  <2>6. m # 0 /\ 2 * m - 1 = odd /\ 2 * m = even /\ m - 1 = k
    BY <2>1, <2>3, <2>5
  <2>7. p[m] = Times(p[k], Growth(c, events[odd].bar, events[even].bar))
    BY <1>3, <2>4, <2>6
  <2>8. QED
    BY <2>1, <2>3, <2>5, <2>7
<1> DEFINE S == {k \in Nat : Fraction(p[k])}
<1>6. 0 \in S
  BY <1>4 DEF Fraction
<1>7. ASSUME NEW k \in 0 .. last - 1, k \in S PROVE k + 1 \in S
  <2>1. events[2 * k + 1].bar \in 1 .. Len(c) /\ events[2 * k + 2].bar \in 1 .. Len(c)
    BY <1>5 DEF Bounded
  <2>2. Fraction(p[k + 1])
    BY <1>5, <1>7, <2>1, GrowthType
  <2>3. QED
    BY <1>2, <2>2
<1> HIDE DEF S
<1>8. 0 .. last \subseteq S
  BY <1>2, <1>6, <1>7, Upward
<1>9. \A k \in 0 .. last : Fraction(p[k])
  BY <1>8 DEF S
<1>10. \A k \in 0 .. last - 1 : 2 * k + 2 <= Len(events)
  BY <1>5
<1>11. QED
  BY <1>1, <1>4, <1>5, <1>9, <1>10

\* After bar i the first m trades are made, and no other.
TradedBy(events, i, m) ==
  /\ m \in 0 .. Len(events)
  /\ \A j \in 1 .. m : events[j].bar <= i
  /\ \A j \in m + 1 .. Len(events) : events[j].bar > i

LEMMA BarsIncrease ==
  ASSUME NEW n \in Nat, NEW events, Bounded(events, n), BuysAndSells(events),
         NEW k \in 1 .. Len(events), NEW j \in k .. Len(events)
  PROVE  events[k].bar <= events[j].bar /\ (j # k => events[k].bar < events[j].bar)
<1>1. Len(events) \in Nat /\ \A i \in 1 .. Len(events) : events[i].bar \in Int
  BY LenProperties DEF Bounded
<1> DEFINE S == {i \in Nat : /\ events[k].bar <= events[i].bar
                             /\ i # k => events[k].bar < events[i].bar}
<1>2. k \in S
  BY <1>1
<1>3. ASSUME NEW i \in k .. j - 1, i \in S PROVE i + 1 \in S
  <2>1. i \in 1 .. Len(events) - 1 /\ i \in 1 .. Len(events) /\ i + 1 \in 1 .. Len(events)
    BY <1>1
  <2>2. events[i].bar < events[i + 1].bar
    BY <2>1 DEF BuysAndSells
  <2>3. events[k].bar \in Int /\ events[i].bar \in Int /\ events[i + 1].bar \in Int
    BY <1>1, <2>1
  <2>4. events[k].bar <= events[i].bar
    BY <1>3
  <2>5. QED
    BY <2>1, <2>2, <2>3, <2>4
<1> HIDE DEF S
<1>4. k .. j \subseteq S
  <2>1. k \in Int /\ j \in Int
    BY <1>1
  <2>2. QED
    BY <1>2, <1>3, <2>1, Upward
<1>5. j \in S
  BY <1>1, <1>4
<1>6. QED
  BY <1>5 DEF S

LEMMA TradedNext ==
  ASSUME NEW n \in Nat, NEW events, Bounded(events, n), BuysAndSells(events),
         NEW i \in Nat, NEW m, TradedBy(events, i, m)
  PROVE  \/ TradedBy(events, i + 1, m)
         \/ /\ m + 1 \in 1 .. Len(events) /\ events[m + 1].bar = i + 1
            /\ TradedBy(events, i + 1, m + 1)
<1>1. Len(events) \in Nat /\ \A j \in 1 .. Len(events) : events[j].bar \in Int
  BY LenProperties DEF Bounded
<1>2. m \in 0 .. Len(events) /\ \A j \in 1 .. m : events[j].bar <= i + 1
  <2>1. m \in 0 .. Len(events) /\ \A j \in 1 .. m : events[j].bar <= i /\ j \in 1 .. Len(events)
    BY <1>1 DEF TradedBy
  <2>2. QED
    BY <1>1, <2>1
<1>3. CASE m = Len(events)
  <2>1. \A j \in m + 1 .. Len(events) : events[j].bar > i + 1
    BY <1>1, <1>3
  <2>2. QED
    BY <1>2, <2>1 DEF TradedBy
<1>4. CASE m # Len(events)
  <2>1. PICK k \in 1 .. Len(events) : k = m + 1
    BY <1>1, <1>2, <1>4
  <2>2. events[k].bar > i
    BY <1>1, <2>1 DEF TradedBy
  <2>3. \A j \in k .. Len(events) : /\ events[j].bar \in Int /\ events[k].bar <= events[j].bar
                                    /\ j # k => events[k].bar < events[j].bar
    BY <1>1, BarsIncrease
  <2>4. CASE events[k].bar = i + 1
    <3>1. \A j \in k + 1 .. Len(events) : events[j].bar > i + 1
      <4>1. \A j \in k + 1 .. Len(events) : j \in k .. Len(events) /\ j # k
        BY <1>1
      <4>2. QED
        BY <2>3, <2>4, <4>1
    <3>2. ASSUME NEW j \in 1 .. k PROVE events[j].bar <= i + 1
      <4>1. CASE j = k
        BY <2>4, <4>1
      <4>2. CASE j # k
        <5>1. j \in 1 .. m
          BY <1>1, <1>2, <2>1, <4>2
        <5>2. QED
          BY <1>2, <5>1
      <4>3. QED
        BY <4>1, <4>2
    <3>3. QED
      BY <1>1, <2>1, <2>4, <3>1, <3>2 DEF TradedBy
  <2>5. CASE events[k].bar # i + 1
    <3>1. events[k].bar \in Int /\ events[k].bar > i + 1
      BY <1>1, <2>1, <2>2, <2>5
    <3>2. \A j \in m + 1 .. Len(events) : events[j].bar > i + 1
      BY <2>1, <2>3, <3>1
    <3>3. QED
      BY <1>2, <3>2 DEF TradedBy
  <2>6. QED
    BY <2>4, <2>5
<1>5. QED
  BY <1>3, <1>4

LEMMA LongIs ==
  ASSUME NEW n \in Nat, NEW events, Bounded(events, n), BuysAndSells(events),
         NEW i \in Nat, NEW m, TradedBy(events, i, m)
  PROVE  LongAfter(events, i) <=> m % 2 = 1
<1>1. /\ Len(events) \in Nat /\ DOMAIN events = 1 .. Len(events)
      /\ \A j \in 1 .. Len(events) : events[j].bar \in Int
  BY LenProperties DEF Bounded
<1>2. m \in 0 .. Len(events) /\ \A j \in 1 .. Len(events) : events[j].bar <= i <=> j <= m
  <2>1. \A j \in 1 .. Len(events) : j \in 1 .. m \/ j \in m + 1 .. Len(events)
    BY <1>1 DEF TradedBy
  <2>2. QED
    BY <1>1, <2>1 DEF TradedBy
<1>3. CASE m = 0
  <2>1. ~LongAfter(events, i)
    BY <1>1, <1>2, <1>3 DEF LongAfter
  <2>2. QED
    BY <1>3, <2>1
<1>4. CASE m # 0
  <2>1. m \in 1 .. Len(events) /\ events[m].bar <= i
    BY <1>1, <1>2, <1>4
  <2>2. LongAfter(events, i) <=> events[m].kind = "buy"
    <3>1. ASSUME NEW k \in 1 .. Len(events), events[k].bar <= i,
                 \A j \in 1 .. Len(events) : events[j].bar <= i => j <= k
          PROVE  k = m
      BY <1>1, <1>2, <2>1, <3>1
    <3>2. \A j \in 1 .. Len(events) : events[j].bar <= i => j <= m
      BY <1>2
    <3>3. QED
      BY <1>1, <2>1, <3>1, <3>2 DEF LongAfter
  <2>3. QED
    BY <2>1, <2>2 DEF BuysAndSells
<1>5. QED
  BY <1>3, <1>4

LEMMA EqualOn ==
  ASSUME NEW w, Fraction(w), NEW p, Fraction(p), NEW x \in Int, NEW y \in Int, NEW z \in Int
  PROVE  /\ Equal(w, p) => Equal(w, Times(p, <<x, x>>))
         /\ Equal(w, Times(p, <<y, x>>)) => Equal(Times(w, <<z, y>>), Times(p, <<z, x>>))
<1>1. PICK a, b, u, v : a = w[1] /\ b = w[2] /\ u = p[1] /\ v = p[2]
  OBVIOUS
<1>2. a \in Int /\ b \in Int /\ u \in Int /\ v \in Int
  BY <1>1 DEF Fraction
<1>3. a * v = u * b => a * (v * x) = (u * x) * b
  <2>1. a * (v * x) = (a * v) * x /\ (u * x) * b = (u * b) * x
    BY <1>2
  <2>2. QED
    BY <2>1
<1>4. a * (v * x) = (u * y) * b => (a * z) * (v * x) = (u * z) * (b * y)
  <2>1. (a * z) * (v * x) = (a * (v * x)) * z /\ (u * z) * (b * y) = ((u * y) * b) * z
    BY <1>2
  <2>2. QED
    BY <2>1
<1>5. QED
  BY <1>1, <1>3, <1>4 DEF Equal, Times

Standing(events, c, p, i, w) ==
  \E k \in 0 .. Len(events) \div 2 :
    \/ TradedBy(events, i, 2 * k) /\ Equal(w, p[k])
    \/ /\ TradedBy(events, i, 2 * k + 1)
       /\ Equal(w, Times(p[k], Growth(c, events[2 * k + 1].bar, i)))

LEMMA StandingOn ==
  ASSUME NEW c, PriceSeries(c), NEW events, Bounded(events, Len(c)), BuysAndSells(events),
         NEW p, ProductOf(p, events, c), NEW i \in 1 .. Len(c) - 1,
         NEW w, Fraction(w), Standing(events, c, p, i, w),
         NEW next, next = IF LongAfter(events, i) THEN Times(w, Growth(c, i, i + 1)) ELSE w
  PROVE  Fraction(next) /\ Standing(events, c, p, i + 1, next)
<1>1. /\ Len(events) \in Nat /\ Len(c) \in Nat /\ i \in Nat
      /\ i \in 1 .. Len(c) /\ i + 1 \in 1 .. Len(c)
  BY LenProperties DEF Bounded, PriceSeries
<1>2. /\ \A k \in 0 .. Len(events) \div 2 - 1 :
           /\ 2 * k + 2 <= Len(events)
           /\ p[k + 1] = Times(p[k], Growth(c, events[2 * k + 1].bar, events[2 * k + 2].bar))
      /\ \A k \in 0 .. Len(events) \div 2 : Fraction(p[k])
  BY ProductSteps
<1>3. PICK g : g = Growth(c, i, i + 1)
  OBVIOUS
<1>4. g = <<c[i + 1], c[i]>> /\ c[i] \in Int /\ c[i + 1] \in Int /\ Fraction(Times(w, g))
  BY <1>1, <1>3, GrowthType
<1>5. PICK k \in 0 .. Len(events) \div 2 :
        \/ TradedBy(events, i, 2 * k) /\ Equal(w, p[k])
        \/ /\ TradedBy(events, i, 2 * k + 1)
           /\ Equal(w, Times(p[k], Growth(c, events[2 * k + 1].bar, i)))
  BY DEF Standing
<1>6. k \in Nat /\ Fraction(p[k])
  BY <1>1, <1>2
<1>7. CASE TradedBy(events, i, 2 * k) /\ Equal(w, p[k])
  <2>1. next = w
    <3>1. (2 * k) % 2 # 1
      BY <1>6, Halves
    <3>2. ~LongAfter(events, i)
      BY <1>1, <1>7, <3>1, LongIs
    <3>3. QED
      BY <3>2
  <2>2. \/ TradedBy(events, i + 1, 2 * k)
        \/ /\ 2 * k + 1 \in 1 .. Len(events) /\ events[2 * k + 1].bar = i + 1
           /\ TradedBy(events, i + 1, 2 * k + 1)
    BY <1>1, <1>7, TradedNext
  <2>3. CASE TradedBy(events, i + 1, 2 * k)
    BY <1>5, <1>7, <2>1, <2>3 DEF Standing
  <2>4. CASE /\ 2 * k + 1 \in 1 .. Len(events) /\ events[2 * k + 1].bar = i + 1
             /\ TradedBy(events, i + 1, 2 * k + 1)
    <3>1. Growth(c, events[2 * k + 1].bar, i + 1) = <<c[i + 1], c[i + 1]>>
      BY <2>4 DEF Growth
    <3>2. Equal(w, Times(p[k], Growth(c, events[2 * k + 1].bar, i + 1)))
      BY <1>4, <1>6, <1>7, <3>1, EqualOn
    <3>3. QED
      BY <1>5, <2>1, <2>4, <3>2 DEF Standing
  <2>5. QED
    BY <2>2, <2>3, <2>4
<1>8. CASE /\ TradedBy(events, i, 2 * k + 1)
           /\ Equal(w, Times(p[k], Growth(c, events[2 * k + 1].bar, i)))
  <2>1. 2 * k + 1 \in 1 .. Len(events)
    BY <1>1, <1>6, <1>8 DEF TradedBy
  <2>2. PICK x, e : x = events[2 * k + 1].bar /\ e = 2 * k + 1
    OBVIOUS
  <2>3. x \in 1 .. Len(c)
    BY <2>1, <2>2 DEF Bounded
  <2>4. next = Times(w, g)
    <3>1. (2 * k + 1) % 2 = 1
      BY <1>6, Halves
    <3>2. LongAfter(events, i)
      BY <1>1, <1>8, <3>1, LongIs
    <3>3. QED
      BY <1>3, <3>2
  <2>5. /\ Growth(c, x, i) = <<c[i], c[x]>> /\ Growth(c, x, i + 1) = <<c[i + 1], c[x]>>
        /\ c[x] \in Int
    BY <1>1, <2>3, GrowthType
  <2>6. Equal(next, Times(p[k], Growth(c, x, i + 1)))
    BY <1>4, <1>6, <1>8, <2>2, <2>4, <2>5, EqualOn
  <2>7. \/ TradedBy(events, i + 1, 2 * k + 1)
        \/ /\ 2 * k + 1 + 1 \in 1 .. Len(events) /\ events[2 * k + 1 + 1].bar = i + 1
           /\ TradedBy(events, i + 1, 2 * k + 1 + 1)
    BY <1>1, <1>8, TradedNext
  <2>8. CASE TradedBy(events, i + 1, 2 * k + 1)
    <3>1. Equal(next, Times(p[k], Growth(c, events[2 * k + 1].bar, i + 1)))
      BY <2>2, <2>6
    <3>2. Standing(events, c, p, i + 1, next)
      BY <1>5, <2>8, <3>1 DEF Standing
    <3>3. QED
      BY <1>4, <2>4, <3>2
  <2>9. CASE /\ 2 * k + 1 + 1 \in 1 .. Len(events) /\ events[2 * k + 1 + 1].bar = i + 1
             /\ TradedBy(events, i + 1, 2 * k + 1 + 1)
    <3>1. 2 * k + 1 + 1 = 2 * k + 2 /\ 2 * (k + 1) = 2 * k + 2
      BY <1>6
    <3>2. k + 1 \in 0 .. Len(events) \div 2 /\ k \in 0 .. Len(events) \div 2 - 1
      <4>1. 2 * (k + 1) <= Len(events) /\ k + 1 \in Nat
        BY <1>1, <1>6, <2>9, <3>1
      <4>2. k + 1 <= Len(events) \div 2 /\ Len(events) \div 2 \in Nat
        BY <1>1, <4>1, Halves
      <4>3. QED
        BY <1>6, <4>2
    <3>3. p[k + 1] = Times(p[k], Growth(c, x, i + 1))
      BY <1>2, <2>2, <2>9, <3>1, <3>2
    <3>4. TradedBy(events, i + 1, 2 * (k + 1)) /\ Equal(next, p[k + 1])
      BY <2>6, <2>9, <3>1, <3>3
    <3>5. PICK j : j = k + 1
      OBVIOUS
    <3>6. /\ j \in 0 .. Len(events) \div 2
          /\ TradedBy(events, i + 1, 2 * j) /\ Equal(next, p[j])
      BY <3>2, <3>4, <3>5
    <3>7. Standing(events, c, p, i + 1, next)
      BY <3>6 DEF Standing
    <3>8. QED
      BY <1>4, <2>4, <3>7
  <2>10. Standing(events, c, p, i + 1, next)
    BY <2>7, <2>8, <2>9
  <2>11. QED
    BY <1>4, <2>4, <2>10
<1>9. QED
  BY <1>5, <1>7, <1>8

LEMMA MoneyFollows ==
  ASSUME NEW c, PriceSeries(c), NEW events, Bounded(events, Len(c)), BuysAndSells(events)
  PROVE  Equal(stratReturn(events, c), Followed(events, c)[Len(c)])
<1>1. PICK n : n = Len(c)
  OBVIOUS
<1>2. /\ Len(events) \in Nat /\ n \in Nat \ {0} /\ DOMAIN c = 1 .. n /\ events \in Seq(TradeRec)
      /\ \A k \in 1 .. Len(events) : events[k].bar \in 1 .. n
  BY <1>1, LenProperties DEF Bounded, PriceSeries
<1>3. PICK p : /\ ProductOf(p, events, c)
               /\ stratReturn(events, c) = WithOpen(events, c, p[Len(events) \div 2])
  BY <1>2, ReturnIs
<1>4. p[0] = <<1, 1>> /\ \A k \in 0 .. Len(events) \div 2 : Fraction(p[k])
  BY <1>3, ProductSteps
<1>5. PICK money : money = Followed(events, c) /\ MoneyOf(money, events, c)
  BY <1>1, <1>2, MoneyIs
<1>6. \A i \in 1 .. n : money[i] = IF i = 1 THEN <<1, 1>>
                                   ELSE IF LongAfter(events, i - 1)
                                          THEN Times(money[i - 1], Growth(c, i - 1, i))
                                   ELSE money[i - 1]
  BY <1>2, <1>5 DEF MoneyOf
<1> DEFINE S == {i \in Nat : Fraction(money[i]) /\ Standing(events, c, p, i, money[i])}
<1>7. 1 \in S
  <2>1. money[1] = <<1, 1>> /\ Fraction(money[1])
    BY <1>2, <1>6 DEF Fraction
  <2>2. TradedBy(events, 0, 0)
    <3>1. \A j \in 0 + 1 .. Len(events) : events[j].bar > 0
      BY <1>2
    <3>2. QED
      BY <1>2, <3>1 DEF TradedBy
  <2>3. \/ TradedBy(events, 0 + 1, 0)
        \/ /\ 0 + 1 \in 1 .. Len(events) /\ events[0 + 1].bar = 0 + 1
           /\ TradedBy(events, 0 + 1, 0 + 1)
    BY <1>1, <1>2, <2>2, TradedNext
  <2>4. 0 \in 0 .. Len(events) \div 2 /\ 2 * 0 = 0 /\ 2 * 0 + 1 = 1 /\ 0 + 1 = 1
    BY <1>2, Halves
  <2>5. Equal(money[1], p[0]) /\ Fraction(p[0])
    BY <1>4, <2>1 DEF Equal, Fraction
  <2>6. CASE TradedBy(events, 1, 0)
    BY <2>1, <2>4, <2>5, <2>6 DEF Standing
  <2>7. CASE events[1].bar = 1 /\ TradedBy(events, 1, 1)
    <3>1. c[1] \in Int
      BY <1>1, <1>2 DEF PriceSeries
    <3>2. Growth(c, events[1].bar, 1) = <<c[1], c[1]>>
      BY <2>7 DEF Growth
    <3>3. Equal(money[1], Times(p[0], Growth(c, events[1].bar, 1)))
      BY <2>1, <2>5, <3>1, <3>2, EqualOn
    <3>4. QED
      BY <2>1, <2>4, <2>7, <3>3 DEF Standing
  <2>8. QED
    BY <2>3, <2>4, <2>6, <2>7
<1>8. ASSUME NEW i \in 1 .. n - 1, i \in S PROVE i + 1 \in S
  <2>1. Fraction(money[i]) /\ Standing(events, c, p, i, money[i])
    BY <1>8
  <2>2. PICK j \in 1 .. n : j = i + 1
    BY <1>2
  <2>3. j # 1 /\ j - 1 = i /\ j \in Nat
    BY <2>2
  <2>4. money[j] = IF LongAfter(events, i) THEN Times(money[i], Growth(c, i, i + 1)) ELSE money[i]
    BY <1>6, <2>2, <2>3
  <2>5. i \in 1 .. Len(c) - 1
    BY <1>1
  <2>6. Fraction(money[j]) /\ Standing(events, c, p, i + 1, money[j])
    BY <1>3, <2>1, <2>4, <2>5, StandingOn
  <2>7. QED
    BY <2>2, <2>3, <2>6
<1> HIDE DEF S
<1>9. 1 .. n \subseteq S
  BY <1>2, <1>7, <1>8, Upward
<1>10. Fraction(money[n]) /\ Standing(events, c, p, n, money[n])
  <2>1. n \in S
    BY <1>2, <1>9
  <2>2. QED
    BY <2>1 DEF S
<1>11. PICK k \in 0 .. Len(events) \div 2 :
         \/ TradedBy(events, n, 2 * k) /\ Equal(money[n], p[k])
         \/ /\ TradedBy(events, n, 2 * k + 1)
            /\ Equal(money[n], Times(p[k], Growth(c, events[2 * k + 1].bar, n)))
  BY <1>10 DEF Standing
<1>12. k \in Nat
  BY <1>2
<1>13. ASSUME NEW m, TradedBy(events, n, m) PROVE m = Len(events)
  <2>1. m \in 0 .. Len(events) /\ \A j \in m + 1 .. Len(events) : events[j].bar > n
    BY <1>13 DEF TradedBy
  <2>2. m # Len(events) => Len(events) \in m + 1 .. Len(events) /\ Len(events) \in 1 .. Len(events)
    BY <1>2, <2>1
  <2>3. Len(events) \in 1 .. Len(events) => ~(events[Len(events)].bar > n)
    BY <1>2
  <2>4. QED
    BY <2>1, <2>2, <2>3
<1>14. \A a, b : Equal(a, b) => Equal(b, a)
  BY DEF Equal
<1>15. CASE TradedBy(events, n, 2 * k) /\ Equal(money[n], p[k])
  <2>1. Len(events) = 2 * k
    BY <1>13, <1>15
  <2>2. Len(events) \div 2 = k /\ Len(events) % 2 # 1
    BY <1>12, <2>1, Halves
  <2>3. stratReturn(events, c) = p[k]
    BY <1>3, <2>2 DEF WithOpen
  <2>4. QED
    BY <1>1, <1>5, <1>14, <1>15, <2>3
<1>16. CASE /\ TradedBy(events, n, 2 * k + 1)
            /\ Equal(money[n], Times(p[k], Growth(c, events[2 * k + 1].bar, n)))
  <2>1. Len(events) = 2 * k + 1
    BY <1>13, <1>16
  <2>2. Len(events) \div 2 = k /\ Len(events) % 2 = 1 /\ Len(events) \in 1 .. Len(events)
    BY <1>2, <1>12, <2>1, Halves
  <2>3. events # <<>> /\ Last(events) = events[Len(events)]
    <3>1. events # <<>>
      BY <1>2, <2>2, EmptySeq, LenProperties
    <3>2. QED
      BY <3>1 DEF Last
  <2>4. Held(events)
    BY <2>2, <2>3 DEF Held, BuysAndSells
  <2>5. stratReturn(events, c) = Times(p[k], Growth(c, events[2 * k + 1].bar, n))
    BY <1>1, <1>3, <2>1, <2>2, <2>3, <2>4 DEF WithOpen
  <2>6. QED
    BY <1>1, <1>5, <1>14, <1>16, <2>5
<1>17. QED
  BY <1>11, <1>15, <1>16
\* What a result reports of its buys and of their correlation.
SampleOf(c, warmup) == warmup + 1 .. Len(c) - ForwardBars
BuysOf(events, c) ==
  {i \in 1 .. Len(c) - ForwardBars : \E e \in Range(events) : e = TradeEvent(i, "buy")}
ForwardReturns(c, bars) == [i \in bars |-> ForwardReturn(c, i)]

LEMMA ResultIs ==
  ASSUME NEW c, PriceSeries(c), NEW events, Bounded(events, Len(c)), NEW warmup \in Nat,
         BuysAfter(events, warmup),
         NEW sample, sample = SampleOf(c, warmup), NEW buys, buys = BuysOf(events, c),
         NEW y, y = ForwardReturns(c, sample),
         NEW result, result = computeResult(events, c, warmup)
  PROVE  /\ buys \subseteq sample /\ result.buys = Cardinality(buys)
         /\ Correlates(result.correlation, sample, buys, y)
         /\ SumFunction([i \in sample |-> ForwardReturn(c, i)]) = SumOver(y, sample)
         /\ SumFunction([i \in buys |-> ForwardReturn(c, i)]) = SumOver(y, buys)
<1> DEFINE n == Len(c)
           bought == {e.bar : e \in {x \in Range(events) : x.kind = "buy"}}
           counted == {i \in bought : HasForward(c, i)}
           xs == [i \in sample |-> IF i \in buys THEN 1 ELSE 0]
<1> USE DEF SampleOf, BuysOf, ForwardReturns
<1>1. /\ Len(events) \in Nat /\ n \in Nat /\ DOMAIN c = 1 .. n /\ ForwardBars \in Nat \ {0}
      /\ \A i \in 1 .. n : c[i] \in Nat \ {0}
      /\ PriceUnit \in Nat \ {0}
  BY LenProperties, BacktestAssumption DEF Bounded, PriceSeries
<1>2. \A k \in 1 .. Len(events) : /\ events[k] \in TradeRec
                                  /\ events[k].bar \in 1 .. n
  BY <1>1, ElementOfSeq DEF Bounded
<1>3. Range(events) = {events[k] : k \in 1 .. Len(events)}
  BY LenProperties DEF Range, Bounded
<1>4. \A e \in Range(events) : e \in TradeRec /\ e.bar \in 1 .. n
  BY <1>2, <1>3
<1>5. \A e \in Range(events) : e.kind = "buy" => e.bar > warmup
  BY <1>3 DEF BuysAfter
<1>6. \A i \in 1 .. n : i \in bought <=> \E e \in Range(events) : e = TradeEvent(i, "buy")
  <2>1. \A e \in TradeRec : \A i : e = TradeEvent(i, "buy") <=> e.bar = i /\ e.kind = "buy"
    BY DEF TradeRec, TradeEvent
  <2>2. QED
    BY <1>4, <2>1
<1>7. bought \subseteq 1 .. n /\ \A i \in bought : i > warmup
  BY <1>4, <1>5
<1> HIDE DEF bought
<1>8. 1 .. n - ForwardBars \subseteq 1 .. n
  BY <1>1
<1>9. counted = buys
  <2>1. \A i \in 1 .. n : HasForward(c, i) <=> i \in 1 .. n - ForwardBars
    BY <1>1 DEF HasForward
  <2>2. QED
    BY <1>6, <1>7, <1>8, <2>1
<1>10. buys \subseteq sample
  BY <1>1, <1>6, <1>7, <1>8
<1>11. sample \subseteq 1 .. n - ForwardBars
  BY <1>1
<1>12. \A i \in sample : i \in bought <=> i \in buys
  BY <1>6, <1>8, <1>11
<1>13. [i \in sample |-> IF i \in bought THEN 1 ELSE 0] = xs
  BY <1>12
<1>14. result.buys = Cardinality(buys) /\ result.correlation = btPearson(xs, y)
  <2>1. /\ result.buys = Cardinality(counted)
        /\ result.correlation
             = btPearson([i \in sample |-> IF i \in bought THEN 1 ELSE 0], y)
    BY DEF computeResult, bought
  <2>2. QED
    BY <1>9, <1>13, <2>1
<1>15. \A i \in sample : y[i] \in Int
  <2>1. \A a, b \in Int : \A d \in Nat \ {0} : ((a - b) * PriceUnit) \div d \in Int
    BY <1>1
  <2>2. ASSUME NEW i \in sample PROVE ForwardReturn(c, i) \in Int
    <3>1. i \in 1 .. n /\ i + ForwardBars \in 1 .. n
      BY <1>1
    <3>2. c[i] \in Int /\ c[i + ForwardBars] \in Int /\ c[i] \in Nat \ {0}
      BY <1>1, <3>1
    <3>3. QED
      BY <2>1, <3>2 DEF ForwardReturn
  <2>3. QED
    BY <2>2
<1>16. IsFiniteSet(sample)
  <2>1. IsFiniteSet(1 .. n) /\ sample \subseteq 1 .. n
    BY <1>1, <1>8, <1>11, FS_Interval
  <2>2. QED
    BY <2>1, FS_Subset
<1>17. /\ SumFunction([i \in sample |-> ForwardReturn(c, i)]) = SumOver(y, sample)
       /\ SumFunction([i \in buys |-> ForwardReturn(c, i)]) = SumOver(y, buys)
  <2>1. [i \in sample |-> y[i]] = [i \in sample |-> ForwardReturn(c, i)]
    OBVIOUS
  <2>2. [i \in buys |-> y[i]] = [i \in buys |-> ForwardReturn(c, i)]
    BY <1>10
  <2>3. QED
    BY <2>1, <2>2 DEF SumOver
<1>18. Correlates(btPearson(xs, y), sample, buys, y)
  <2>1. buys \in SUBSET sample /\ y = [i \in sample |-> y[i]]
    BY <1>10
  <2>2. PICK x : x = xs
    OBVIOUS
  <2>3. x = [i \in sample |-> IF i \in buys THEN 1 ELSE 0]
    BY <2>2
  <2> HIDE DEF xs
  <2>4. Correlates(btPearson(x, y), sample, buys, y)
    BY <1>15, <1>16, <2>1, <2>3, CorrelationSign
  <2>5. QED
    BY <2>2, <2>4
<1>19. QED
  BY <1>10, <1>14, <1>17, <1>18

\* Of every market, a strategy's backtest reports the return of money that follows its
\* position, and a correlation that says whether its buys did better than the average bar.
THEOREM ResultExactHolds == Spec => []ResultExact
<1>1. ASSUME TypeOK PROVE ResultExact
  <2>1. PICK c : c = Prices(market) /\ PriceSeries(c)
    BY <1>1, MarketPrices
  <2>2. PICK w : w = Warmup(strategy)
    OBVIOUS
  <2>3. PICK events : events = Events(strategy, code, c)
    OBVIOUS
  <2>4. Len(c) \in Nat /\ Asked(strategy, code)
    BY <1>1, <2>1 DEF TypeOK, Builtin, PriceSeries, Asked
  <2>5. /\ Bounded(events, Len(c)) /\ BuysAndSells(events)
        /\ BuysAfter(events, w) /\ w \in Nat
    BY <2>2, <2>3, <2>4, EventsBounded, EventsAlternate, EventsAfter
  <2>6. PICK result : result = computeResult(events, c, w)
    OBVIOUS
  <2>7. handleBacktest(strategy, code, c) = result
    BY <2>2, <2>3, <2>6 DEF handleBacktest
  <2>8. result.signals = events /\ result.stratReturn = stratReturn(events, c)
    BY <2>6 DEF computeResult
  <2>9. Equal(result.stratReturn, Followed(events, c)[Len(c)])
    BY <2>1, <2>5, <2>8, MoneyFollows
  <2>10. PICK sample : sample = w + 1 .. Len(c) - ForwardBars
    OBVIOUS
  <2>11. PICK buys : buys = {i \in 1 .. Len(c) - ForwardBars :
                               \E e \in Range(events) : e = TradeEvent(i, "buy")}
    OBVIOUS
  <2>12. PICK y : y = [i \in sample |-> ForwardReturn(c, i)]
    OBVIOUS
  <2>13. /\ buys \subseteq sample /\ result.buys = Cardinality(buys)
         /\ Correlates(result.correlation, sample, buys, y)
         /\ SumFunction([i \in sample |-> ForwardReturn(c, i)]) = SumOver(y, sample)
         /\ SumFunction([i \in buys |-> ForwardReturn(c, i)]) = SumOver(y, buys)
    <3>1. PriceSeries(c) /\ Bounded(events, Len(c)) /\ w \in Nat /\ BuysAfter(events, w)
      BY <2>1, <2>5
    <3>2. sample = SampleOf(c, w) /\ buys = BuysOf(events, c) /\ y = ForwardReturns(c, sample)
      BY <2>10, <2>11, <2>12 DEF SampleOf, BuysOf, ForwardReturns
    <3>3. QED
      BY <2>6, <3>1, <3>2, ResultIs
  <2>14. (\A i, j \in sample : y[i] = y[j])
           <=> \A i, j \in sample : ForwardReturn(c, i) = ForwardReturn(c, j)
    BY <2>12
  <2>15. PICK better :
           better = Cardinality(sample) * SumFunction([i \in buys |-> ForwardReturn(c, i)])
                      - Cardinality(buys) * SumFunction([i \in sample |-> ForwardReturn(c, i)])
    OBVIOUS
  <2>16. IF \/ buys \in {{}, sample}
            \/ \A i, j \in sample : ForwardReturn(c, i) = ForwardReturn(c, j)
           THEN result.correlation = Zero
         ELSE /\ (result.correlation[1] > 0) = (better > 0)
              /\ (result.correlation[1] < 0) = (better < 0)
    BY <2>13, <2>14, <2>15 DEF Correlates
  <2>17. QED
    BY <2>1, <2>2, <2>7, <2>8, <2>9, <2>10, <2>11, <2>13, <2>15, <2>16 DEF ResultExact
<1>2. IInv => TypeOK
  BY DEF IInv, AccountIsReplay
<1>3. QED
  BY <1>1, <1>2, Invariance, PTL
=============================================================================
