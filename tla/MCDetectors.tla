----------------------------- MODULE MCDetectors -----------------------------
(***************************************************************************)
(* Small instances of Detectors for TLC.                                   *)
(***************************************************************************)
EXTENDS Detectors

T(symbol, volume, side, price, gap) ==
  [symbol |-> symbol, volume |-> volume, side |-> side, price |-> price, gap |-> gap]

\* Two symbols that move, a heavy and a light trade, both sides and none, a price that did
\* not parse, and ticks that come late or at the same moment.
MixedTrades ==
  {T("btc", 1, "buy", 0, 1), T("btc", 5, "sell", 2, 1), T("btc", 5, "sell", 2, -1),
   T("eth", 2, "sell", 1, 1), T("eth", 2, "sell", 1, -1), T("eth", 1, "", 0, 1),
   T("eth", 1, "buy", NoPrice, 0)}

OnePair == {<<"btc", "eth">>}
NoPair == {}

\* One trade a minute, always the same.
SteadyTrades == {T("btc", 1, "buy", 0, 1)}
=============================================================================
