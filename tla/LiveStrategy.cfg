SPECIFICATION Spec
CONSTANTS
  Fast = 2
  Slow = 3
  Period = 2
  Oversold = 30
  Overbought = 70
  BandPeriod = 3
  StdDevs = 1
  Lookback = 2
  HoldBars = 2
  ForwardBars = 1
  PriceUnit = 4
  Level = {0, 1, 2}
  FirstBars = 3
  MaxBar = 6
  MaxTime = 3
  Window = 5
  MaxCurve = 2
  Nothing = Nothing
CHECK_DEADLOCK FALSE
INVARIANTS
  AccountIsReplay
  CurveTellsTheTrades
  ResultExact
  IndicatorsExact
  PresetsAgree
PROPERTIES
  LiveFollowsBacktest
  NoLookahead
