SPECIFICATION Spec
CONSTANTS
  Symbol = {"btc"}
  Pairs <- NoPair
  Trade <- SteadyTrades
  MaxTick = 8
  NoPrice = NoPrice
  Never = Never
  ShortCap = 100
  LongCap = 100
  ShortWindow = 1
  LongWindow = 60
  Multiplier = 3
  SpikeHistory = 5
  SpikeCooldown = 1
  FlowCap = 100
  FlowWindow = 1
  Upper = 65
  Lower = 35
  MinTicks = 10
  FlowHistory = 1
  FlowCooldown = 1
  ReturnCap = 1
  ShortSamples = 720
  MinSamples = 30
  MinBaseline = 50
  Drop = 40
  SampleInterval = 1
  CorrHistory = 10
  CorrCooldown = 5
CHECK_DEADLOCK FALSE
INVARIANT SteadyFlowIsNoSpike
