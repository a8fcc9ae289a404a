SPECIFICATION Spec
CONSTANTS
  Symbol = {"btc", "eth"}
  Pairs <- OnePair
  Trade <- MixedTrades
  MaxTick = 6
  NoPrice = NoPrice
  Never = Never
  ShortCap = 2
  LongCap = 3
  ShortWindow = 1
  LongWindow = 3
  Multiplier = 2
  SpikeHistory = 1
  SpikeCooldown = 1
  FlowCap = 2
  FlowWindow = 2
  Upper = 65
  Lower = 35
  MinTicks = 2
  FlowHistory = 1
  FlowCooldown = 1
  ReturnCap = 3
  ShortSamples = 1
  MinSamples = 2
  MinBaseline = 50
  Drop = 40
  SampleInterval = 1
  CorrHistory = 2
  CorrCooldown = 3
CHECK_DEADLOCK FALSE
INVARIANTS
  WindowsExact
  SamplesTile
  PearsonExact
