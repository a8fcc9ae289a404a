SPECIFICATION Spec
CONSTANTS
  MaxTrade = 3
  MaxDial = 2
  MaxOdd = 0
  ChannelSize = 2
  MaxBackoff = 2
  Sends = 2
  Faults = {"sigint"}
CHECK_DEADLOCK FALSE
INVARIANT DrainedAtStop
