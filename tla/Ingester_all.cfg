SPECIFICATION FairSpec
CONSTANTS
  MaxTrade = 2
  MaxDial = 2
  MaxOdd = 1
  ChannelSize = 1
  MaxBackoff = 3
  Sends = 2
  Faults = {"sigint", "network", "redis"}
CHECK_DEADLOCK FALSE
INVARIANTS
  InOrder
  ClosedAfterLastSend
PROPERTIES
  AcceptedIsStored
  SignalStops
