SPECIFICATION FairSpec
CONSTANTS
  Client = {c1}
  MaxEntry <- SmallEntry
  MaxLen <- SmallLen
  MaxSession = 1
  MaxVisit = 1
  ChanSize = 2
  BatchSize = 2
  Faults = {"replylost", "leave"}
CHECK_DEADLOCK FALSE
INVARIANTS
  OffersReachOpenChannels
  EventsAccountedFor
  SkipsOnlyTrimmed
PROPERTIES
  AnchoredIsBroadcast
  HubNeverStalls
