SPECIFICATION FairSpec
CONSTANTS
  Session = {s1}
  Custom = {s1}
  Page = {p1}
  Free = Free
  ChanSize = 3
  MaxDrop = 2
  Faults = {"fetch", "empty"}
CHECK_DEADLOCK FALSE
INVARIANTS
  SnapshotsAreWhole
  GhostsExplained
PROPERTIES
  RequestsEnd
  StoppedSessionEnds
  RunningIsShown
