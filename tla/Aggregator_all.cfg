SPECIFICATION FairSpec
CONSTANTS
  Source = {s1}
  MaxAlert = 3
  MaxTime = 3
  MaxLag = 1
  Window = 1
  Interval = 2
  BatchSize = 2
  MaxLen = 2
  Faults = {"stop", "publishfail", "garbled"}
INVARIANTS
  SweptClean
  SuppressedForOriginal
  ReadsEachOnce
PROPERTIES GapBetweenAdmissions EveryAlertDecided
