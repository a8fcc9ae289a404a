SPECIFICATION Spec
CONSTANTS
  Source = {s1}
  MaxAlert = 3
  MaxTime = 1
  MaxLag = 1
  Window = 2
  Interval = 10
  BatchSize = 2
  MaxLen = 3
  Faults = {"publishfail"}
INVARIANT SuppressedForForwarded
