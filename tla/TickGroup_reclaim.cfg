SPECIFICATION FairSpec
CONSTANTS
  Worker = {w1, w2}
  NoWorker = NoWorker
  MaxTick = 1
  BatchSize = 2
  MaxLen = 2
  MaxAlert = 0
  Sends = 2
  Faults = {"crash"}
PROPERTY AbandonedAreReclaimed
