SPECIFICATION FairSpec
CONSTANTS
  Worker = {w1, w2}
  NoWorker = NoWorker
  MaxTick = 2
  BatchSize = 2
  MaxLen = 1
  MaxAlert = 0
  Sends = 2
  Faults = {"crash", "sigint", "ackfail", "replylost"}
PROPERTIES
  EveryTickSettles
  InterruptedWorkerExits
