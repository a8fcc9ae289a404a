SPECIFICATION Spec
CONSTANTS
  Worker = {w1, w2}
  NoWorker = NoWorker
  MaxTick = 2
  BatchSize = 2
  MaxLen = 1
  MaxAlert = 2
  Sends = 2
  Faults = {"crash", "sigint", "ackfail", "replylost", "wipe"}
SYMMETRY Symmetry
INVARIANTS
  AtMostOnce
  OneHolder
  AckAfterHandled
  StrandedOnlyByFault
  NothingForgotten
  AlertsAccountedFor
  IInv
PROPERTIES
  DeliveryInOrder
  ImplementsLifecycle
