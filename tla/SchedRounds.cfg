CONSTANTS
  Firings = {f1, f2}
  Subscribers = {ann, bob}
  EventCapacity = 1
  QueueCapacity = 1
SPECIFICATION FairSpec
INVARIANTS TypeOK NoPanicWhileServing
PROPERTIES KeepsPromise NoTaskAfterTheWait FiringsArrive TasksAttempted ShutdownEnds
