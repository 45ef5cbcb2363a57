CONSTANTS
  Firings = {f1}
  Subscribers = {ann}
  EventCapacity = 1
  QueueCapacity = 1
SPECIFICATION Spec
INVARIANT NoPanic
