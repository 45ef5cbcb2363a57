CONSTANTS
  m1 = m1
  m2 = m2
  m3 = m3
  m4 = m4
  i1 = i1
  i2 = i2
  Messages = {m1, m2}
  Ids = {i1, i2}
  NoId = NoId
  Id <- OnePair
  Sendable = {m1, m2}
  Consumers = {c1}
  NoMessage = NoMessage
  BreakerLimit = 2
  MaxRefusals = 0
  MaxEvictions = 0
  MaxFaults = 1
  SentCap = 2
SPECIFICATION Spec
CHECK_DEADLOCK FALSE
INVARIANT ReliableDelivery
