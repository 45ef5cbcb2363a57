CONSTANTS
  m1 = m1
  m2 = m2
  m3 = m3
  m4 = m4
  i1 = i1
  i2 = i2
  Messages = {m1, m2, m3}
  Ids = {i1, i2}
  NoId = NoId
  Id <- TwoCopies
  Sendable = {m1, m2, m3}
  Consumers = {c1, c2}
  NoMessage = NoMessage
  BreakerLimit = 2
  MaxRefusals = 2
  MaxEvictions = 1
  MaxFaults = 0
  SentCap = 2
SPECIFICATION FairSpec
CHECK_DEADLOCK FALSE
PROPERTIES KeepsPromise BreakersKeepTheirModes Drains
