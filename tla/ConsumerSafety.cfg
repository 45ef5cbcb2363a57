CONSTANTS
  m1 = m1
  m2 = m2
  m3 = m3
  m4 = m4
  i1 = i1
  i2 = i2
  Messages = {m1, m2, m3, m4}
  Ids = {i1, i2}
  NoId = NoId
  Id <- OneOfEach
  Sendable = {m1, m2}
  Consumers = {c1, c2}
  NoMessage = NoMessage
  BreakerLimit = 2
  MaxRefusals = 2
  MaxEvictions = 1
  MaxFaults = 1
  SentCap = 3
SPECIFICATION Spec
SYMMETRY ConsumerSymmetry
CHECK_DEADLOCK FALSE
INVARIANTS TypeOK OneIdPerFault ResendsNeedFaults OneWorkerPerId BreakerGuards
