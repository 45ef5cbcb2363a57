CONSTANTS
  Emails = {ann, bob}
  Cities = {kyiv}
  Frequencies = {"hourly"}
  Requests = {r1, r2, r3, r4}
  MaxInFlight = 1
  TokenLifetime = 1
  TicksPerHour = 2
  MaxTime = 1
  NoRow = NoRow
  NoCall = NoCall
SPECIFICATION Spec
SYMMETRY RequestSymmetry
INVARIANT LinksActOnAddressee
PROPERTIES ImplementsLifecycle AnswersMatchTheRow
