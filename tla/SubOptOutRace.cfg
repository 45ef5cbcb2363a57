CONSTANTS
  Emails = {ann}
  Cities = {kyiv}
  Frequencies = {"daily", "hourly"}
  Requests = {r1, r2, r3, r4}
  MaxInFlight = 3
  TokenLifetime = 1
  TicksPerHour = 2
  MaxTime = 2
  NoRow = NoRow
  NoCall = NoCall
SPECIFICATION Spec
SYMMETRY RequestSymmetry
PROPERTY UnsubscribedStaysOut
