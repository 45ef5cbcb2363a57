CONSTANTS
  kyiv = kyiv
  Kyiv = Kyiv
  Requests = {r1, r2}
  Spellings = {kyiv, Kyiv}
  City <- CityOf
  Depth = 2
  Kind <- Order
  ReportTTL <- Times
  NotFoundTTL = 1
  Patience = 1
SPECIFICATION Spec
CHECK_DEADLOCK FALSE
SYMMETRY RequestSymmetry
INVARIANTS TypeOK ReportsAreRecent NotFoundIsFounded NothingLeftToAsk
PROPERTY AlwaysForward
