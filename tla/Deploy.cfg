CONSTANTS
  Requests = {r1}
  MaxTroubles = 1
SPECIFICATION FairSpec
CHECK_DEADLOCK FALSE
INVARIANTS TypeOK AnswersAreTrue ExchangeBeforeMail HandlersKeepBroker
PROPERTIES DroppedOnlyBeforeSetup EventuallyServing EveryRequestEnds
