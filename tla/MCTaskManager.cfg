CONSTANTS
  Scenarios <- MCScenarios
  RetransmitTries = 1
  ProbingTries = 1
  MaxRetries = 2
  MaxMid = 5
  MaxSas = 2
SPECIFICATION Spec
INVARIANTS ExchangeSound IdsAgree SetupAgrees
PROPERTIES AtMostOnce ExchangesEnd
CHECK_DEADLOCK FALSE
