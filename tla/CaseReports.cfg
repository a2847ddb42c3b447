SPECIFICATION ReportsSpec
CONSTANTS
  Score <- MCScore
  Delay <- MCDelay
  AnalystVerdict <- MCAnalystVerdict
  Window = 1
  MaxDecisions = 2
  MaxOutcomes = 2
  MaxClock = 1
CHECK_DEADLOCK FALSE
INVARIANTS
  ServedExplainsItself
  TilesHoldTogether
PROPERTY
  QueueLeftByPeopleOnly
