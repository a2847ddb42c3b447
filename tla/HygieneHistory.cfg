\* Events in order: cases, their executions, verdicts and settlement.
CONSTANTS
  s1 = s1
  s2 = s2
  s3 = s3
  r1 = r1
  r2 = r2
  t1 = t1
  NoRules = NoRules
  NoPolicy = NoPolicy
  Subject = {s1}
  RuleSet = {r1, r2}
  Score = {1, 2}
  Time = {0, 1, 2}
  Policy <- WithPolicy
  Action = {"allow", "challenge"}
  Preventive = {"challenge"}
  Channelled = {"challenge", "notify"}
  Trigger = {t1}
  HasCard = {t1}
  Fraud = {}
  AnalystVerdict = {"inconclusive"}
  InOrder = TRUE
  MaxDecisions = 3
SPECIFICATION Spec
INVARIANTS
  OneCasePerSituation
  OneStepUpPerCase
  StepUpHistory
PROPERTIES
  ImplementsCaseService
