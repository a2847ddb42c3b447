\* Out-of-order events against two rule sets on one subject.
CONSTANTS
  s1 = s1
  s2 = s2
  s3 = s3
  r1 = r1
  r2 = r2
  t1 = t1
  NoRules = NoRules
  NoPolicy = NoPolicy
  Subject = {s1, s2, s3}
  RuleSet = {r1, r2}
  Score = {1, 2}
  Time = {0, 1, 2}
  Policy <- EveryPolicy
  Action = {"allow"}
  Preventive = {}
  Channelled = {"challenge", "notify"}
  Trigger = {t1}
  HasCard = {}
  Fraud = {}
  AnalystVerdict = {}
  InOrder = FALSE
  MaxDecisions = 3
SPECIFICATION Spec
INVARIANTS
  WorstViewShown
  EvidenceCounted
