\* Two administrators and a lane run over one rule.
CONSTANTS
  r1 = r1
  a1 = a1
  a2 = a2
  risk = risk
  trust = trust
  known = known
  Rule = {r1}
  Admin = {a1, a2}
  Evaluator = {"e1"}
  Draft <- Drafts
  Absent = Absent
  Nobody = Nobody
  PlannableSubject = {"transaction"}
  ExecutionMode = {"inline_sync", "async_scheduled"}
  Action = {"allow", "alert", "block"}
  Preventive = {"block"}
  ActiveFeature = {risk, trust, known}
  InlineCapable = {risk, trust, known}
  HasDefault = {known}
  SeededFields <- Plain
  SeededConditions <- SeededRisk
  MaxEdits = 2
  MaxRecorded = 1
SYMMETRY Admins
SPECIFICATION Spec
INVARIANTS
  VersionNamesDefinition
  RecordedResolves
  ShadowFirst
CHECK_DEADLOCK FALSE
