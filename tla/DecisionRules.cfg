\* Two rules of any of the shapes, every status and every read.
CONSTANTS
  f1 = f1
  f2 = f2
  NoRule = NoRule
  Absent = Absent
  Unresolvable = Unresolvable
  RuleId = {1, 2}
  Shape <- AnyShape
  Feature = {f1, f2}
  Value = {0, 1}
  Flow <- Instants
  FlowAt <- EachInstant
  FlowWindow = 2
SPECIFICATION Spec
INVARIANTS
  PreventionEarned
  ScoreExplained
PROPERTIES
  MissingMitigatorNeverPrevents
  ShadowMovesTheCeilingOnly
  PromotionAsPreviewed
