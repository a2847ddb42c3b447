CONSTANTS
  s1 = s1
  s2 = s2
  NoRule = NoRule
  Absent = Absent
  Unlabelled = Unlabelled
  Undecided = Undecided
  RuleId = {1, 2}
  Definition <- MCDefinition
  Drafts <- MCDrafts
  Subject = {s1, s2}
  Evidence <- MCEvidence
  Label <- MCLabel
  Engine <- MCEngine
  Caps = {1, 2}
  Limits = {0, 1}
SPECIFICATION Spec
INVARIANTS
  TriedIsWhatRuns
  ReportNarrows
  DiffIsTheMove
