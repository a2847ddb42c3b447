\* Three lane runs or authorisations at once, beside two settlers.
CONSTANTS
  q1 = q1
  q2 = q2
  q3 = q3
  a1 = a1
  a2 = a2
  u1 = u1
  u2 = u2
  Run = {q1, q2, q3}
  Settler = {a1, a2}
  Key = {1, 2, 3}
  SubjectOf <- Subjects
  Score = {1, 2}
  Batch <- Batches
  ChunkSize = 1
SYMMETRY Interchangeable
SPECIFICATION Spec
INVARIANTS
  CaseSurvivesRaces
  DuplicatesOnlyRaced
  SettledTwiceOnlyRaced
  CirclesNeedForeignKeys
CHECK_DEADLOCK FALSE
