\* Two connections and seven instants of the clock.
CONSTANTS
  t1 = t1
  t2 = t2
  t3 = t3
  s1 = s1
  s2 = s2
  Charge = {t1, t2, t3}
  At <- OccurredAt
  Session = {s1, s2}
  Lag = 2
  MaxClock = 7
  NoCharge = NoCharge
SYMMETRY Symmetries
SPECIFICATION TrialSpec
INVARIANTS
  NoLookahead
  PresumptionRepaired
PROPERTIES
  ReplayFrozen
  TriedChargeIsDecided
CHECK_DEADLOCK FALSE
