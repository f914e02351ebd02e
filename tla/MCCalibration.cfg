CONSTANTS
  Signals = {1, 2, 3}
  VersionOf <- MCVersions
  RegimeOf <- MCRegimes
  GradeOf <- MCGrades
  Workers = {w1, w2}
  MaxTime = 4
  MaxSent = 3
  MaxCycles = 3
SPECIFICATION MCSpec
SYMMETRY Symmetry
INVARIANTS
  EvidenceIsKept
  CountedIsVerified
  PromotionIsPersistent
  MultiplierIsEarned
CHECK_DEADLOCK FALSE
