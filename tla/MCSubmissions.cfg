SPECIFICATION MCFairSpec
CONSTANTS
  Decisions = {d1, d2}
  MaxHeat = 1
  MaxLate = 1
  NoRef = NoRef
INVARIANTS
  IntentIsDurable
  ExposureIsHeld
  ExposureIsBounded
  AgreesWhenHealthy
  OpenIsFilledWhenHealthy
PROPERTY AdmissionReturns
