SPECIFICATION MCSpec
CONSTANTS
  Decisions = {d1}
  MaxHeat = 1
  MaxLate = 0
  NoRef = NoRef
INVARIANT RestartRepairs
