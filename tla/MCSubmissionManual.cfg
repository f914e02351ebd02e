SPECIFICATION MCSpec
CONSTANTS
  Decisions = {d1, d2}
  MaxHeat = 2
  MaxLate = 0
  NoRef = NoRef
INVARIANT EntriesOnlyWhileHealthy
