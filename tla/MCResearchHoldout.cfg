CONSTANTS
  Positions = {1, 2}
  Horizon = 4
  HoldoutStart = 2
  HoldoutEnd = 3
  MaturityEnd = 4
  Folds = 2
  Months = {1, 2}
  Locks = {l1, l2}
  Runners = {w1, w2}
  MaxRuns = 3
SPECIFICATION MCSpec
SYMMETRY Symmetry
INVARIANTS
  ScoredOnce
  GuardedToolsAreBlind
  FoldsLookBack
CHECK_DEADLOCK FALSE
