CONSTANTS
  first = first
  better = better
  leaky = leaky
  best = best
  thin = thin
  rival = rival
  N = 4
  Runs = {first, better, best, leaky, thin, rival}
  ReportOf <- ReportOfRun
  TestedIn <- TestedInRun
  Calls = {p1, p2}
  MaxPromos = 2
  MaxReports = 1
  Founders = 2
  MIN_OOS_TRADES = 1
  MIN_FOLD_TRAIN_TRADES = 1
  MIN_FOLD_VALIDATION_TRADES = 1
  MIN_WALK_FORWARD_FOLDS = 1
  MIN_PARAMETER_NEIGHBORS = 1
  MaxOosDegradation = 35
  MaxNeighborDeviation = 10
  MinScoreDelta = 10
  MaxPolicyOos = 35
  MaxPolicyParameter = 10
  RequirePValue = TRUE
SPECIFICATION MCSpec
SYMMETRY Symmetry
INVARIANTS
  OnlyAcknowledgedRuns
  PromotionIsEarned
  ApprovedStaysOffered
  RollbacksEnd
  OfferIsAnswered
