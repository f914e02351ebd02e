CONSTANTS
  w1 = w1
  w2 = w2
  c1 = c1
  c2 = c2
  Signals = {s1}
  TradeEvents = {e1}
  Workers = {w1, w2}
  Calls = {c1, c2}
  NoItem = NoItem
  RequireFingerprint = TRUE
  MAX_ATTEMPTS = 2
  RetryLimit = 5
  Updates = {"valid", "invalidated"}
  MaxMessages = 2
SPECIFICATION MCFairSpec
INVARIANTS
  OnlyQueuedIsPosted
  ActiveWasPosted
  AcceptedIsRecoverable
PROPERTIES
  DeliveredStays
  OutboxSettles
