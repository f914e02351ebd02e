CONSTANTS
  o1 = o1
  o2 = o2
  Orders = {o1, o2}
  Workers = {w1, w2}
  Slices <- SplitOnce
  Quantity = 2
  Prices = {1, 2}
  Limit = 3
  MaxFaults = 1
  MaxCalls = 2
  None = None
SPECIFICATION Spec
SYMMETRY Processes
INVARIANTS
  SentOnce
  AdmissionIsBounded
  BrokerOrdersAreAccounted
  ParentsAgree
  DealsAreCounted
CHECK_DEADLOCK FALSE
