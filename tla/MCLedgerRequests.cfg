CONSTANTS
  Portfolios = {p1}
  Requests = {r1, r2}
  Orders = {o1}
  Positions = {b1}
  Deals = {d1}
  Events = {}
  Risks = {1}
  Stops = {}
  MaxHeat = 1
  NoRef = NoRef
SPECIFICATION Spec
SYMMETRY Symmetry
INVARIANTS
  TypeOK
  LiveRequestHoldsRisk
  BrokerStatesAreBacked
  UnbackedHeatBounded
