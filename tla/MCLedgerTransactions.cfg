CONSTANTS
  Portfolios = {p1}
  Requests = {r1, r2}
  Orders = {}
  Positions = {b1}
  Deals = {d1}
  Events = {}
  Risks = {1, 2}
  Stops = {}
  MaxHeat = 2
  NoRef = NoRef
  Sessions = {c1, c2}
  Reports = {"CANCELLED"}
SPECIFICATION TxSpec
SYMMETRY Symmetry
INVARIANTS
  OnlySweepsDeadlock
PROPERTIES
  AtomicHandlers
