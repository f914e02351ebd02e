CONSTANTS
  Portfolios = {p1, p2}
  Requests = {r1, r2}
  Orders = {o1}
  Positions = {b1}
  Deals = {}
  Events = {e1}
  Risks = {1}
  Stops = {1, 2}
  MaxHeat = 1
  NoRef = NoRef
SPECIFICATION Spec
SYMMETRY Symmetry
PROPERTIES
  RiskRisesOnlyByObservation
  FinalOutcomesStay
  KeepsRiskBook
