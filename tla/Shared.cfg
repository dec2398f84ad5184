SPECIFICATION SharedSpec
CONSTANTS
  Transactions = {t1, t2, t3}
  FleetSize = 2
  LastPeriod = 2
  Targets <- ToAll
  Corrections <- FirstToLast
  e1 = e1
  e2 = e2
  p1 = p1
  p2 = p2
  x1 = x1
  EconomicNumbers = {e1, e2}
  Plates = {p1, p2}
  Vins = {x1}
  Missing = Missing
  Files <- TwoRows
  Registries <- TwoVehicles
  MaxChanges = 1
  Tanks = {1}
  NoTank = NoTank
  MaxFillings = 2
  MaxTokens = 2
  MaxPosts = 3
SYMMETRY Interchangeable
INVARIANTS OnlyKnownInterlocks OneCapturePerForm
PROPERTY EditsSurvive
CHECK_DEADLOCK FALSE
