SPECIFICATION FuelSpec
CONSTANTS
  Vehicles <- OneVehicle
  FirstOpen = 2
  LastMonth = 3
  Amounts <- UpToOne
  HistoricDeficit = 0
  Largest = 1
  MaxLoads = 3
  Readings <- UpToTwo
  NF = NF
  NoRow = NoRow
  NoPool = NoPool
CONSTRAINT NoPools MoneyOrReadout
INVARIANTS PendingKeepsPeriodOpen OdometerCoversApproved
PROPERTY SpendingFollowsLoads
