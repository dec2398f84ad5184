SPECIFICATION LedgerSpec
CONSTANTS
  Vehicles <- TwoVehicles
  FirstOpen = 2
  LastMonth = 4
  Amounts <- UpToOne
  HistoricDeficit = 1
  Largest = 2
  NoRow = NoRow
  NoPool = NoPool
  Periods = {1, 2}
  Units = {1}
  Found = {1}
  NoRead = NoRead
  MaxWrites = 1
CONSTRAINT SmallAmounts FleetOrCalendar
INVARIANTS NoOverspend PoolCovers RolloverExact WrittenWhereShown
PROPERTY ClosedRowsFrozen
