SPECIFICATION OpsSpec
CONSTANTS
  Window = 2
  MaxWrites = 1
  MaxSchema = 2
  MaxTroubles = 1
  Checks = {c1, c2}
  Cooldown = 3
  Roster <- ThreeWorkers
  MaxOpen = 2
  LastPhoto = 3
  Broken = {1}
  PageSize = 2
  Attempts = 2
  MaxStops = 2
INVARIANTS BundleIsOfOneMoment
CHECK_DEADLOCK FALSE
