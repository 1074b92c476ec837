SPECIFICATION SimulationSpec
CONSTANTS
  NIL = NIL
  Id = {1, 2, 3, 4, 5}
  Price = {1, 2, 3, 4}
  MaxShares = 1
  Seeds = 2
  Orders = 3
  Mean = 2
  Threshold = 2
  Period = 2
  SnapshotDepth = 1
  UpdateDepth = 3
  BestLevelsOnly = FALSE
  Ticket = 2
  Levels = 1
  LastTrades = 1
INVARIANTS SimulationTypeOK NextIdIsFresh StatsMatchOrders TradesReportedOnce
PROPERTY ShownBookIsCurrent
CHECK_DEADLOCK FALSE
