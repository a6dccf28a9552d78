CONSTANTS
  Minutes <- MCMinutes
  Timeframes <- MCTimeframes
  MaxQueue = 4
  MaxTrades = 4
  MaxFaults = 1
SPECIFICATION Spec
INVARIANTS
  ClosedBarsComplete
  FinalOrderFlow
  QuietChartIsExact
CHECK_DEADLOCK FALSE
