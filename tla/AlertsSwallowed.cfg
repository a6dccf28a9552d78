SPECIFICATION WatchSpec
CONSTANTS
  Alerts = {a1}
  Types = {"supertrend"}
  MaxBars = 2
  MaxDisturbances = 0
  MaxSwitches = 1
PROPERTIES ConditionsEmit
CHECK_DEADLOCK FALSE
