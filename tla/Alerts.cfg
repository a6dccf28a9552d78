SPECIFICATION Spec
CONSTANTS
  Alerts = {a1}
  Types = {"gate", "supertrend", "mgann"}
  MaxBars = 2
  MaxDisturbances = 2
  MaxSwitches = 2
INVARIANTS
  OneShotFires
  OncePerBar
  EngineMatchesStore
  StatesWithinContract
PROPERTIES
  MgannRecovered
CHECK_DEADLOCK FALSE
