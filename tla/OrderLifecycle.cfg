CONSTANTS
  o1 = o1
  None = None
  Orders = {o1}
  Lots = 3
  Reconcilers = {"loop"}
  Others = {"rest", "engine", "sync"}
  Requests = {"cancel", "close", "patch", "trailing"}
  ManualKinds = {"market"}
  AutoKinds = {"limit"}
  MaxBars = 1
  MaxRequests = 1
  MaxFaults = 1
  MaxCrashes = 1
SPECIFICATION Spec
INVARIANTS
  PlacedOnce
  
  
PROPERTIES
  FillNotMissed
  Settles
CHECK_DEADLOCK FALSE
