CONSTANTS
  o1 = o1
  None = None
  Orders = {o1}
  Lots = 4
  Reconcilers = {"loop"}
  Others = {"rest", "engine"}
  Requests = {}
  ManualKinds = {"market"}
  AutoKinds = {}
  MaxBars = 0
  MaxRequests = 0
  MaxFaults = 0
  MaxCrashes = 1
SPECIFICATION Spec
INVARIANTS
  HalfTakenOnce
CHECK_DEADLOCK FALSE
