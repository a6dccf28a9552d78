CONSTANTS
  alice = alice
  bob = bob
  carol = carol
  here = here
  there = there
  east = east
  west = west
  None = None
  Sessions = {"rest", "loop"}
  Bindings <- MCTwoBindings
  Default = east
  MaxWorkers = 2
  MaxProcesses = 3
  MaxCalls = 3
  MaxFaults = 0
SPECIFICATION Spec
INVARIANTS
  OrdersReachTheirAccount
CHECK_DEADLOCK FALSE
