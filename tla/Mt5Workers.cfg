CONSTANTS
  alice = alice
  bob = bob
  carol = carol
  here = here
  there = there
  east = east
  west = west
  None = None
  Sessions = {"rest", "loop"}
  Bindings <- MCBindings
  Default = east
  MaxWorkers = 2
  MaxProcesses = 2
  MaxCalls = 2
  MaxFaults = 1
SPECIFICATION Spec
INVARIANTS
  TerminalsExclusive
  ConnectedOrdersReachTheirAccount
PROPERTIES
  
  SessionsEnd
CHECK_DEADLOCK FALSE
