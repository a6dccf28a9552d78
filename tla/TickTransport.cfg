CONSTANTS
  trades = trades
  Streams = {trades}
  Capacity = 2
  MaxSequence = 3
  MaxConnections = 4
  MaxBackendRestarts = 1
  MaxRecordFailures = 1
SPECIFICATION FairSpec
INVARIANTS
  OnlyLeaseHolderDispatches
  LossesReported
  GapsAnnounced
PROPERTIES
  
  PipelineDrains
CHECK_DEADLOCK FALSE
