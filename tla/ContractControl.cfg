CONSTANTS
  old = old
  new = new
  far = far
  NoContract = NoContract
  Contracts = {old, new, far}
  Candidates = {old, new, far}
  Instruments = {old, new}
  InitialSource = new
  StartContract = old
  ManualOverride = NoContract
  MaxConnections = 2
  MaxPins = 1
  MaxBacklog = 2
  MaxLateTasks = 0
SPECIFICATION LiquidSpec
INVARIANTS
  HandlersFollowSubscriptions
  OneSourceFeeds
  BelievedSubscribed
  FeedNeverEmpty
PROPERTIES
  ChartSourceServed
  LostConnectionReopened
CHECK_DEADLOCK FALSE
