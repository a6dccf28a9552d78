CONSTANTS
  oneMinute = oneMinute
  fiveMinutes = fiveMinutes
  Charts = {oneMinute, fiveMinutes}
  FirstChart = oneMinute
  NoTf = NoTf
  Published = {oneMinute}
  MaxVersion = 2
  MaxFaults = 1
  MaxFrames = 1
SPECIFICATION FairSpec
INVARIANTS
  SubscriptionsAgree
PROPERTIES
  SlotsNeverGoBack
  UpdatesArrive
  ChartRecovers
CHECK_DEADLOCK FALSE
