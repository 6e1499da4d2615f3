SPECIFICATION FairSpec
CONSTANTS
  d1 = d1  c1 = c1  t1 = t1
  Null = Null
  FreshFor = 5
  NIds = 4
  NPolicies = 2
  Channels = {c1}
  Devices = {d1}
  Place <- MCPlace
  Bodies <- MCBodies
  Telemetry <- MCTelemetry
  Workers = {w1, w2}
  MaxEdits = 2
  MaxFaults = 0
CHECK_DEADLOCK FALSE
INVARIANTS
  AlertInv
  NoticesPair
  MergeIsRight
PROPERTIES
  AlertsSettle
