SPECIFICATION FairSpec
CONSTANTS
  Schedules = {s1, s2}
  Scripts = {x1}
  Crons = {1, 2}
  Workers = {w1, w2}
  Requests = {r1}
  Claims = 2
  MaxBehind = 1
  MaxAhead = 0
  MaxTime = 2
  MaxFaults = 1
  MaxSaves = 2
  None = None
CHECK_DEADLOCK FALSE
INVARIANTS
  ScheduleInv
PROPERTIES
  FiresAsSaved
  
  
