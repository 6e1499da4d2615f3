SPECIFICATION FairSpec
CONSTANTS
  Malformed = {}
  NJobs = 1
  Conns = {c1, c2}
  Goroutines = {g1, g2}
  Outcomes = {"succeeded"}
  MaxTTL = 1
  MaxTime = 2
  AgentSkew = 0
  MaxRestarts = 0
  NoConn = NoConn
CHECK_DEADLOCK FALSE
INVARIANT
  RunAtMostOnce
