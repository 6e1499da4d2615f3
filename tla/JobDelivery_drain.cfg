\* Two jobs, the first malformed, and one connection; no symmetry, as one of
\* the properties is a liveness property.
SPECIFICATION FairSpec
CONSTANTS
  NJobs = 2
  Malformed = {1}
  Conns = {c1}
  Goroutines = {g1}
  Outcomes = {"failed"}
  MaxTTL = 1
  MaxTime = 2
  AgentSkew = 0
  MaxRestarts = 0
  NoConn = NoConn
CHECK_DEADLOCK FALSE
INVARIANT
  NoMissedJob
PROPERTY
  EveryJobEnds
