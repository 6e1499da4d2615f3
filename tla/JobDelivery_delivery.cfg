\* One job, every fault: two connections, two goroutines, one restart.
SPECIFICATION Spec
CONSTANTS
  Malformed = {}
  NJobs = 1
  Conns = {c1, c2}
  Goroutines = {g1, g2}
  Outcomes = {"succeeded"}
  MaxTTL = 1
  MaxTime = 2
  AgentSkew = 0
  MaxRestarts = 1
  NoConn = NoConn
SYMMETRY Symmetry
CHECK_DEADLOCK FALSE
INVARIANTS
  TypeOK
  OutputAgrees
  OutcomeReported
  Provenance
  NoMissedJob
PROPERTIES
  TerminalIsFinal
  NoRerunAfterDurable
  ImplementsLifecycle
