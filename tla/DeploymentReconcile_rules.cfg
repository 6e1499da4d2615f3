SPECIFICATION FairSpec
CONSTANTS
  d1 = d1  p1 = p1  n1 = n1  n2 = n2  t1 = t1
  Rules = {r1, r2}
  Packages = {p1}
  Devices = {d1}
  Names = {n1, n2}
  Tags = {t1}
  Defs <- MCDefs
  Bodies <- MCBodies
  OS <- MCOS
  Workers = {w1, w2}
  Uploads = {u1}
  Interval = 1
  Window = 2
  MaxFaults = 1
  MaxEdits = 1
  None = None
CHECK_DEADLOCK FALSE
INVARIANTS
  DeploymentInv
PROPERTIES
  
  Converges
