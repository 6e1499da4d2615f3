SPECIFICATION Spec
CONSTANTS
  Customers = {c1}
  Sites = {s1}
  Tokens = {t1}
  Hosts = {h1, h2}
  Requests = {r1, r2}
  Limits = {1, 2}
  MaxDevices = 3
  MaxKeys = 3
  MaxTime = 2
  MaxSkew = 1
  None = None
SYMMETRY Symmetry
CHECK_DEADLOCK FALSE
INVARIANTS
  EnrollmentInv
  IdentityAuthenticates
PROPERTIES
  ImplementsBudget
