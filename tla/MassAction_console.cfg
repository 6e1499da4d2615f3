SPECIFICATION MCSpec
CONSTANTS
  d1 = d1  d2 = d2  d3 = d3  chief = chief  local = local
  r1 = r1  r2 = r2  s1 = s1  s2 = s2  b1 = b1  b2 = b2
  Devices = {d1, d2, d3}
  SiteOf <- MCSiteOf
  CustomerOf <- MCCustomerOf
  Platform <- MCPlatform
  Callers = {chief, local}
  May <- MCMay
  Requests <- MCRequests
  Scripts = {s1, s2}
  Schedules = {x1}
  Releases = {r1, r2}
  ReleasePlatform <- MCReleasePlatform
  Sha256 <- MCSha256
  Binaries = {b1, b2}
  SwitchedOn = {d1}
  Offers = {h1, h2}
  First = v0
  BlastRadius = 1
  TTL = 0
  MaxNow = 1
  MaxEvents = 3
  Nil = Nil
CHECK_DEADLOCK FALSE
INVARIANTS
  RolloutInv
  MassActsWereShown
  OfferIsServable
PROPERTIES
  ConfirmationEnds
