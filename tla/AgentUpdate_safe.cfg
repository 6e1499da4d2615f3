SPECIFICATION FairSpec
CONSTANTS
  Versions = {v1, v2, v3}
  First = v1
  Deaf = {v2}
  Offers = {o1, o2}
  Window = 1
  MaxTime = 1
  MaxCrashes = 2
  None = None
CHECK_DEADLOCK FALSE
INVARIANTS
  FallbackInv
  BinarySurvives
PROPERTIES
  DeafIsReplaced
