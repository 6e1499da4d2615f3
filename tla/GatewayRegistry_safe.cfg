\* Three connections of the device: an old, a current and a new one.  No
\* symmetry, as one of the properties is a liveness property.
SPECIFICATION RegistryFairSpec
CONSTANTS
  Sockets = {c1, c2, c3}
  NoSocket = NoSocket
CHECK_DEADLOCK FALSE
INVARIANTS
  RegistryInv
  OneLiveConnection
PROPERTIES
  ServedIsCutOff
