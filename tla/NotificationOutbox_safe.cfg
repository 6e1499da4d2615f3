\* Two deliveries that fit in one batch, and a worker without a Notifier.  No symmetry, as one of the
\* properties is a liveness property.
SPECIFICATION OutboxFairSpec
CONSTANTS
  NDeliveries = 2
  Senders = {w1, w2, w3}
  Wired = {w1, w2}
  Batch = 2
  MaxAttempts = 2
  MaxBackoff = 2
  IntBits = 3
  MaxSendFaults = 1
CHECK_DEADLOCK FALSE
INVARIANTS
  ClaimInv
  StatusIsEarned
PROPERTIES
  NeverLost
