SPECIFICATION MCSpec
CONSTANTS
  First = owner
  tech = tech
  Users = {owner, tech, guest}
  kOwner = kOwner  k1 = k1  k2 = k2
  SessionIds = {kOwner, k1, k2, k3}
  t1 = t1
  TokenIds = {t1, t2}
  c1 = c1
  Codes = {c1, c2}
  Slots = {r1, r2}
  Roles <- MCRoles
  CustomerOf <- MCCustomerOf
  Assignables <- MCAssignables
  Mintables <- MCMintables
  MaxSecrets = 2
  MaxEvents = 3
  None = None
SYMMETRY Symmetry
CHECK_DEADLOCK FALSE
INVARIANTS
  SessionInv
  TokensNeverWiden
  NoStaleGrants
