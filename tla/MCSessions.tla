----------------------------- MODULE MCSessions -----------------------------
(* An instance of Sessions for TLC.  It starts in the middle of the life of a *)
(* console: the owner is logged in and has a token that may make tokens, and  *)
(* the owner of one site, who has the second factor on and a recovery code    *)
(* left, has typed the password in two browsers.                              *)
EXTENDS Sessions, TLC

CONSTANTS tech, kOwner, k1, k2, t1, c1

Customer == [type |-> "customer", id |-> "customer"]
Site     == [type |-> "site", id |-> "site"]

MCRoles == "owner" :> {"users.manage", "tokens.manage", "act"} @@ "technician" :> {"act"}
MCCustomerOf == "site" :> "customer"

Technician == [user |-> tech, role |-> "technician", scope |-> Customer]
SiteOwner  == [user |-> tech, role |-> "owner", scope |-> Site]
MCAssignables == {Technician, SiteOwner}
Minter == [perms |-> {"tokens.manage"}, scope |-> Tenant]
MCMintables == {Minter, [perms |-> {"act"}, scope |-> Customer]}

Pending == [state |-> "live", user |-> tech, passed |-> FALSE]

MCInit ==
  /\ user = [u \in Users |->
               CASE u = First -> [status |-> "active", mfa |-> FALSE, secret |-> 0]
                 [] u = tech -> [status |-> "active", mfa |-> TRUE, secret |-> 1]
                 [] OTHER -> NoUser]
  /\ session = [k \in SessionIds |->
                  CASE k = kOwner -> [Pending EXCEPT !.user = First, !.passed = TRUE]
                    [] k \in {k1, k2} -> Pending
                    [] OTHER -> NoSession]
  /\ token = [t \in TokenIds |->
                IF t = t1 THEN [state |-> "live", user |-> First, by |-> kOwner, grant |-> Minter]
                ELSE NoApiToken]
  /\ assigned = {Owner, SiteOwner}
  /\ code = [c \in Codes |-> IF c = c1 THEN [user |-> tech, used |-> FALSE] ELSE NoCode]
  /\ locked = {}
  /\ req = [r \in Slots |-> NoRequest]
  /\ secrets = 1 /\ events = 0
  /\ held = [u \in Users |-> {a \in assigned : a.user = u}]
  /\ carried = [r \in Slots |-> Unused]
  /\ bought = [c \in Codes |-> 0]

MCSpec == MCInit /\ [][Next]_vars

Symmetry == Permutations(Slots)
=============================================================================
