------------------------------ MODULE Sessions ------------------------------
(***************************************************************************)
(* Who acts on the API, and with what: logins, the second factor, sessions,*)
(* API tokens, users and role assignments (server/internal/api, auth and   *)
(* store).  A request is authenticated in one or two transactions of its   *)
(* own, keeps the grants it read there, and runs its handler's transaction *)
(* later; whatever another request does in between is not seen.            *)
(***************************************************************************)
EXTENDS Naturals, FiniteSets

CONSTANTS
  Users, First,     \* First is the owner that bootstrap creates
  SessionIds, TokenIds, Codes,
  Slots,            \* requests being served at a time (bound)
  Roles,            \* Roles[name]: the permissions of a role
  CustomerOf,       \* CustomerOf[s]: the customer of site s
  Assignables,      \* assignments administrators make: [user, role, scope]
  Mintables,        \* API tokens asked for: [perms, scope]
  MaxSecrets,       \* TOTP secrets generated (bound)
  MaxEvents,        \* requests made and credentials that expire (bound)
  None

ASSUME SessionsAssumption ==
  /\ First \in Users /\ None \notin Users \cup SessionIds \cup TokenIds \cup Codes
  /\ SessionIds \cap TokenIds = {}
  /\ \A a \in Assignables : a.user \in Users
  /\ MaxSecrets \in Nat /\ MaxEvents \in Nat

VARIABLES
  user,      \* user[u]: the row of users; secret 0 is no mfa_secret_enc
  session,   \* session[k]: the row of sessions
  token,     \* token[t]: the row of api_tokens; by (history): what it was made with
  assigned,  \* role_assignments
  code,      \* code[c]: a recovery code, its user and whether it is used
  locked,    \* codes whose row the transaction of a verification holds
  req,       \* req[r]: a request in the server
  secrets, events,
  held,      \* history: held[u]: assignments user u ever had
  carried,   \* history: carried[r]: since r arrived, was its credential valid at some
             \* time, was the user active, and which grants came with it?
  bought     \* history: bought[c]: sessions let through by code c

credVars == <<user, session, token, assigned, code>>
vars == <<credVars, locked, req, secrets, events, held, carried, bought>>

Tenant == [type |-> "tenant", id |-> None]

NoUser    == [status |-> "none", mfa |-> FALSE, secret |-> 0]
NoSession == [state |-> "none", user |-> None, passed |-> FALSE]
NoApiToken == [state |-> "none", user |-> None, grant |-> None, by |-> None]
NoCode    == [user |-> None, used |-> FALSE]
NoRequest == [pc |-> "idle", kind |-> "none", cred |-> None, arg |-> None, user |-> None,
              grants |-> {}, read |-> None]

Grant(a) == [perms |-> Roles[a.role], scope |-> a.scope]

\* bootstrap.Run: a tenant, its roles and an owner with a tenant-wide assignment.
Owner == [user |-> First, role |-> "owner", scope |-> Tenant]

Init ==
  /\ user = [u \in Users |-> IF u = First THEN [NoUser EXCEPT !.status = "active"] ELSE NoUser]
  /\ session = [k \in SessionIds |-> NoSession]
  /\ token = [t \in TokenIds |-> NoApiToken]
  /\ assigned = {Owner}
  /\ code = [c \in Codes |-> NoCode]
  /\ locked = {}
  /\ req = [r \in Slots |-> NoRequest]
  /\ secrets = 0 /\ events = 0
  /\ held = [u \in Users |-> IF u = First THEN {Owner} ELSE {}]
  /\ carried = [r \in Slots |-> [live |-> FALSE, active |-> FALSE, grants |-> {}]]
  /\ bought = [c \in Codes |-> 0]

-----------------------------------------------------------------------------
(* Authorization: auth.Require and what it is built from.                  *)

GrantsForUser(u) == {Grant(a) : a \in {b \in assigned : b.user = u}}

\* txResolver.Contains: a customer contains its sites, nothing else is nested.
Contains(outer, inner) ==
  outer.type = "customer" /\ inner.type = "site" /\ CustomerOf[inner.id] = outer.id

Require(grants, perm, target) ==
  \E g \in grants : /\ perm \in g.perms
                    /\ g.scope.type = "tenant" \/ g.scope = target \/ Contains(g.scope, target)

\* Principal.Has: the coarse check of dispatch.
Has(grants, perm) == \E g \in grants : perm \in g.perms

\* Routes: the permission of each kind of request; "self" needs none.  "act" is
\* any handler of another part of the console.
RoutePerm(kind) ==
  CASE kind \in {"verify", "logout", "setup", "enable"} -> "self"
    [] kind \in {"create_user", "update_user", "assign", "unassign"} -> "users.manage"
    [] kind \in {"mint", "revoke"} -> "tokens.manage"
    [] kind = "act" -> "act"

AllowPendingMFA(kind) == kind \in {"verify", "logout"}

-----------------------------------------------------------------------------
(* Requests arrive and are authenticated.                                  *)

\* What a credential is worth at this moment: is it valid, is its user active,
\* and which grants come with it?  With a token those of its row, whatever its
\* owner is assigned by now.
Live(cred) == \/ cred \in SessionIds /\ session[cred].state = "live" /\ session[cred].passed
              \/ cred \in TokenIds /\ token[cred].state = "live"

OfActive(cred) == \E u \in Users : /\ user[u].status = "active"
                                   /\ \/ cred \in SessionIds /\ session[cred].user = u
                                      \/ cred \in TokenIds /\ token[cred].user = u

Carries(cred) ==
  IF cred \in SessionIds THEN GrantsForUser(session[cred].user)
  ELSE IF cred \in TokenIds /\ token[cred].user # None THEN {token[cred].grant} ELSE {}

\* The history of the requests in flight, kept by every step.
Unused == [live |-> FALSE, active |-> FALSE, grants |-> {}]
Carry == carried' = [r \in Slots |->
           IF req'[r].pc = "idle" THEN Unused
           ELSE [live |-> carried[r].live \/ Live(req[r].cred)',
                 active |-> carried[r].active \/ OfActive(req[r].cred)',
                 grants |-> carried[r].grants \cup Carries(req[r].cred)']]

Finish(r) == req' = [req EXCEPT ![r] = NoRequest]
Goto(r, step) == req' = [req EXCEPT ![r].pc = step]

Event == events < MaxEvents /\ events' = events + 1

Arrive(r, kind, cred, arg) ==
  /\ req[r].pc = "idle"
  /\ Event
  /\ req' = [req EXCEPT ![r] = [NoRequest EXCEPT !.pc = "arrived", !.kind = kind,
                                                 !.cred = cred, !.arg = arg]]
  /\ UNCHANGED <<credVars, locked, secrets, held, bought>> /\ Carry

\* requireAuth, session cookie: a session that waits for its second factor gets
\* no grants, and only to the routes that allow it.
LookupSession(r) ==
  LET k == req[r].cred IN
  /\ req[r].pc = "arrived" /\ k \in SessionIds
  /\ IF session[k].state # "live" \/ (~session[k].passed /\ ~AllowPendingMFA(req[r].kind))
     THEN Finish(r)
     ELSE req' = [req EXCEPT ![r].user = session[k].user,
                             ![r].pc = IF session[k].passed THEN "principal" ELSE "handler"]
  /\ UNCHANGED <<credVars, locked, secrets, events, held, bought>> /\ Carry

Dispatch(r, grants) ==
  IF RoutePerm(req[r].kind) = "self" \/ Has(grants, RoutePerm(req[r].kind))
  THEN req' = [req EXCEPT ![r].pc = "handler", ![r].grants = grants]
  ELSE Finish(r)

\* A variant that does not look at the user's status.
GetAnyUser(r) ==
  /\ req[r].pc = "principal"
  /\ Goto(r, "grants")
  /\ UNCHANGED <<credVars, locked, secrets, events, held, bought>> /\ Carry

\* principalForUser, in a transaction after LookupSession's: the user, ...
GetUser(r) ==
  /\ req[r].pc = "principal"
  /\ IF user[req[r].user].status = "active" THEN Goto(r, "grants") ELSE Finish(r)
  /\ UNCHANGED <<credVars, locked, secrets, events, held, bought>> /\ Carry

\* ... then the grants, in a statement of its own, whatever the status is by now;
\* and dispatch.
PrincipalForUser(r) ==
  /\ req[r].pc = "grants"
  /\ Dispatch(r, GrantsForUser(req[r].user))
  /\ UNCHANGED <<credVars, locked, secrets, events, held, bought>> /\ Carry

\* authAPIToken: the token's row, ...
LookupAPIToken(r) ==
  LET t == req[r].cred IN
  /\ req[r].pc = "arrived" /\ t \in TokenIds
  /\ IF token[t].state = "live"
     THEN req' = [req EXCEPT ![r].pc = "owner", ![r].user = token[t].user,
                             ![r].grants = {token[t].grant}]
     ELSE Finish(r)
  /\ UNCHANGED <<credVars, locked, secrets, events, held, bought>> /\ Carry

\* ... then its owner, who must be active.
TokenOwner(r) ==
  /\ req[r].pc = "owner"
  /\ IF user[req[r].user].status = "active" THEN Dispatch(r, req[r].grants) ELSE Finish(r)
  /\ UNCHANGED <<credVars, locked, secrets, events, held, bought>> /\ Carry

-----------------------------------------------------------------------------
(* Login and the second factor.                                            *)

\* handleLogin with the right password: the user's row, ...
LookupUserByEmail(r) ==
  LET u == req[r].arg IN
  /\ req[r].pc = "arrived" /\ req[r].kind = "login"
  /\ IF user[u].status = "active"
     THEN req' = [req EXCEPT ![r].pc = "login", ![r].user = u, ![r].read = user[u].mfa]
     ELSE Finish(r)
  /\ UNCHANGED <<credVars, locked, secrets, events, held, bought>> /\ Carry

\* ... and the session, which waits for a code if the row said so.
CreateSession(r, k) ==
  /\ req[r].pc = "login" /\ session[k].state = "none"
  /\ session' = [session EXCEPT ![k] = [state |-> "live", user |-> req[r].user,
                                        passed |-> ~req[r].read]]
  /\ Finish(r)
  /\ UNCHANGED <<user, token, assigned, code, locked, secrets, events, held, bought>> /\ Carry

ExpireSession(k) ==
  /\ session[k].state = "live"
  /\ Event
  /\ session' = [session EXCEPT ![k].state = "expired"]
  /\ UNCHANGED <<user, token, assigned, code, locked, req, secrets, held, bought>> /\ Carry

\* UpgradeSessionMFA finds the row of a session that has expired, not of one
\* that was deleted.
Upgradable(k) == k \in SessionIds /\ session[k].state \in {"live", "expired"}

\* handleMFAVerify with the current code of the stored secret: one transaction.
\* sessionFrom finds nothing when the request came with an API token.
VerifyTOTP(r) ==
  LET k == req[r].cred IN
  /\ req[r].pc = "handler" /\ req[r].kind = "verify" /\ req[r].arg = "totp"
  /\ session' = IF user[req[r].user].mfa /\ Upgradable(k)
                THEN [session EXCEPT ![k].passed = TRUE] ELSE session
  /\ Finish(r)
  /\ UNCHANGED <<user, token, assigned, code, locked, secrets, events, held, bought>> /\ Carry

\* A variant that does not look at how many rows were updated.
ConsumeAnyCode(r) ==
  LET c == req[r].arg IN
  /\ req[r].pc = "handler" /\ req[r].kind = "verify" /\ c \in Codes \ locked
  /\ IF req[r].cred \in SessionIds /\ user[req[r].user].mfa /\ code[c].user = req[r].user
     THEN Goto(r, "upgrade") /\ locked' = locked \cup {c}
     ELSE Finish(r) /\ UNCHANGED locked
  /\ UNCHANGED <<credVars, secrets, events, held, bought>> /\ Carry

\* A recovery code: the UPDATE waits for the code's row, matches only an unused
\* one of this user, and keeps it locked.
ConsumeRecoveryCode(r) ==
  LET c == req[r].arg IN
  /\ req[r].pc = "handler" /\ req[r].kind = "verify" /\ c \in Codes \ locked
  /\ IF /\ req[r].cred \in SessionIds /\ user[req[r].user].mfa
        /\ code[c] = [user |-> req[r].user, used |-> FALSE]
     THEN Goto(r, "upgrade") /\ locked' = locked \cup {c}
     ELSE Finish(r) /\ UNCHANGED locked
  /\ UNCHANGED <<credVars, secrets, events, held, bought>> /\ Carry

\* UpgradeSessionMFA and the commit; a session deleted meanwhile, like any error,
\* rolls the transaction back, and the code is unused again.
UpgradeSessionMFA(r) ==
  LET k == req[r].cred
      c == req[r].arg IN
  /\ req[r].pc = "upgrade"
  /\ \/ /\ Upgradable(k)
        /\ session' = [session EXCEPT ![k].passed = TRUE]
        /\ code' = [code EXCEPT ![c].used = TRUE]
        /\ bought' = [bought EXCEPT ![c] = @ + 1]
     \/ UNCHANGED <<session, code, bought>>
  /\ locked' = locked \ {c}
  /\ Finish(r)
  /\ UNCHANGED <<user, token, assigned, secrets, events, held>> /\ Carry

\* handleLogout deletes the session's row, of which only whose it was is
\* remembered (history); an API token has none.
Logout(r) ==
  LET k == req[r].cred IN
  /\ req[r].pc = "handler" /\ req[r].kind = "logout"
  /\ session' = IF k \in SessionIds THEN [session EXCEPT ![k].state = "gone"] ELSE session
  /\ Finish(r)
  /\ UNCHANGED <<user, token, assigned, code, locked, secrets, events, held, bought>> /\ Carry

\* handleMFASetup reads the row, ...
SetupReads(r) ==
  /\ req[r].pc = "handler" /\ req[r].kind = "setup"
  /\ IF user[req[r].user].mfa THEN Finish(r) ELSE Goto(r, "setup")
  /\ UNCHANGED <<credVars, locked, secrets, events, held, bought>> /\ Carry

\* ... and writes a new secret, whatever the row says by now.
SetUserMFASecret(r) ==
  /\ req[r].pc = "setup"
  /\ secrets < MaxSecrets
  /\ secrets' = secrets + 1
  /\ user' = [user EXCEPT ![req[r].user].secret = secrets + 1]
  /\ Finish(r)
  /\ UNCHANGED <<session, token, assigned, code, locked, events, held, bought>> /\ Carry

\* handleMFAEnable reads the row and checks the code it was sent against the
\* secret there, ...
EnableReads(r) ==
  LET u == user[req[r].user] IN
  /\ req[r].pc = "handler" /\ req[r].kind = "enable"
  /\ IF u.mfa \/ u.secret = 0 THEN Finish(r) ELSE Goto(r, "enable")
  /\ UNCHANGED <<credVars, locked, secrets, events, held, bought>> /\ Carry

\* ... and turns the factor on, with fresh recovery codes.
EnableUserMFA(r, c) ==
  /\ req[r].pc = "enable"
  /\ code[c] = NoCode
  /\ user' = [user EXCEPT ![req[r].user].mfa = TRUE]
  /\ code' = [code EXCEPT ![c].user = req[r].user]
  /\ Finish(r)
  /\ UNCHANGED <<session, token, assigned, locked, secrets, events, held, bought>> /\ Carry

-----------------------------------------------------------------------------
(* Administration.                                                         *)

\* The handlers of this part check the permission of their route at the tenant.
Authorized(r) == Require(req[r].grants, RoutePerm(req[r].kind), Tenant)

CreateUser(r) ==
  LET u == req[r].arg IN
  /\ req[r].pc = "handler" /\ req[r].kind = "create_user"
  /\ user' = IF Authorized(r) /\ user[u].status = "none"
             THEN [user EXCEPT ![u].status = "active"] ELSE user
  /\ Finish(r)
  /\ UNCHANGED <<session, token, assigned, code, locked, secrets, events, held, bought>> /\ Carry

\* handleUpdateUser: not one's own account, when it is to be disabled.
UpdateUser(r) ==
  LET u == req[r].arg.user
      s == req[r].arg.status IN
  /\ req[r].pc = "handler" /\ req[r].kind = "update_user"
  /\ user' = IF /\ ~(u = req[r].user /\ s = "disabled")
                /\ Authorized(r) /\ user[u].status # "none"
             THEN [user EXCEPT ![u].status = s] ELSE user
  /\ Finish(r)
  /\ UNCHANGED <<session, token, assigned, code, locked, secrets, events, held, bought>> /\ Carry

CreateAssignment(r) ==
  LET a == req[r].arg IN
  /\ req[r].pc = "handler" /\ req[r].kind = "assign"
  /\ IF Authorized(r) /\ user[a.user].status # "none"
     THEN /\ assigned' = assigned \cup {a}
          /\ held' = [held EXCEPT ![a.user] = @ \cup {a}]
     ELSE UNCHANGED <<assigned, held>>
  /\ Finish(r)
  /\ UNCHANGED <<user, session, token, code, locked, secrets, events, bought>> /\ Carry

DeleteAssignment(r) ==
  /\ req[r].pc = "handler" /\ req[r].kind = "unassign"
  /\ assigned' = IF Authorized(r) THEN assigned \ {req[r].arg} ELSE assigned
  /\ Finish(r)
  /\ UNCHANGED <<user, session, token, code, locked, secrets, events, held, bought>> /\ Carry

Minted(r, m) == [state |-> "live", user |-> req[r].user, grant |-> m, by |-> req[r].cred]

\* A variant that trusts the permission to mint.
MintUnchecked(r, t) ==
  LET m == req[r].arg IN
  /\ req[r].pc = "handler" /\ req[r].kind = "mint" /\ token[t] = NoApiToken
  /\ token' = IF Authorized(r) THEN [token EXCEPT ![t] = Minted(r, m)] ELSE token
  /\ Finish(r)
  /\ UNCHANGED <<user, session, assigned, code, locked, secrets, events, held, bought>> /\ Carry

\* handleCreateAPIToken: the caller, which may itself be a token, must have every
\* permission it asks for at the scope it asks for.
CreateAPIToken(r, t) ==
  LET m == req[r].arg IN
  /\ req[r].pc = "handler" /\ req[r].kind = "mint" /\ token[t] = NoApiToken
  /\ token' = IF Authorized(r) /\ \A p \in m.perms : Require(req[r].grants, p, m.scope)
              THEN [token EXCEPT ![t] = Minted(r, m)]
              ELSE token
  /\ Finish(r)
  /\ UNCHANGED <<user, session, assigned, code, locked, secrets, events, held, bought>> /\ Carry

RevokeAPIToken(r) ==
  LET t == req[r].arg IN
  /\ req[r].pc = "handler" /\ req[r].kind = "revoke"
  /\ token' = IF Authorized(r) /\ token[t].state = "live"
              THEN [token EXCEPT ![t].state = "revoked"] ELSE token
  /\ Finish(r)
  /\ UNCHANGED <<user, session, assigned, code, locked, secrets, events, held, bought>> /\ Carry

\* Any other handler: it ends.  A token may expire at any time, too.
Act(r) ==
  /\ req[r].pc = "handler" /\ req[r].kind = "act"
  /\ Finish(r)
  /\ UNCHANGED <<credVars, locked, secrets, events, held, bought>> /\ Carry

ExpireToken(t) ==
  /\ token[t].state = "live"
  /\ Event
  /\ token' = [token EXCEPT ![t].state = "expired"]
  /\ UNCHANGED <<user, session, assigned, code, locked, req, secrets, held, bought>> /\ Carry

-----------------------------------------------------------------------------
Calls ==
  {<<"logout", None>>, <<"setup", None>>, <<"enable", None>>, <<"act", None>>}
    \cup {<<"verify", x>> : x \in Codes \cup {"totp"}}
    \cup {<<"create_user", u>> : u \in Users}
    \cup {<<"update_user", [user |-> u, status |-> s]>> : u \in Users, s \in {"active", "disabled"}}
    \cup {<<"assign", a>> : a \in Assignables} \cup {<<"unassign", a>> : a \in assigned}
    \cup {<<"mint", m>> : m \in Mintables} \cup {<<"revoke", t>> : t \in TokenIds}

\* The credentials clients have: a row, whatever has become of it.
Credentials == {k \in SessionIds : session[k].state # "none"} \cup {t \in TokenIds : token[t] # NoApiToken}

Next ==
  \/ \E r \in Slots :
       \/ \E u \in Users : Arrive(r, "login", None, u)
       \/ \E c \in Calls, x \in Credentials : Arrive(r, c[1], x, c[2])
       \/ LookupSession(r) \/ GetUser(r) \/ PrincipalForUser(r)
       \/ LookupAPIToken(r) \/ TokenOwner(r)
       \/ LookupUserByEmail(r) \/ \E k \in SessionIds : CreateSession(r, k)
       \/ VerifyTOTP(r) \/ ConsumeRecoveryCode(r) \/ UpgradeSessionMFA(r) \/ Logout(r)
       \/ SetupReads(r) \/ SetUserMFASecret(r)
       \/ EnableReads(r) \/ \E c \in Codes : EnableUserMFA(r, c)
       \/ CreateUser(r) \/ UpdateUser(r) \/ CreateAssignment(r) \/ DeleteAssignment(r)
       \/ \E t \in TokenIds : CreateAPIToken(r, t)
       \/ RevokeAPIToken(r) \/ Act(r)
  \/ \E k \in SessionIds : ExpireSession(k)
  \/ \E t \in TokenIds : ExpireToken(t)

Spec == Init /\ [][Next]_vars

-----------------------------------------------------------------------------
(* Properties.                                                             *)

Grants == {Grant(a) : a \in Assignables \cup {Owner}} \cup Mintables

\* Types of the state; in addition, a code's row is locked exactly while a
\* verification that consumed it is open.
TypeOK ==
  /\ user \in [Users -> [status : {"none", "active", "disabled"}, mfa : BOOLEAN, secret : 0 .. MaxSecrets]]
  /\ \A k \in SessionIds : /\ session[k].state \in {"none", "live", "expired", "gone"}
                           /\ session[k].state \in {"live", "expired"} => user[session[k].user].status # "none"
  /\ \A t \in TokenIds : /\ token[t].state \in {"none", "live", "expired", "revoked"}
                         /\ token[t] # NoApiToken => token[t].grant \in Mintables
  /\ assigned \subseteq Assignables \cup {Owner}
  /\ code \in [Codes -> [user : Users \cup {None}, used : BOOLEAN]]
  /\ locked = {req[r].arg : r \in {s \in Slots : req[s].pc = "upgrade"}}
  /\ \A r \in Slots : req[r].pc \in {"idle", "arrived", "principal", "grants", "owner", "login", "handler",
                                     "upgrade", "setup", "enable"} /\ req[r].grants \subseteq Grants
  /\ secrets \in 0 .. MaxSecrets /\ events \in 0 .. MaxEvents

\* A recovery code lets exactly one session through and is used exactly then:
\* two verifications that race for it do not both succeed, and one that is
\* rolled back does not cost it.  (auth_handlers.go, handleMFAVerify.)
CodeBuysOneSession ==
  \A c \in Codes : bought[c] = IF code[c].used THEN 1 ELSE 0

\* However tokens mint tokens, while assignments come and go: a token made with
\* a token has no more than that one, a token made in a session no more than
\* its owner was once given.  (tokens_handlers.go: "the caller must hold every
\* requested permission at the token's scope".)
TokensNeverWiden ==
  \A t \in TokenIds : token[t] # NoApiToken =>
    LET from == IF token[t].by \in TokenIds THEN {token[token[t].by].grant}
                ELSE {Grant(a) : a \in held[token[t].user]} IN
    \A p \in token[t].grant.perms : Require(from, p, token[t].grant.scope)

\* A handler acts only on a credential that was valid at some time since the
\* request arrived, for a user who was active at some time since, with grants
\* that came with the credential at some time since: a logout, a revocation, a
\* disabled account or, for a session, a removed assignment that came before is
\* never missed.  The three are read by statements of their own, so they need
\* not have held together; and a token keeps the grants of its row although its
\* owner has lost them (authz.go: "already been intersected into Grants").
NoStaleGrants ==
  \A r \in Slots : (req[r].pc = "handler" /\ req[r].grants # {}) =>
    carried[r].live /\ carried[r].active /\ req[r].grants \subseteq carried[r].grants

\* What handleMFAVerify's transaction keeps: a code's row is locked by the one
\* request that upgrades its session with it, and buys that session only.
SessionInv == TypeOK /\ CodeBuysOneSession
=============================================================================
