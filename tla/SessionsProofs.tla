--------------------------- MODULE SessionsProofs ---------------------------
(***************************************************************************)
(* Theorems about Sessions, for every set of users, roles, scopes,         *)
(* sessions, tokens, recovery codes and concurrent requests: a recovery    *)
(* code buys one session, tokens never widen, and no handler acts with     *)
(* grants that are stale.                                                  *)
(***************************************************************************)
EXTENDS Sessions, TLAPS

UserRows == [status : {"none", "active", "disabled"}, mfa : BOOLEAN, secret : 0 .. MaxSecrets]
SessionRows == [state : {"none", "live", "expired", "gone"}, user : Users \cup {None},
                passed : BOOLEAN]
TokenRows == [state : {"none", "live", "expired", "revoked"}, user : Users \cup {None},
              grant : Mintables \cup {None}, by : SessionIds \cup TokenIds \cup {None}]

Kinds == {"none", "login", "verify", "logout", "setup", "enable", "create_user", "update_user",
          "assign", "unassign", "mint", "revoke", "act"}
Pcs == {"idle", "arrived", "principal", "grants", "owner", "login", "handler", "upgrade",
        "setup", "enable"}
Changes == [user : Users, status : {"active", "disabled"}]
Args == {None, "totp"} \cup Codes \cup Users \cup Changes \cup Assignables \cup {Owner}
          \cup Mintables \cup TokenIds
RequestRows == [pc : Pcs, kind : Kinds, cred : SessionIds \cup TokenIds \cup {None}, arg : Args,
                user : Users \cup {None}, grants : SUBSET Grants, read : BOOLEAN \cup {None}]

\* A user that exists stays; secrets are numbered.
Exists(u) == u \in Users /\ user[u].status # "none"

UserPart == /\ user \in [Users -> UserRows]
            /\ secrets \in 0 .. MaxSecrets
            /\ events \in 0 .. MaxEvents

\* A session and a token belong to a user that exists.
SessionPart == /\ session \in [SessionIds -> SessionRows]
               /\ \A k \in SessionIds : session[k].state # "none" => Exists(session[k].user)

TokenPart ==
  /\ token \in [TokenIds -> TokenRows]
  /\ \A t \in TokenIds : token[t].state = "none" => token[t] = NoApiToken
  /\ \A t \in TokenIds : token[t].state # "none" =>
       /\ Exists(token[t].user)
       /\ token[t].grant \in Mintables
       /\ token[t].by \in TokenIds => token[token[t].by].state # "none"

\* The assignments of now are among those a user ever had.
AssignPart == /\ assigned \subseteq Assignables \cup {Owner}
              /\ held \in [Users -> SUBSET (Assignables \cup {Owner})]
              /\ \A a \in assigned : a.user \in Users /\ a \in held[a.user]

\* What a request was sent with fits its route.
ArgFits(kind, arg) ==
  /\ kind \in {"login", "create_user"} => arg \in Users
  /\ kind = "update_user" => arg \in Changes
  /\ kind = "assign" => arg \in Assignables
  /\ kind = "mint" => arg \in Mintables
  /\ kind = "revoke" => arg \in TokenIds

\* What a credential may give at most, to whichever of its requests.
Most(cred) == IF cred \in TokenIds THEN {token[cred].grant}
                                   ELSE {Grant(a) : a \in held[session[cred].user]}

\* A request that has been authenticated acts for the user of its credential,
\* with at most what the credential may give.
RequestFits(r) ==
  LET q == req[r] IN
  /\ q.pc # "idle" => /\ ArgFits(q.kind, q.arg)
                      /\ q.kind = "login" => q.cred = None
                      /\ q.cred \in SessionIds => session[q.cred].state # "none"
                      /\ q.cred \in TokenIds => token[q.cred].state # "none"
  /\ q.pc \notin {"idle", "arrived"} =>
       /\ Exists(q.user)
       /\ q.cred \in SessionIds => session[q.cred].user = q.user
       /\ q.cred \in TokenIds => token[q.cred].user = q.user
  /\ q.pc \in {"idle", "arrived", "principal", "grants", "login"} => q.grants = {}
  /\ q.pc \notin {"idle", "arrived", "login"} => q.cred # None
  /\ q.pc \in {"principal", "grants"} => q.cred \in SessionIds
  /\ q.pc = "owner" => q.cred \in TokenIds /\ q.grants = {token[q.cred].grant}
  /\ q.pc = "login" => q.read \in BOOLEAN
  /\ q.cred # None => q.grants \subseteq Most(q.cred)

ReqPart == /\ req \in [Slots -> RequestRows]
           /\ \A r \in Slots : RequestFits(r)

\* A code is in the hands of the one request that upgrades its session with it,
\* unused until that commits.
CodePart ==
  /\ code \in [Codes -> [user : Users \cup {None}, used : BOOLEAN]]
  /\ bought \in [Codes -> Nat]
  /\ locked = {req[r].arg : r \in {s \in Slots : req[s].pc = "upgrade"}}
  /\ \A r \in Slots : req[r].pc = "upgrade" => req[r].arg \in Codes /\ ~code[req[r].arg].used
  /\ \A q, r \in Slots : req[q].pc = "upgrade" /\ req[r].pc = "upgrade" /\ q # r =>
       req[q].arg # req[r].arg
  /\ CodeBuysOneSession

\* The history of a request: its credential was valid when it was looked up, and
\* its user active when that was read.
Notes == [live : BOOLEAN, active : BOOLEAN, grants : SUBSET Grants]
CarryPart ==
  /\ carried \in [Slots -> Notes]
  /\ \A r \in Slots : req[r].pc \in {"principal", "grants", "owner"} => carried[r].live
  /\ \A r \in Slots : req[r].pc = "grants" => carried[r].active
  /\ NoStaleGrants

\* The inductive invariant.
Tables == UserPart /\ SessionPart /\ TokenPart /\ AssignPart
Inv == Tables /\ ReqPart /\ CodePart /\ CarryPart /\ TokensNeverWiden

-----------------------------------------------------------------------------
(* What no step takes back.                                                *)

Grows ==
  /\ \A u : Exists(u) => Exists(u)'
  /\ \A k \in SessionIds : session[k].state # "none" =>
       session'[k].state # "none" /\ session'[k].user = session[k].user
  /\ \A t \in TokenIds : token[t].state # "none" =>
       /\ token'[t].state # "none" /\ token'[t].user = token[t].user
       /\ token'[t].grant = token[t].grant /\ token'[t].by = token[t].by
  /\ \A u \in Users : held[u] \subseteq held'[u]

\* A step that leaves the tables alone takes nothing back.
LEMMA TablesFrame ==
  ASSUME Tables, UNCHANGED <<user, session, token, assigned, held>>, secrets' \in 0 .. MaxSecrets,
         events' \in 0 .. MaxEvents
  PROVE  Tables' /\ Grows
  <1>1. UserPart'
    BY DEF Tables, UserPart
  <1>2. SessionPart'
    BY DEF Tables, SessionPart, Exists
  <1>3. TokenPart'
    BY DEF Tables, TokenPart, Exists
  <1>4. AssignPart'
    BY DEF Tables, AssignPart
  <1>5. Grows
    BY DEF Grows, Exists
  <1> QED
    BY <1>1, <1>2, <1>3, <1>4, <1>5 DEF Tables

\* A step that changes the users only, and unmakes none.
LEMMA UsersStep ==
  ASSUME Tables, UNCHANGED <<session, token, assigned, held>>, UserPart',
         \A u \in Users : user[u].status # "none" => user'[u].status # "none"
  PROVE  Tables' /\ Grows
  <1>1. \A u : Exists(u) => Exists(u)'
    BY DEF Exists
  <1>2. SessionPart'
    BY <1>1 DEF Tables, SessionPart
  <1>3. TokenPart'
    BY <1>1 DEF Tables, TokenPart
  <1>4. AssignPart'
    BY DEF Tables, AssignPart
  <1>5. Grows
    BY <1>1 DEF Grows
  <1> QED
    BY <1>2, <1>3, <1>4, <1>5 DEF Tables

\* A step that changes one session, of an existing user, and not whose it is
\* if it is there already.
LEMMA SessionsStep ==
  ASSUME Tables, UNCHANGED <<user, token, assigned, held, secrets>>, events' \in 0 .. MaxEvents,
         NEW k \in SessionIds, NEW row \in SessionRows, session' = [session EXCEPT ![k] = row],
         row.state # "none", Exists(row.user),
         session[k].state # "none" => row.user = session[k].user
  PROVE  Tables' /\ Grows
  <1>1. UserPart'
    BY DEF Tables, UserPart
  <1>2. /\ session' \in [SessionIds -> SessionRows]
        /\ session'[k] = row /\ \A j \in SessionIds : j # k => session'[j] = session[j]
    BY DEF Tables, SessionPart
  <1>3. SessionPart'
    BY <1>2 DEF Tables, SessionPart, Exists
  <1>4. TokenPart'
    BY DEF Tables, TokenPart, Exists
  <1>5. AssignPart'
    BY DEF Tables, AssignPart
  <1>6. Grows
    BY <1>2 DEF Grows, Exists
  <1> QED
    BY <1>1, <1>3, <1>4, <1>5, <1>6 DEF Tables

\* A step that changes the state of a token that is there already.
LEMMA TokenStateStep ==
  ASSUME Tables, UNCHANGED <<user, session, assigned, held, secrets>>, events' \in 0 .. MaxEvents,
         NEW t \in TokenIds, NEW s \in {"expired", "revoked"}, token[t].state # "none",
         token' = [token EXCEPT ![t].state = s]
  PROVE  Tables' /\ Grows
  <1>1. UserPart' /\ SessionPart' /\ AssignPart'
    BY DEF Tables, UserPart, SessionPart, AssignPart, Exists
  <1>2. /\ token' \in [TokenIds -> TokenRows]
        /\ \A u \in TokenIds : u # t => token'[u] = token[u]
        /\ token'[t].state = s /\ token'[t].user = token[t].user
        /\ token'[t].grant = token[t].grant /\ token'[t].by = token[t].by
    BY DEF Tables, TokenPart, TokenRows
  <1>3. TokenPart'
    BY <1>2 DEF Tables, TokenPart, Exists
  <1>4. Grows
    BY <1>2 DEF Grows, Exists
  <1> QED
    BY <1>1, <1>3, <1>4 DEF Tables

-----------------------------------------------------------------------------
\* The tables after bootstrap.
LEMMA InitInv == Init => Inv
  <1> SUFFICES ASSUME Init PROVE Inv
    OBVIOUS
  <1> USE SessionsAssumption
  <1>1. UserPart
    <2>1. NoUser \in UserRows
      BY DEF NoUser, UserRows
    <2>2. [NoUser EXCEPT !.status = "active"] \in UserRows
      BY <2>1 DEF UserRows
    <2> QED
      BY <2>1, <2>2 DEF Init, UserPart
  <1>2. SessionPart
    BY DEF Init, SessionPart, SessionRows, NoSession
  <1>3. TokenPart
    BY DEF Init, TokenPart, TokenRows, NoApiToken
  <1>4. AssignPart
    BY DEF Init, AssignPart, Owner
  <1>5. NoRequest \in RequestRows /\ \A r \in Slots : req[r] = NoRequest
    BY DEF Init, NoRequest, RequestRows, Pcs, Kinds, Args
  <1>6. ReqPart
    BY <1>5 DEF Init, ReqPart, RequestFits, NoRequest
  <1>7. CodePart
    <2>1. code \in [Codes -> [user : Users \cup {None}, used : BOOLEAN]]
      BY DEF Init, NoCode
    <2>2. locked = {req[r].arg : r \in {s \in Slots : req[s].pc = "upgrade"}}
      BY <1>5 DEF Init, NoRequest
    <2>3. CodeBuysOneSession
      BY DEF Init, CodeBuysOneSession, NoCode
    <2> QED
      BY <1>5, <2>1, <2>2, <2>3 DEF Init, CodePart, NoRequest
  <1>8. CarryPart
    BY <1>5 DEF Init, CarryPart, Notes, NoStaleGrants, NoRequest
  <1>9. TokensNeverWiden
    BY DEF Init, TokensNeverWiden
  <1> QED
    BY <1>1, <1>2, <1>3, <1>4, <1>6, <1>7, <1>8, <1>9 DEF Inv, Tables

-----------------------------------------------------------------------------
(* The tables.                                                             *)

\* The requests that read only.
Reads(r) == \/ LookupSession(r) \/ GetUser(r) \/ PrincipalForUser(r) \/ LookupAPIToken(r) \/ TokenOwner(r)
            \/ LookupUserByEmail(r) \/ ConsumeRecoveryCode(r) \/ SetupReads(r) \/ EnableReads(r)
            \/ Act(r)

\* They leave every table alone.
LEMMA ReadsFrame ==
  ASSUME NEW r, Reads(r)
  PROVE  UNCHANGED <<user, session, token, assigned, code, secrets, events, held, bought>>
  BY DEF Reads, LookupSession, GetUser, PrincipalForUser, LookupAPIToken, TokenOwner,
     LookupUserByEmail, ConsumeRecoveryCode, SetupReads, EnableReads, Act, credVars

\* A request and its credential coming in leave them alone, too.
Arrives(r) == \/ \E u \in Users : Arrive(r, "login", None, u)
              \/ \E c \in Calls, x \in Credentials : Arrive(r, c[1], x, c[2])

\* Nothing but the request and the count of events changes.
LEMMA ArrivesFrame ==
  ASSUME UserPart, NEW r, Arrives(r)
  PROVE  /\ UNCHANGED <<user, session, token, assigned, code, locked, secrets, held, bought>>
         /\ events' \in 0 .. MaxEvents
  <1>1. /\ UNCHANGED <<user, session, token, assigned, code, locked, secrets, held, bought>>
        /\ Event
    BY DEF Arrives, Arrive, credVars
  <1> QED
    BY <1>1, SessionsAssumption DEF UserPart, Event

\* Logins, verifications and logouts change one session.
LEMMA LoginTables ==
  ASSUME Inv, NEW r \in Slots, NEW k \in SessionIds, CreateSession(r, k)
  PROVE  Tables' /\ Grows
  <1>1. /\ req[r].pc = "login" /\ session[k].state = "none"
        /\ session' = [session EXCEPT ![k] = [state |-> "live", user |-> req[r].user,
                                              passed |-> ~req[r].read]]
        /\ UNCHANGED <<user, token, assigned, held, secrets, events>>
    BY DEF CreateSession
  <1>2. Exists(req[r].user) /\ req[r].read \in BOOLEAN
    BY <1>1 DEF Inv, ReqPart, RequestFits
  <1>3. (~req[r].read) \in BOOLEAN
    BY <1>2
  <1>4. [state |-> "live", user |-> req[r].user, passed |-> ~req[r].read] \in SessionRows
    BY <1>2, <1>3 DEF SessionRows, Exists
  <1>5. events' \in 0 .. MaxEvents
    BY <1>1 DEF Inv, Tables, UserPart
  <1> QED
    BY <1>1, <1>2, <1>4, <1>5, SessionsStep DEF Inv

\* A verified session passes; an expired or deleted one is not live.
LEMMA ChangeTables ==
  ASSUME Inv, NEW k \in SessionIds, session[k].state # "none",
         UNCHANGED <<user, token, assigned, held, secrets>>, events' \in 0 .. MaxEvents,
         \/ session' = [session EXCEPT ![k].passed = TRUE]
         \/ session' = [session EXCEPT ![k].state = "gone"]
         \/ session' = [session EXCEPT ![k].state = "expired"]
  PROVE  Tables' /\ Grows
  <1>1. session[k] \in SessionRows /\ Exists(session[k].user)
    BY DEF Inv, Tables, SessionPart
  <1>2. PICK row \in SessionRows : /\ session' = [session EXCEPT ![k] = row]
                                   /\ row.state # "none" /\ row.user = session[k].user
    <2>1. CASE session' = [session EXCEPT ![k].passed = TRUE]
      <3>1. /\ [session[k] EXCEPT !.passed = TRUE] \in SessionRows
            /\ [session[k] EXCEPT !.passed = TRUE].user = session[k].user
            /\ [session[k] EXCEPT !.passed = TRUE].state = session[k].state
        BY <1>1 DEF SessionRows
      <3> QED
        BY <2>1, <3>1
    <2>2. ASSUME NEW st \in {"gone", "expired"}, session' = [session EXCEPT ![k].state = st]
          PROVE  \E row \in SessionRows : /\ session' = [session EXCEPT ![k] = row]
                                          /\ row.state # "none" /\ row.user = session[k].user
      <3>1. /\ [session[k] EXCEPT !.state = st] \in SessionRows
            /\ [session[k] EXCEPT !.state = st].user = session[k].user
            /\ [session[k] EXCEPT !.state = st].state = st
        BY <1>1 DEF SessionRows
      <3> QED
        BY <2>2, <3>1
    <2> QED
      BY <2>1, <2>2
  <1> QED
    BY <1>1, <1>2, SessionsStep DEF Inv

\* The row of an authenticated request's session is there, if only as gone.
LEMMA SessionOfRequest ==
  ASSUME Inv, NEW r \in Slots, req[r].pc # "idle", req[r].cred \in SessionIds
  PROVE  session[req[r].cred].state # "none"
  BY DEF Inv, ReqPart, RequestFits

\* Verifications and logouts, with a session or without.
LEMMA SessionTables ==
  ASSUME Inv, NEW r \in Slots, VerifyTOTP(r) \/ UpgradeSessionMFA(r) \/ Logout(r)
  PROVE  Tables' /\ Grows
  <1>1. /\ UNCHANGED <<user, token, assigned, held, secrets, events>>
        /\ req[r].pc # "idle"
        /\ \/ UNCHANGED session
           \/ /\ req[r].cred \in SessionIds
              /\ \/ session' = [session EXCEPT ![req[r].cred].passed = TRUE]
                 \/ session' = [session EXCEPT ![req[r].cred].state = "gone"]
    BY DEF VerifyTOTP, UpgradeSessionMFA, Logout, Upgradable
  <1>2. events' \in 0 .. MaxEvents /\ secrets' \in 0 .. MaxSecrets
    BY <1>1 DEF Inv, Tables, UserPart
  <1>3. CASE UNCHANGED session
    BY <1>1, <1>2, <1>3, TablesFrame DEF Inv
  <1>4. CASE /\ req[r].cred \in SessionIds
             /\ \/ session' = [session EXCEPT ![req[r].cred].passed = TRUE]
                \/ session' = [session EXCEPT ![req[r].cred].state = "gone"]
    BY <1>1, <1>2, <1>4, ChangeTables, SessionOfRequest
  <1> QED
    BY <1>1, <1>3, <1>4

\* Expiry.
LEMMA ExpiryTables ==
  ASSUME Inv
  PROVE  /\ \A k \in SessionIds : ExpireSession(k) => Tables' /\ Grows
         /\ \A t \in TokenIds : ExpireToken(t) => Tables' /\ Grows
  <1>1. ASSUME NEW k \in SessionIds, ExpireSession(k) PROVE Tables' /\ Grows
    <2>1. events' \in 0 .. MaxEvents
      BY <1>1, SessionsAssumption DEF ExpireSession, Event, Inv, Tables, UserPart
    <2> QED
      BY <1>1, <2>1, ChangeTables DEF ExpireSession
  <1>2. ASSUME NEW t \in TokenIds, ExpireToken(t) PROVE Tables' /\ Grows
    <2>1. events' \in 0 .. MaxEvents
      BY <1>2, SessionsAssumption DEF ExpireToken, Event, Inv, Tables, UserPart
    <2> QED
      BY <1>2, <2>1, TokenStateStep DEF ExpireToken, Inv
  <1> QED
    BY <1>1, <1>2

\* The second factor and the administration of users change rows of users that
\* exist, or make one.
LEMMA UserTables ==
  ASSUME Inv, NEW r \in Slots,
         \/ SetUserMFASecret(r)
         \/ \E c \in Codes : EnableUserMFA(r, c)
         \/ CreateUser(r)
         \/ UpdateUser(r)
  PROVE  Tables' /\ Grows
  <1> USE SessionsAssumption
  <1>0. UserPart
    BY DEF Inv, Tables
  <1>1. ASSUME SetUserMFASecret(r) PROVE Tables' /\ Grows
    <2>1. secrets' \in 0 .. MaxSecrets /\ secrets + 1 \in 0 .. MaxSecrets
            /\ user' = [user EXCEPT ![req[r].user].secret = secrets + 1]
            /\ UNCHANGED <<session, token, assigned, held, events>>
      BY <1>0, <1>1 DEF SetUserMFASecret, UserPart
    <2>2. user' \in [Users -> UserRows] /\ \A u \in Users : user'[u].status = user[u].status
      BY <1>0, <2>1 DEF UserPart, UserRows
    <2>3. UserPart'
      BY <1>0, <2>1, <2>2 DEF UserPart
    <2> QED
      BY <2>1, <2>2, <2>3, UsersStep DEF Inv
  <1>2. ASSUME NEW c \in Codes, EnableUserMFA(r, c) PROVE Tables' /\ Grows
    <2>1. user' = [user EXCEPT ![req[r].user].mfa = TRUE]
            /\ UNCHANGED <<session, token, assigned, held, secrets, events>>
      BY <1>2 DEF EnableUserMFA
    <2>2. user' \in [Users -> UserRows] /\ \A u \in Users : user'[u].status = user[u].status
      BY <1>0, <2>1 DEF UserPart, UserRows
    <2>3. UserPart'
      BY <1>0, <2>1, <2>2 DEF UserPart
    <2> QED
      BY <2>1, <2>2, <2>3, UsersStep DEF Inv
  <1>3. ASSUME CreateUser(r) \/ UpdateUser(r) PROVE Tables' /\ Grows
    <2>1. /\ UNCHANGED <<session, token, assigned, held, secrets, events>>
          /\ \/ user' = user
             \/ \E u \in Users, st \in {"active", "disabled"} : user' = [user EXCEPT ![u].status = st]
      <3>1. CASE CreateUser(r)
        <4>1. req[r].arg \in Users
          BY <3>1 DEF CreateUser, Inv, ReqPart, RequestFits, ArgFits
        <4> QED
          BY <3>1, <4>1 DEF CreateUser
      <3>2. CASE UpdateUser(r)
        <4>1. req[r].arg \in Changes
          BY <3>2 DEF UpdateUser, Inv, ReqPart, RequestFits, ArgFits
        <4>2. req[r].arg.user \in Users /\ req[r].arg.status \in {"active", "disabled"}
          BY <4>1 DEF Changes
        <4> QED
          BY <3>2, <4>2 DEF UpdateUser
      <3> QED
        BY <1>3, <3>1, <3>2
    <2>2. user' \in [Users -> UserRows]
            /\ \A u \in Users : user[u].status # "none" => user'[u].status # "none"
      BY <1>0, <2>1 DEF UserPart, UserRows
    <2>3. UserPart'
      BY <1>0, <2>1, <2>2 DEF UserPart
    <2> QED
      BY <2>1, <2>2, <2>3, UsersStep DEF Inv
  <1> QED
    BY <1>1, <1>2, <1>3

\* Assignments: held keeps every one that was ever made.
LEMMA AssignTables ==
  ASSUME Inv, NEW r \in Slots, CreateAssignment(r) \/ DeleteAssignment(r)
  PROVE  Tables' /\ Grows
  <1> USE SessionsAssumption
  <1>1. UNCHANGED <<user, session, token, secrets, events>>
    BY DEF CreateAssignment, DeleteAssignment
  <1>2. AssignPart' /\ \A u \in Users : held[u] \subseteq held'[u]
    <2>1. CASE CreateAssignment(r)
      <3>1. PICK a \in Assignables : a = req[r].arg /\ a.user \in Users
        BY <2>1 DEF CreateAssignment, Inv, ReqPart, RequestFits, ArgFits
      <3>2. CASE UNCHANGED <<assigned, held>>
        BY <3>2 DEF Inv, Tables, AssignPart
      <3>3. CASE /\ assigned' = assigned \cup {a}
                 /\ held' = [held EXCEPT ![a.user] = @ \cup {a}]
        BY <3>1, <3>3 DEF Inv, Tables, AssignPart
      <3> QED
        BY <2>1, <3>1, <3>2, <3>3 DEF CreateAssignment
    <2>2. CASE DeleteAssignment(r)
      BY <2>2 DEF DeleteAssignment, Inv, Tables, AssignPart
    <2> QED
      BY <2>1, <2>2
  <1>3. UserPart' /\ SessionPart' /\ TokenPart'
    BY <1>1 DEF Inv, Tables, UserPart, SessionPart, TokenPart, Exists
  <1>4. Grows
    BY <1>1, <1>2 DEF Grows, Exists
  <1> QED
    BY <1>2, <1>3, <1>4 DEF Tables

\* A new token: its row, its owner, its grant and the credential it is made
\* with.
LEMMA MintTables ==
  ASSUME Inv, NEW r \in Slots, NEW t \in TokenIds, CreateAPIToken(r, t)
  PROVE  Tables' /\ Grows
  <1>0. /\ UNCHANGED <<user, session, assigned, held, secrets, events>>
        /\ token[t] = NoApiToken
        /\ token' = token \/ token' = [token EXCEPT ![t] = Minted(r, req[r].arg)]
    BY DEF CreateAPIToken
  <1>1. /\ Exists(req[r].user) /\ req[r].arg \in Mintables
        /\ req[r].cred \in SessionIds \cup TokenIds
        /\ req[r].cred \in TokenIds => token[req[r].cred].state # "none"
    BY DEF CreateAPIToken, Inv, ReqPart, RequestRows, RequestFits, ArgFits
  <1>2. CASE token' = token
    <2>1. events' \in 0 .. MaxEvents /\ secrets' \in 0 .. MaxSecrets
      BY <1>0 DEF Inv, Tables, UserPart
    <2> QED
      BY <1>0, <1>2, <2>1, TablesFrame DEF Inv
  <1>3. CASE token' = [token EXCEPT ![t] = Minted(r, req[r].arg)]
    <2>1. /\ Minted(r, req[r].arg) \in TokenRows
          /\ Minted(r, req[r].arg).state = "live"
          /\ Minted(r, req[r].arg).user = req[r].user
          /\ Minted(r, req[r].arg).grant = req[r].arg
          /\ Minted(r, req[r].arg).by = req[r].cred
      BY <1>1 DEF Minted, TokenRows, Exists
    <2>2. /\ token' \in [TokenIds -> TokenRows]
          /\ token'[t] = Minted(r, req[r].arg)
          /\ \A u \in TokenIds : u # t => token'[u] = token[u]
      BY <1>3, <2>1 DEF Inv, Tables, TokenPart
    <2>3. token[t].state = "none"
      BY <1>0 DEF NoApiToken
    <2>4. TokenPart'
      BY <1>0, <1>1, <2>1, <2>2, <2>3 DEF Inv, Tables, TokenPart, Exists
    <2>5. UserPart' /\ SessionPart' /\ AssignPart'
      BY <1>0 DEF Inv, Tables, UserPart, SessionPart, AssignPart, Exists
    <2>6. Grows
      BY <1>0, <2>2, <2>3 DEF Grows, Exists
    <2> QED
      BY <2>4, <2>5, <2>6 DEF Tables
  <1> QED
    BY <1>0, <1>2, <1>3

\* Revoking a token.
LEMMA RevokeTables ==
  ASSUME Inv, NEW r \in Slots, RevokeAPIToken(r)
  PROVE  Tables' /\ Grows
  <1>0. /\ UNCHANGED <<user, session, assigned, held, secrets, events>>
        /\ \/ token' = token
           \/ /\ token[req[r].arg].state = "live"
              /\ token' = [token EXCEPT ![req[r].arg].state = "revoked"]
    BY DEF RevokeAPIToken
  <1>1. req[r].arg \in TokenIds
    BY DEF RevokeAPIToken, Inv, ReqPart, RequestFits, ArgFits
  <1>2. events' \in 0 .. MaxEvents /\ secrets' \in 0 .. MaxSecrets
    BY <1>0 DEF Inv, Tables, UserPart
  <1> QED
    BY <1>0, <1>1, <1>2, TablesFrame, TokenStateStep DEF Inv

\* What one request does in one step.
Step(r) == \/ Arrives(r) \/ Reads(r)
           \/ \E k \in SessionIds : CreateSession(r, k)
           \/ VerifyTOTP(r) \/ UpgradeSessionMFA(r) \/ Logout(r)
           \/ SetUserMFASecret(r) \/ \E c \in Codes : EnableUserMFA(r, c)
           \/ CreateUser(r) \/ UpdateUser(r) \/ CreateAssignment(r) \/ DeleteAssignment(r)
           \/ \E t \in TokenIds : CreateAPIToken(r, t)
           \/ RevokeAPIToken(r)

\* Expiry is nobody's step.
Expires == \/ \E k \in SessionIds : ExpireSession(k)
           \/ \E t \in TokenIds : ExpireToken(t)

\* Next, regrouped.
LEMMA NextSteps == Next <=> (\E r \in Slots : Step(r)) \/ Expires
  BY DEF Next, Step, Reads, Arrives, Expires

\* No step breaks the tables, or takes back what Grows says.
LEMMA TablesInv == Inv /\ [Next]_vars => Tables' /\ Grows
  <1> SUFFICES ASSUME Inv, [Next]_vars PROVE Tables' /\ Grows
    OBVIOUS
  <1>0. Tables /\ secrets \in 0 .. MaxSecrets /\ events \in 0 .. MaxEvents
    BY DEF Inv, Tables, UserPart
  <1>1. ASSUME NEW r \in Slots, Arrives(r) PROVE Tables' /\ Grows
    <2>1. /\ UNCHANGED <<user, session, token, assigned, held, secrets>>
          /\ events' \in 0 .. MaxEvents
      BY <1>0, <1>1, ArrivesFrame DEF Tables
    <2> QED
      BY <1>0, <2>1, TablesFrame
  <1>2. ASSUME NEW r \in Slots, Reads(r) PROVE Tables' /\ Grows
    <2>1. UNCHANGED <<user, session, token, assigned, held, secrets, events>>
      BY <1>2, ReadsFrame
    <2> QED
      BY <1>0, <2>1, TablesFrame
  <1>3. CASE UNCHANGED vars
    BY <1>0, <1>3, TablesFrame DEF vars, credVars
  <1>4. ASSUME NEW r \in Slots, Step(r) PROVE Tables' /\ Grows
    BY <1>1, <1>2, <1>4, LoginTables, SessionTables, UserTables, AssignTables, MintTables,
       RevokeTables DEF Step
  <1> QED
    BY <1>3, <1>4, NextSteps, ExpiryTables DEF Expires

-----------------------------------------------------------------------------
(* Requests.                                                               *)

\* A credential's row bounds its requests more loosely as time goes by.
LEMMA MostGrows ==
  ASSUME Tables, Grows, NEW cred \in SessionIds \cup TokenIds,
         cred \in SessionIds => session[cred].state # "none",
         cred \in TokenIds => token[cred].state # "none"
  PROVE  Most(cred) \subseteq Most(cred)'
  <1>1. CASE cred \in TokenIds
    BY <1>1 DEF Grows, Most
  <1>2. CASE cred \notin TokenIds
    <2>1. session[cred].user \in Users /\ session'[cred].user = session[cred].user
      BY <1>2 DEF Tables, SessionPart, Exists, Grows
    <2>2. held[session[cred].user] \subseteq held'[session'[cred].user]
      BY <2>1 DEF Grows
    <2> QED
      BY <1>2, <2>2 DEF Most
  <1> QED
    BY <1>1, <1>2

\* What holds of a request keeps holding while others move.
LEMMA OthersFit ==
  ASSUME Tables, Grows, ReqPart, NEW q \in Slots, req'[q] = req[q]
  PROVE  RequestFits(q)'
  <1>1. RequestFits(q) /\ req[q] \in RequestRows
    BY DEF ReqPart
  <1>2. req[q].pc # "idle" => /\ req[q].cred \in SessionIds => session'[req[q].cred].state # "none"
                              /\ req[q].cred \in TokenIds => token'[req[q].cred].state # "none"
    BY <1>1 DEF RequestFits, Grows
  <1>3. req[q].pc \notin {"idle", "arrived"} =>
          /\ Exists(req[q].user)'
          /\ req[q].cred \in SessionIds => session'[req[q].cred].user = req[q].user
          /\ req[q].cred \in TokenIds => token'[req[q].cred].user = req[q].user
    <2>1. Exists(req[q].user) => Exists(req[q].user)'
      BY DEF Grows, Exists
    <2> QED
      BY <1>1, <2>1 DEF RequestFits, Grows
  <1>4. req[q].pc = "owner" => req[q].grants = {token'[req[q].cred].grant}
    BY <1>1 DEF RequestFits, Grows
  <1>5. req[q].cred # None => req[q].grants \subseteq Most(req[q].cred)'
    <2>1. CASE req[q].pc = "idle"
      BY <1>1, <2>1 DEF RequestFits
    <2>2. CASE req[q].pc # "idle" /\ req[q].cred # None
      <3>1. PICK cred \in SessionIds \cup TokenIds : cred = req[q].cred
        BY <1>1, <2>2 DEF RequestRows
      <3>2. Most(cred) \subseteq Most(cred)'
        BY <1>1, <2>2, <3>1, MostGrows DEF RequestFits
      <3>3. req[q].grants \subseteq Most(cred) /\ cred = req'[q].cred
        BY <1>1, <2>2, <3>1 DEF RequestFits
      <3> QED
        BY <3>1, <3>2, <3>3 DEF Most
    <2> QED
      BY <2>1, <2>2
  <1> QED
    BY <1>1, <1>2, <1>3, <1>4, <1>5 DEF RequestFits, Most

\* One request moves and fits again; the others stay.
LEMMA MoveFits ==
  ASSUME Inv, Grows, NEW r \in Slots, NEW row \in RequestRows, req' = [req EXCEPT ![r] = row],
         RequestFits(r)'
  PROVE  ReqPart'
  <1>1. /\ req' \in [Slots -> RequestRows]
        /\ \A q \in Slots : q # r => req'[q] = req[q]
    BY DEF Inv, ReqPart
  <1>2. \A q \in Slots : RequestFits(q)'
    BY <1>1, OthersFit DEF Inv
  <1> QED
    BY <1>1, <1>2 DEF ReqPart

\* A request that is over.
LEMMA FinishFits ==
  ASSUME Inv, Grows, NEW r \in Slots, Finish(r)
  PROVE  ReqPart'
  <1>1. NoRequest \in RequestRows
    BY DEF NoRequest, RequestRows, Pcs, Kinds, Args
  <1>2. req'[r] = NoRequest /\ req' = [req EXCEPT ![r] = NoRequest]
    BY DEF Finish, Inv, ReqPart
  <1>3. RequestFits(r)'
    BY <1>2 DEF RequestFits, NoRequest
  <1> QED
    BY <1>1, <1>2, <1>3, MoveFits

\* What clients send fits the route they send it to.
LEMMA CallsFit ==
  ASSUME Inv, NEW c \in Calls
  PROVE  c[1] \in Kinds \ {"login"} /\ c[2] \in Args /\ ArgFits(c[1], c[2])
  <1> USE DEF Kinds, Args, ArgFits
  <1>1. CASE c \in {<<"logout", None>>, <<"setup", None>>, <<"enable", None>>, <<"act", None>>}
    BY <1>1
  <1>2. CASE c \in {<<"verify", x>> : x \in Codes \cup {"totp"}}
    BY <1>2
  <1>3. CASE c \in {<<"create_user", u>> : u \in Users}
    BY <1>3
  <1>4. CASE c \in {<<"update_user", [user |-> u, status |-> s]>> :
                      u \in Users, s \in {"active", "disabled"}}
    BY <1>4 DEF Changes
  <1>5. CASE c \in {<<"assign", a>> : a \in Assignables}
    BY <1>5
  <1>6. CASE c \in {<<"unassign", a>> : a \in assigned}
    BY <1>6 DEF Inv, Tables, AssignPart
  <1>7. CASE c \in {<<"mint", m>> : m \in Mintables}
    BY <1>7
  <1>8. CASE c \in {<<"revoke", t>> : t \in TokenIds}
    BY <1>8
  <1> QED
    BY <1>1, <1>2, <1>3, <1>4, <1>5, <1>6, <1>7, <1>8 DEF Calls

\* A request that comes in.
LEMMA ArriveFits ==
  ASSUME Inv, Grows, NEW r \in Slots, Arrives(r)
  PROVE  ReqPart'
  <1>1. PICK kind \in Kinds, arg \in Args, cred \in SessionIds \cup TokenIds \cup {None} :
          /\ Arrive(r, kind, cred, arg)
          /\ ArgFits(kind, arg)
          /\ kind = "login" => cred = None
          /\ cred \in SessionIds => session[cred].state # "none"
          /\ cred \in TokenIds => token[cred].state # "none"
    <2>1. ASSUME NEW u \in Users, Arrive(r, "login", None, u)
          PROVE  "login" \in Kinds /\ u \in Args /\ ArgFits("login", u)
      BY DEF Kinds, Args, ArgFits
    <2>2. ASSUME NEW c \in Calls, NEW x \in Credentials, Arrive(r, c[1], x, c[2])
          PROVE  /\ c[1] \in Kinds \ {"login"} /\ c[2] \in Args /\ ArgFits(c[1], c[2])
                 /\ x \in SessionIds \cup TokenIds
                 /\ x \in SessionIds => session[x].state # "none"
                 /\ x \in TokenIds => token[x].state # "none"
      <3>1. c[1] \in Kinds \ {"login"} /\ c[2] \in Args /\ ArgFits(c[1], c[2])
        BY CallsFit
      <3>2. /\ x \in SessionIds \cup TokenIds
            /\ x \in SessionIds => session[x].state # "none"
            /\ x \in TokenIds => token[x].state # "none"
        BY SessionsAssumption DEF Credentials, Inv, Tables, TokenPart
      <3> QED
        BY <3>1, <3>2
    <2> QED
      BY <2>1, <2>2, SessionsAssumption DEF Arrives
  <1> DEFINE row == [NoRequest EXCEPT !.pc = "arrived", !.kind = kind, !.cred = cred, !.arg = arg]
  <1>2. NoRequest \in RequestRows /\ NoRequest.grants = {}
    BY DEF NoRequest, RequestRows, Pcs, Kinds, Args
  <1>3. /\ row \in RequestRows /\ row.pc = "arrived" /\ row.kind = kind /\ row.cred = cred
        /\ row.arg = arg /\ row.grants = {}
    BY <1>1, <1>2 DEF RequestRows, Pcs
  <1>4. req' = [req EXCEPT ![r] = row] /\ UNCHANGED <<session, token>>
    BY <1>1 DEF Arrive, credVars
  <1> HIDE DEF row
  <1>5. req'[r] = row
    BY <1>4 DEF Inv, ReqPart
  <1>6. RequestFits(r)'
    BY <1>1, <1>3, <1>4, <1>5 DEF RequestFits
  <1> QED
    BY <1>3, <1>4, <1>6, MoveFits

\* A request that goes on in its handler, or with its grants.
LEMMA GotoFits ==
  ASSUME Inv, Grows, NEW r \in Slots, NEW step \in {"grants", "upgrade", "setup", "enable"},
         req[r].pc = IF step = "grants" THEN "principal" ELSE "handler", Goto(r, step), UNCHANGED <<user, session, token, held>>
  PROVE  ReqPart'
  <1> DEFINE row == [req[r] EXCEPT !.pc = step]
  <1>1. req[r] \in RequestRows /\ RequestFits(r)
    BY DEF Inv, ReqPart
  <1>2. /\ row \in RequestRows /\ row.pc = step /\ row.kind = req[r].kind
        /\ row.cred = req[r].cred /\ row.arg = req[r].arg /\ row.user = req[r].user
        /\ row.grants = req[r].grants
    BY <1>1 DEF RequestRows, Pcs
  <1>3. req' = [req EXCEPT ![r] = row]
    BY DEF Goto, Inv, ReqPart
  <1> HIDE DEF row
  <1>4. req'[r] = row
    BY <1>3 DEF Inv, ReqPart
  <1>5. RequestFits(r)'
    BY <1>1, <1>2, <1>4 DEF RequestFits, Exists, Most
  <1> QED
    BY <1>2, <1>3, <1>5, MoveFits

\* requireAuth: the request takes the user of its credential, ...
LEMMA LookupFits ==
  ASSUME Inv, Grows, NEW r \in Slots, UNCHANGED <<user, session, token, held>>,
         LookupSession(r) \/ LookupAPIToken(r) \/ LookupUserByEmail(r)
  PROVE  ReqPart'
  <1>0. req[r] \in RequestRows /\ RequestFits(r) /\ req[r].pc = "arrived" /\ req[r].grants = {}
    BY DEF Inv, ReqPart, RequestFits, LookupSession, LookupAPIToken, LookupUserByEmail
  <1>1. CASE Finish(r)
    BY <1>1, FinishFits
  <1>2. ASSUME LookupSession(r), ~Finish(r) PROVE ReqPart'
    <2>1. PICK k \in SessionIds : k = req[r].cred
      BY <1>2 DEF LookupSession
    <2>2. PICK step \in {"principal", "handler"} :
            req' = [req EXCEPT ![r].user = session[k].user, ![r].pc = step]
      BY <1>2, <2>1 DEF LookupSession
    <2>3. session[k].state # "none" /\ Exists(session[k].user)
      BY <1>0, <2>1 DEF RequestFits, Inv, Tables, SessionPart
    <2> DEFINE row == [req[r] EXCEPT !.user = session[k].user, !.pc = step]
    <2>4. /\ row \in RequestRows /\ row.pc = step /\ row.kind = req[r].kind
          /\ row.cred = k /\ row.arg = req[r].arg /\ row.user = session[k].user
          /\ row.grants = {}
      BY <1>0, <2>1, <2>3 DEF RequestRows, Pcs, Exists
    <2>5. req' = [req EXCEPT ![r] = row]
      BY <2>2 DEF Inv, ReqPart
    <2> HIDE DEF row
    <2>6. req'[r] = row
      BY <2>5 DEF Inv, ReqPart
    <2>7. RequestFits(r)'
      BY <1>0, <2>1, <2>3, <2>4, <2>6, SessionsAssumption DEF RequestFits, Exists
    <2> QED
      BY <2>4, <2>5, <2>7, MoveFits
  <1>3. ASSUME LookupAPIToken(r), ~Finish(r) PROVE ReqPart'
    <2>1. PICK t \in TokenIds : t = req[r].cred
      BY <1>3 DEF LookupAPIToken
    <2>2. req' = [req EXCEPT ![r].pc = "owner", ![r].user = token[t].user,
                             ![r].grants = {token[t].grant}]
      BY <1>3, <2>1 DEF LookupAPIToken
    <2>3. token[t].state # "none" /\ Exists(token[t].user) /\ {token[t].grant} \in SUBSET Grants
      BY <1>0, <2>1 DEF RequestFits, Inv, Tables, TokenPart, Grants
    <2> DEFINE row == [req[r] EXCEPT !.pc = "owner", !.user = token[t].user,
                                     !.grants = {token[t].grant}]
    <2>4. /\ row \in RequestRows /\ row.pc = "owner" /\ row.kind = req[r].kind
          /\ row.cred = t /\ row.arg = req[r].arg /\ row.user = token[t].user
          /\ row.grants = {token[t].grant}
      BY <1>0, <2>1, <2>3 DEF RequestRows, Pcs, Exists
    <2>5. req' = [req EXCEPT ![r] = row]
      BY <2>2 DEF Inv, ReqPart
    <2> HIDE DEF row
    <2>6. req'[r] = row
      BY <2>5 DEF Inv, ReqPart
    <2>7. RequestFits(r)'
      BY <1>0, <2>1, <2>3, <2>4, <2>6, SessionsAssumption DEF RequestFits, Exists, Most
    <2> QED
      BY <2>4, <2>5, <2>7, MoveFits
  <1>4. ASSUME LookupUserByEmail(r), ~Finish(r) PROVE ReqPart'
    <2>1. PICK u \in Users : u = req[r].arg /\ user[u].status = "active"
      BY <1>0, <1>4 DEF LookupUserByEmail, RequestFits, ArgFits
    <2>2. req' = [req EXCEPT ![r].pc = "login", ![r].user = u, ![r].read = user[u].mfa]
      BY <1>4, <2>1 DEF LookupUserByEmail
    <2>3. user[u].mfa \in BOOLEAN /\ req[r].cred = None
      BY <1>0, <1>4, <2>1 DEF Inv, Tables, UserPart, UserRows, LookupUserByEmail, RequestFits
    <2> DEFINE row == [req[r] EXCEPT !.pc = "login", !.user = u, !.read = user[u].mfa]
    <2>4. /\ row \in RequestRows /\ row.pc = "login" /\ row.kind = req[r].kind
          /\ row.cred = None /\ row.arg = req[r].arg /\ row.user = u /\ row.read = user[u].mfa
          /\ row.grants = {}
      BY <1>0, <2>3 DEF RequestRows, Pcs
    <2>5. req' = [req EXCEPT ![r] = row]
      BY <2>2 DEF Inv, ReqPart
    <2> HIDE DEF row
    <2>6. req'[r] = row
      BY <2>5 DEF Inv, ReqPart
    <2>7. RequestFits(r)'
      BY <1>0, <2>1, <2>3, <2>4, <2>6, SessionsAssumption DEF RequestFits, Exists
    <2> QED
      BY <2>4, <2>5, <2>7, MoveFits
  <1> QED
    BY <1>1, <1>2, <1>3, <1>4

\* ... the grants of an active user or the one of the token, and the handler.
LEMMA DispatchFits ==
  ASSUME Inv, Grows, NEW r \in Slots, UNCHANGED <<user, session, token, held>>,
         PrincipalForUser(r) \/ TokenOwner(r)
  PROVE  ReqPart'
  <1>0. req[r] \in RequestRows /\ RequestFits(r) /\ req[r].pc \in {"grants", "owner"}
    BY DEF Inv, ReqPart, PrincipalForUser, TokenOwner
  <1>1. CASE Finish(r)
    BY <1>1, FinishFits
  <1>2. ASSUME ~Finish(r) PROVE ReqPart'
    <2>1. PICK grants \in SUBSET Grants :
            /\ req' = [req EXCEPT ![r].pc = "handler", ![r].grants = grants]
            /\ grants \subseteq Most(req[r].cred)
      <3>1. CASE PrincipalForUser(r)
        <4>1. req' = [req EXCEPT ![r].pc = "handler", ![r].grants = GrantsForUser(req[r].user)]
          BY <1>2, <3>1 DEF PrincipalForUser, Dispatch
        <4>2. /\ req[r].cred \in SessionIds \ TokenIds
              /\ session[req[r].cred].user = req[r].user
          BY <1>0, <3>1, SessionsAssumption DEF RequestFits, PrincipalForUser
        <4>3. GrantsForUser(req[r].user) \subseteq {Grant(a) : a \in held[req[r].user]}
          BY DEF GrantsForUser, Inv, Tables, AssignPart
        <4>4. GrantsForUser(req[r].user) \in SUBSET Grants
          BY DEF GrantsForUser, Grants, Inv, Tables, AssignPart
        <4> QED
          BY <4>1, <4>2, <4>3, <4>4 DEF Most
      <3>2. CASE TokenOwner(r)
        <4>1. req' = [req EXCEPT ![r].pc = "handler", ![r].grants = req[r].grants]
          BY <1>2, <3>2 DEF TokenOwner, Dispatch
        <4>2. req[r].cred # None /\ req[r].grants \in SUBSET Grants
                /\ req[r].grants \subseteq Most(req[r].cred)
          BY <1>0, <3>2 DEF RequestFits, RequestRows, TokenOwner
        <4> QED
          BY <4>1, <4>2
      <3> QED
        BY <3>1, <3>2
    <2> DEFINE row == [req[r] EXCEPT !.pc = "handler", !.grants = grants]
    <2>2. /\ row \in RequestRows /\ row.pc = "handler" /\ row.kind = req[r].kind
          /\ row.cred = req[r].cred /\ row.arg = req[r].arg /\ row.user = req[r].user
          /\ row.grants = grants
      BY <1>0, <2>1 DEF RequestRows, Pcs
    <2>3. req' = [req EXCEPT ![r] = row]
      BY <2>1 DEF Inv, ReqPart
    <2> HIDE DEF row
    <2>4. req'[r] = row
      BY <2>3 DEF Inv, ReqPart
    <2>5. RequestFits(r)'
      BY <1>0, <2>1, <2>2, <2>4 DEF RequestFits, Exists, Most
    <2> QED
      BY <2>2, <2>3, <2>5, MoveFits
  <1> QED
    BY <1>1, <1>2

\* Every step keeps the requests fit.
LEMMA ReqInv == Inv /\ [Next]_vars => ReqPart'
  <1> SUFFICES ASSUME Inv, [Next]_vars PROVE ReqPart'
    OBVIOUS
  <1>0. Grows /\ Tables /\ ReqPart
    BY TablesInv DEF Inv
  <1>1. ASSUME req' = req PROVE ReqPart'
    <2>1. \A q \in Slots : RequestFits(q)'
      BY <1>0, <1>1, OthersFit
    <2> QED
      BY <1>0, <1>1, <2>1 DEF ReqPart
  <1>2. ASSUME NEW r \in Slots, Reads(r) PROVE ReqPart'
    <2>0. UNCHANGED <<user, session, token, held>>
      BY <1>2, ReadsFrame
    <2>1. CASE LookupSession(r) \/ LookupAPIToken(r) \/ LookupUserByEmail(r)
      BY <1>0, <2>0, <2>1, LookupFits
    <2>2. CASE PrincipalForUser(r) \/ TokenOwner(r)
      BY <1>0, <2>0, <2>2, DispatchFits
    <2>3. CASE ConsumeRecoveryCode(r) \/ SetupReads(r) \/ EnableReads(r) \/ Act(r)
      <3>1. \/ Finish(r)
            \/ /\ req[r].pc = "handler"
               /\ \E step \in {"upgrade", "setup", "enable"} : Goto(r, step)
        BY <2>3 DEF ConsumeRecoveryCode, SetupReads, EnableReads, Act
      <3> QED
        BY <1>0, <2>0, <3>1, FinishFits, GotoFits
    <2>4. CASE GetUser(r)
      <3>1. Finish(r) \/ (req[r].pc = "principal" /\ Goto(r, "grants"))
        BY <2>4 DEF GetUser
      <3> QED
        BY <1>0, <2>0, <3>1, FinishFits, GotoFits
    <2> QED
      BY <1>2, <2>1, <2>2, <2>3, <2>4 DEF Reads
  <1>3. ASSUME NEW r \in Slots, Step(r), ~Arrives(r), ~Reads(r) PROVE Finish(r)
    BY <1>3 DEF Step, CreateSession, VerifyTOTP, UpgradeSessionMFA, Logout, SetUserMFASecret,
       EnableUserMFA, CreateUser, UpdateUser, CreateAssignment, DeleteAssignment, CreateAPIToken,
       RevokeAPIToken
  <1>4. Expires \/ UNCHANGED vars => req' = req
    BY DEF Expires, ExpireSession, ExpireToken, vars
  <1> QED
    BY <1>0, <1>1, <1>2, <1>3, <1>4, NextSteps, ArriveFits, FinishFits

-----------------------------------------------------------------------------
(* Recovery codes.                                                         *)

\* A step in which no request takes or gives back a code.
LEMMA CodeFrame ==
  ASSUME CodePart, UNCHANGED <<code, bought, locked>>,
         \A s \in Slots : /\ req'[s].pc = "upgrade" <=> req[s].pc = "upgrade"
                          /\ req[s].pc = "upgrade" => req'[s].arg = req[s].arg
  PROVE  CodePart'
  <1>1. locked' = {req'[r].arg : r \in {s \in Slots : req'[s].pc = "upgrade"}}
    BY DEF CodePart
  <1>2. CodeBuysOneSession'
    BY DEF CodePart, CodeBuysOneSession
  <1> QED
    BY <1>1, <1>2 DEF CodePart

\* ConsumeRecoveryCode: nobody else has the code, and it is unused.
LEMMA ConsumeCode ==
  ASSUME Inv, NEW r \in Slots, ConsumeRecoveryCode(r)
  PROVE  CodePart'
  <1>0. /\ CodePart /\ req \in [Slots -> RequestRows] /\ req[r].pc = "handler"
        /\ UNCHANGED <<code, bought>>
    BY DEF Inv, ReqPart, ConsumeRecoveryCode, credVars
  <1>1. ASSUME Finish(r), UNCHANGED locked PROVE CodePart'
    <2>1. \A s \in Slots : req'[s] = IF s = r THEN NoRequest ELSE req[s]
      BY <1>0, <1>1 DEF Finish
    <2> QED
      BY <1>0, <1>1, <2>1, CodeFrame DEF NoRequest
  <1>2. ASSUME NEW c \in Codes \ locked, c = req[r].arg, Goto(r, "upgrade"),
               code[c] = [user |-> req[r].user, used |-> FALSE], locked' = locked \cup {c}
        PROVE  CodePart'
    <2>1. /\ req'[r].pc = "upgrade" /\ req'[r].arg = c
          /\ \A s \in Slots : s # r => req'[s] = req[s]
      BY <1>0, <1>2 DEF Goto, RequestRows
    <2>2. locked' = {req'[s].arg : s \in {q \in Slots : req'[q].pc = "upgrade"}}
      BY <1>0, <1>2, <2>1 DEF CodePart
    <2>3. \A s \in Slots : req[s].pc = "upgrade" => req[s].arg # c
      BY <1>2, <1>0 DEF CodePart
    <2>4. ~code'[c].used
      BY <1>0, <1>2
    <2>5. CodeBuysOneSession'
      BY <1>0 DEF CodePart, CodeBuysOneSession
    <2> QED
      BY <1>0, <2>1, <2>2, <2>3, <2>4, <2>5 DEF CodePart
  <1> QED
    BY <1>1, <1>2 DEF ConsumeRecoveryCode

\* UpgradeSessionMFA: the code goes with its request, used or given back.
LEMMA UpgradeCode ==
  ASSUME Inv, NEW r \in Slots, UpgradeSessionMFA(r)
  PROVE  CodePart'
  <1>0. CodePart /\ req \in [Slots -> RequestRows] /\ req[r].pc = "upgrade" /\ Finish(r)
    BY DEF Inv, ReqPart, UpgradeSessionMFA
  <1>1. PICK c \in Codes : c = req[r].arg /\ ~code[c].used
    BY <1>0 DEF CodePart
  <1>2. locked' = locked \ {c}
          /\ \/ /\ code' = [code EXCEPT ![c].used = TRUE]
                /\ bought' = [bought EXCEPT ![c] = @ + 1]
             \/ UNCHANGED <<code, bought>>
    BY <1>1 DEF UpgradeSessionMFA
  <1>3. /\ req'[r].pc = "idle"
        /\ \A s \in Slots : s # r => req'[s] = req[s]
    BY <1>0 DEF Finish, NoRequest
  <1>4. \A s \in Slots : s # r /\ req[s].pc = "upgrade" => req[s].arg # c
    BY <1>0, <1>1 DEF CodePart
  <1>5. locked' = {req'[s].arg : s \in {q \in Slots : req'[q].pc = "upgrade"}}
    BY <1>0, <1>1, <1>2, <1>3, <1>4 DEF CodePart
  <1>6. /\ code' \in [Codes -> [user : Users \cup {None}, used : BOOLEAN]]
        /\ \A d \in Codes : d # c => code'[d] = code[d]
    BY <1>0, <1>2 DEF CodePart
  <1>7. bought' \in [Codes -> Nat] /\ CodeBuysOneSession'
    <2>1. bought[c] = 0
      BY <1>0, <1>1 DEF CodePart, CodeBuysOneSession
    <2>2. CASE UNCHANGED <<code, bought>>
      BY <1>0, <2>2 DEF CodePart, CodeBuysOneSession
    <2>3. CASE /\ code' = [code EXCEPT ![c].used = TRUE]
               /\ bought' = [bought EXCEPT ![c] = @ + 1]
      <3>1. code'[c].used = TRUE /\ bought'[c] = 1 /\ bought' \in [Codes -> Nat]
              /\ \A d \in Codes : d # c => bought'[d] = bought[d]
        BY <1>0, <2>1, <2>3 DEF CodePart
      <3> QED
        BY <1>0, <1>6, <3>1 DEF CodePart, CodeBuysOneSession
    <2> QED
      BY <1>2, <2>2, <2>3
  <1>8. \A s \in Slots : req'[s].pc = "upgrade" =>
          /\ s # r /\ req'[s] = req[s]
          /\ req[s].arg \in Codes /\ ~code[req[s].arg].used /\ code'[req[s].arg] = code[req[s].arg]
    BY <1>0, <1>3, <1>4, <1>6 DEF CodePart
  <1>9. \A q, s \in Slots : req'[q].pc = "upgrade" /\ req'[s].pc = "upgrade" /\ q # s =>
          req'[q].arg # req'[s].arg
    BY <1>0, <1>8 DEF CodePart
  <1> QED
    BY <1>5, <1>6, <1>7, <1>8, <1>9 DEF CodePart

\* EnableUserMFA: fresh codes are unused.
LEMMA EnableCode ==
  ASSUME Inv, NEW r \in Slots, NEW c \in Codes, EnableUserMFA(r, c)
  PROVE  CodePart'
  <1>0. /\ CodePart /\ req \in [Slots -> RequestRows] /\ req[r].pc = "enable" /\ Finish(r)
        /\ code' = [code EXCEPT ![c].user = req[r].user] /\ UNCHANGED <<locked, bought>>
    BY DEF Inv, ReqPart, EnableUserMFA
  <1>1. req[r].user \in Users
    BY <1>0 DEF Inv, ReqPart, RequestFits, Exists
  <1>2. /\ code' \in [Codes -> [user : Users \cup {None}, used : BOOLEAN]]
        /\ \A d \in Codes : code'[d].used = code[d].used
    BY <1>0, <1>1 DEF CodePart
  <1>3. \A s \in Slots : req'[s] = IF s = r THEN NoRequest ELSE req[s]
    BY <1>0 DEF Finish
  <1>4. locked' = {req'[s].arg : s \in {q \in Slots : req'[q].pc = "upgrade"}}
    BY <1>0, <1>3 DEF CodePart, NoRequest
  <1>5. CodeBuysOneSession'
    BY <1>0, <1>2 DEF CodePart, CodeBuysOneSession
  <1> QED
    BY <1>0, <1>2, <1>3, <1>4, <1>5 DEF CodePart, NoRequest

\* The steps that have to do with no code.
LEMMA NoCodeSteps ==
  ASSUME Inv, NEW r \in Slots, Step(r), ~ConsumeRecoveryCode(r), ~UpgradeSessionMFA(r),
         \A c \in Codes : ~EnableUserMFA(r, c)
  PROVE  CodePart'
  <1>0. CodePart /\ req \in [Slots -> RequestRows] /\ UserPart
    BY DEF Inv, ReqPart, Tables
  <1>1. /\ UNCHANGED <<code, bought, locked>>
        /\ req[r].pc # "upgrade"
        /\ \A s \in Slots : s # r => req'[s] = req[s]
        /\ req'[r].pc # "upgrade"
    <2>1. CASE Arrives(r)
      <3>1. PICK kind, cred, arg : Arrive(r, kind, cred, arg)
        BY <2>1 DEF Arrives
      <3> DEFINE row == [NoRequest EXCEPT !.pc = "arrived", !.kind = kind, !.cred = cred, !.arg = arg]
      <3>2. req[r].pc # "upgrade" /\ req' = [req EXCEPT ![r] = row]
        BY <3>1 DEF Arrive
      <3>3. row.pc = "arrived"
        BY DEF NoRequest
      <3> HIDE DEF row
      <3> QED
        BY <1>0, <2>1, <3>2, <3>3, ArrivesFrame
    <2>2. CASE LookupSession(r) \/ GetUser(r) \/ PrincipalForUser(r) \/ LookupAPIToken(r) \/ TokenOwner(r)
                 \/ LookupUserByEmail(r) \/ SetupReads(r) \/ EnableReads(r) \/ Act(r)
      <3>1. UNCHANGED <<code, bought, locked>> /\ req[r].pc # "upgrade"
        BY <2>2 DEF LookupSession, GetUser, PrincipalForUser, LookupAPIToken, TokenOwner,
           LookupUserByEmail, SetupReads, EnableReads, Act, credVars
      <3>2. req'[r].pc # "upgrade" /\ \A s \in Slots : s # r => req'[s] = req[s]
        <4>1. CASE Finish(r)
          BY <1>0, <4>1 DEF Finish, NoRequest
        <4>2. CASE LookupSession(r) /\ ~Finish(r)
          <5>1. PICK p \in {"principal", "handler"} :
                  req' = [req EXCEPT ![r].user = session[req[r].cred].user, ![r].pc = p]
            BY <4>2 DEF LookupSession
          <5> QED
            BY <1>0, <5>1 DEF RequestRows
        <4>3. CASE LookupAPIToken(r) /\ ~Finish(r)
          BY <1>0, <4>3 DEF LookupAPIToken, RequestRows
        <4>4. CASE LookupUserByEmail(r) /\ ~Finish(r)
          BY <1>0, <4>4 DEF LookupUserByEmail, RequestRows
        <4>5. CASE (PrincipalForUser(r) \/ TokenOwner(r)) /\ ~Finish(r)
          BY <1>0, <4>5 DEF PrincipalForUser, TokenOwner, Dispatch, RequestRows
        <4>6. CASE (GetUser(r) \/ SetupReads(r) \/ EnableReads(r) \/ Act(r)) /\ ~Finish(r)
          BY <1>0, <4>6 DEF GetUser, SetupReads, EnableReads, Act, Goto, RequestRows
        <4> QED
          BY <2>2, <4>1, <4>2, <4>3, <4>4, <4>5, <4>6
      <3> QED
        BY <3>1, <3>2
    <2>3. CASE ~Arrives(r) /\ ~Reads(r)
      <3>1. UNCHANGED <<code, bought, locked>> /\ req[r].pc # "upgrade" /\ Finish(r)
        BY <2>3 DEF Step, CreateSession, VerifyTOTP, Logout, SetUserMFASecret, CreateUser,
           UpdateUser, CreateAssignment, DeleteAssignment, CreateAPIToken, RevokeAPIToken
      <3> QED
        BY <1>0, <3>1 DEF Finish, NoRequest
    <2> QED
      BY <2>1, <2>2, <2>3 DEF Reads
  <1> QED
    BY <1>0, <1>1, CodeFrame

\* Every step keeps the codes right.
LEMMA CodeInv == Inv /\ [Next]_vars => CodePart'
  <1> SUFFICES ASSUME Inv, [Next]_vars PROVE CodePart'
    OBVIOUS
  <1>1. ASSUME Expires \/ UNCHANGED vars PROVE CodePart'
    <2>1. UNCHANGED <<code, bought, locked, req>>
      BY <1>1 DEF Expires, ExpireSession, ExpireToken, vars, credVars
    <2> QED
      BY <2>1, CodeFrame DEF Inv
  <1> QED
    BY <1>1, NextSteps, NoCodeSteps, ConsumeCode, UpgradeCode, EnableCode

-----------------------------------------------------------------------------
(* The history of the requests in flight.                                  *)

\* Every step keeps it.
LEMMA StepCarries == Next => Carry
  <1>1. \A r \in Slots : Arrives(r) => Carry
    BY DEF Arrives, Arrive
  <1>2. \A r \in Slots : Reads(r) => Carry
    BY DEF Reads, LookupSession, GetUser, PrincipalForUser, LookupAPIToken, TokenOwner,
     LookupUserByEmail, ConsumeRecoveryCode, SetupReads, EnableReads, Act
  <1>3. \A r \in Slots : Step(r) => Carry
    BY <1>1, <1>2 DEF Step, CreateSession, VerifyTOTP, UpgradeSessionMFA, Logout, SetUserMFASecret,
       EnableUserMFA, CreateUser, UpdateUser, CreateAssignment, DeleteAssignment, CreateAPIToken,
       RevokeAPIToken
  <1>4. Expires => Carry
    BY DEF Expires, ExpireSession, ExpireToken
  <1> QED
    BY <1>3, <1>4, NextSteps

\* It only grows while a request is in flight.
LEMMA CarryGrows ==
  ASSUME CarryPart, Tables', Carry
  PROVE  /\ carried' \in [Slots -> Notes]
         /\ \A r \in Slots : req'[r].pc # "idle" =>
              /\ carried[r].live \/ Live(req[r].cred)' => carried'[r].live
              /\ carried[r].active \/ OfActive(req[r].cred)' => carried'[r].active
              /\ carried[r].grants \cup Carries(req[r].cred)' \subseteq carried'[r].grants
  <1>1. ASSUME NEW r \in Slots
        PROVE  /\ carried'[r] \in Notes
               /\ req'[r].pc # "idle" =>
                    /\ carried[r].live \/ Live(req[r].cred)' => carried'[r].live
                    /\ carried[r].active \/ OfActive(req[r].cred)' => carried'[r].active
                    /\ carried[r].grants \cup Carries(req[r].cred)' \subseteq carried'[r].grants
    <2>1. CASE req'[r].pc = "idle"
      BY <2>1 DEF Carry, Unused, Notes
    <2>2. CASE req'[r].pc # "idle"
      <3>1. carried'[r] = [live |-> carried[r].live \/ Live(req[r].cred)',
                           active |-> carried[r].active \/ OfActive(req[r].cred)',
                           grants |-> carried[r].grants \cup Carries(req[r].cred)']
        BY <2>2 DEF Carry
      <3>2. /\ (carried[r].live \/ Live(req[r].cred)') \in BOOLEAN
            /\ (carried[r].active \/ OfActive(req[r].cred)') \in BOOLEAN
        OBVIOUS
      <3>3. Carries(req[r].cred)' \subseteq Grants
        <4>1. \A u : GrantsForUser(u)' \subseteq Grants
          BY DEF GrantsForUser, Grants, Tables, AssignPart
        <4>2. ASSUME NEW t \in TokenIds, token'[t].user # None
              PROVE  token'[t].grant \in Grants
          BY <4>2 DEF Tables, TokenPart, NoApiToken, Grants
        <4> QED
          BY <4>1, <4>2 DEF Carries, GrantsForUser
      <3>4. carried[r].grants \cup Carries(req[r].cred)' \in SUBSET Grants
        BY <3>3 DEF CarryPart, Notes
      <3>5. PICK l \in BOOLEAN, a \in BOOLEAN, g \in SUBSET Grants :
              /\ l = (carried[r].live \/ Live(req[r].cred)')
              /\ a = (carried[r].active \/ OfActive(req[r].cred)')
              /\ g = carried[r].grants \cup Carries(req[r].cred)'
        BY <3>2, <3>4
      <3>6. carried'[r] = [live |-> l, active |-> a, grants |-> g]
        BY <3>1, <3>5
      <3>7. /\ (carried[r].live \/ Live(req[r].cred)') => l
            /\ (carried[r].active \/ OfActive(req[r].cred)') => a
        BY <3>5
      <3>8. /\ carried'[r] \in Notes
            /\ carried'[r].live = l /\ carried'[r].active = a /\ carried'[r].grants = g
        BY <3>6 DEF Notes
      <3> QED
        BY <3>5, <3>7, <3>8
    <2> QED
      BY <2>1, <2>2
  <1> QED
    BY <1>1 DEF Carry

\* Authentication is the only way into a handler.
LEMMA WaysIn ==
  ASSUME Inv, Next, NEW q \in Slots, req'[q].pc \in {"principal", "grants", "owner", "handler"}
  PROVE  \/ req'[q] = req[q]
         \/ LookupSession(q) \/ LookupAPIToken(q) \/ TokenOwner(q)
         \/ GetUser(q) \/ PrincipalForUser(q)
  <1>0. req \in [Slots -> RequestRows]
    BY DEF Inv, ReqPart
  <1>1. ASSUME NEW r \in Slots, Finish(r) PROVE req'[q] = req[q]
    BY <1>0, <1>1 DEF Finish, NoRequest
  <1>2. CASE Expires
    BY <1>2 DEF Expires, ExpireSession, ExpireToken
  <1>3. ASSUME NEW r \in Slots, Arrives(r) PROVE req'[q] = req[q]
    <2>1. PICK kind, cred, arg : Arrive(r, kind, cred, arg)
      BY <1>3 DEF Arrives
    <2> DEFINE row == [NoRequest EXCEPT !.pc = "arrived", !.kind = kind, !.cred = cred, !.arg = arg]
    <2>2. req' = [req EXCEPT ![r] = row]
      BY <2>1 DEF Arrive
    <2>3. row.pc = "arrived"
      BY DEF NoRequest
    <2> HIDE DEF row
    <2> QED
      BY <1>0, <2>2, <2>3
  <1>4. ASSUME NEW r \in Slots, NEW step \in {"upgrade", "setup", "enable"}, Goto(r, step)
        PROVE  req'[q] = req[q]
    BY <1>0, <1>4 DEF Goto, RequestRows
  <1>5. ASSUME NEW r \in Slots, LookupUserByEmail(r) PROVE req'[q] = req[q]
    BY <1>0, <1>1, <1>5 DEF LookupUserByEmail, RequestRows
  <1>6. ASSUME NEW r \in Slots, r # q,
               \/ LookupSession(r) \/ LookupAPIToken(r) \/ TokenOwner(r)
               \/ GetUser(r) \/ PrincipalForUser(r)
        PROVE  req'[q] = req[q]
    BY <1>0, <1>1, <1>6 DEF LookupSession, LookupAPIToken, GetUser, PrincipalForUser, TokenOwner,
       Dispatch, Goto
  <1>7. ASSUME NEW r \in Slots, ConsumeRecoveryCode(r) \/ SetupReads(r) \/ EnableReads(r) \/ Act(r)
        PROVE  req'[q] = req[q]
    BY <1>1, <1>4, <1>7 DEF ConsumeRecoveryCode, SetupReads, EnableReads, Act
  <1>8. ASSUME NEW r \in Slots, Step(r), ~Arrives(r), ~Reads(r) PROVE Finish(r)
    BY <1>8 DEF Step, CreateSession, VerifyTOTP, UpgradeSessionMFA, Logout, SetUserMFASecret,
       EnableUserMFA, CreateUser, UpdateUser, CreateAssignment, DeleteAssignment, CreateAPIToken,
       RevokeAPIToken
  <1> QED
    BY <1>1, <1>2, <1>3, <1>5, <1>6, <1>7, <1>8, NextSteps DEF Reads

\* What requireAuth reads is what the history notes in the same step.
LEMMA CarryInv == Inv /\ [Next]_vars => CarryPart'
  <1> SUFFICES ASSUME Inv, [Next]_vars PROVE CarryPart'
    OBVIOUS
  <1>0. CarryPart /\ Tables' /\ req \in [Slots -> RequestRows]
    BY TablesInv DEF Inv, ReqPart
  <1>1. CASE UNCHANGED vars
    BY <1>0, <1>1 DEF vars, CarryPart, NoStaleGrants
  <1>2. ASSUME Next PROVE CarryPart'
    <2>0. Carry
      BY <1>2, StepCarries
    <2>1. /\ carried' \in [Slots -> Notes]
          /\ \A r \in Slots : req'[r].pc # "idle" =>
               /\ carried[r].live \/ Live(req[r].cred)' => carried'[r].live
               /\ carried[r].active \/ OfActive(req[r].cred)' => carried'[r].active
               /\ carried[r].grants \cup Carries(req[r].cred)' \subseteq carried'[r].grants
      BY <1>0, <2>0, CarryGrows
    <2>2. ASSUME NEW q \in Slots, req'[q].pc \in {"principal", "grants", "owner"}
          PROVE  carried'[q].live
      <3>1. CASE req'[q] = req[q]
        BY <1>0, <2>1, <2>2, <3>1 DEF CarryPart
      <3>2. CASE LookupSession(q)
        <4>1. /\ req[q].cred \in SessionIds /\ req'[q].cred = req[q].cred
              /\ session[req[q].cred].state = "live" /\ session[req[q].cred].passed
              /\ session' = session
          BY <1>0, <2>2, <3>2 DEF LookupSession, Finish, NoRequest, RequestRows, credVars
        <4>2. Live(req[q].cred)'
          BY <4>1 DEF Live
        <4> QED
          BY <2>1, <2>2, <4>2
      <3>3. CASE LookupAPIToken(q)
        <4>1. /\ req[q].cred \in TokenIds /\ req'[q].cred = req[q].cred
              /\ token[req[q].cred].state = "live" /\ token' = token
          BY <1>0, <2>2, <3>3 DEF LookupAPIToken, Finish, NoRequest, RequestRows, credVars
        <4>2. Live(req[q].cred)'
          BY <4>1 DEF Live
        <4> QED
          BY <2>1, <2>2, <4>2
      <3>4. CASE GetUser(q) \/ PrincipalForUser(q) \/ TokenOwner(q)
        BY <1>0, <2>1, <2>2, <3>4 DEF CarryPart, GetUser, PrincipalForUser, TokenOwner
      <3> QED
        BY <1>2, <2>2, <3>1, <3>2, <3>3, <3>4, WaysIn
    <2>a. ASSUME NEW q \in Slots, user[req[q].user].status = "active", req[q].user \in Users,
                 \/ req[q].cred \in SessionIds /\ session[req[q].cred].user = req[q].user
                 \/ req[q].cred \in TokenIds /\ token[req[q].cred].user = req[q].user,
                 req'[q].cred = req[q].cred, UNCHANGED <<user, session, token>>
          PROVE  OfActive(req[q].cred)'
      BY <2>a DEF OfActive
    <2>4. ASSUME NEW q \in Slots, req'[q].pc = "grants" PROVE carried'[q].active
      <3>0. RequestFits(q)
        BY DEF Inv, ReqPart
      <3>1. CASE req'[q] = req[q]
        BY <1>0, <2>1, <2>4, <3>1 DEF CarryPart
      <3>2. ~LookupSession(q) /\ ~LookupAPIToken(q) /\ ~PrincipalForUser(q) /\ ~TokenOwner(q)
        <4>1. ASSUME LookupSession(q) PROVE FALSE
          <5>1. CASE Finish(q)
            BY <1>0, <2>4, <5>1 DEF Finish, NoRequest
          <5>2. CASE ~Finish(q)
            <6>1. PICK p \in {"principal", "handler"} :
                    req' = [req EXCEPT ![q].user = session[req[q].cred].user, ![q].pc = p]
              BY <4>1, <5>2 DEF LookupSession
            <6> QED
              BY <1>0, <2>4, <6>1 DEF RequestRows
          <5> QED
            BY <5>1, <5>2
        <4>2. ASSUME LookupAPIToken(q) PROVE FALSE
          BY <1>0, <2>4, <4>2 DEF LookupAPIToken, Finish, NoRequest, RequestRows
        <4>3. ASSUME PrincipalForUser(q) \/ TokenOwner(q) PROVE FALSE
          BY <1>0, <2>4, <4>3 DEF PrincipalForUser, TokenOwner, Dispatch, Finish, NoRequest,
             RequestRows
        <4> QED
          BY <4>1, <4>2, <4>3
      <3>3. ASSUME GetUser(q) PROVE OfActive(req[q].cred)'
        <4>1. user[req[q].user].status = "active" /\ Goto(q, "grants")
          BY <1>0, <2>4, <3>3 DEF GetUser, Finish, NoRequest
        <4>2. /\ req[q].cred \in SessionIds /\ session[req[q].cred].user = req[q].user
              /\ req[q].user \in Users
          BY <3>0, <3>3 DEF GetUser, RequestFits, Exists
        <4>3. req'[q].cred = req[q].cred /\ UNCHANGED <<user, session, token>>
          BY <1>0, <3>3, <4>1 DEF GetUser, Goto, RequestRows, credVars
        <4> QED
          BY <2>a, <4>1, <4>2, <4>3
      <3> QED
        BY <1>2, <2>1, <2>4, <3>1, <3>2, <3>3, WaysIn
    <2>3. ASSUME NEW q \in Slots, req'[q].pc = "handler", req'[q].grants # {}
          PROVE  /\ carried'[q].live /\ carried'[q].active
                 /\ req'[q].grants \subseteq carried'[q].grants
      <3>0. RequestFits(q)
        BY DEF Inv, ReqPart
      <3>1. CASE req'[q] = req[q]
        BY <1>0, <2>1, <2>3, <3>1 DEF CarryPart, NoStaleGrants
      <3>2. ~LookupSession(q) /\ ~LookupAPIToken(q) /\ ~GetUser(q)
        <4>1. ASSUME LookupSession(q) PROVE FALSE
          <5>1. req[q].grants = {}
            BY <3>0, <4>1 DEF LookupSession, RequestFits
          <5> QED
            BY <1>0, <2>3, <4>1, <5>1 DEF LookupSession, Finish, NoRequest, RequestRows
        <4>2. ASSUME LookupAPIToken(q) PROVE FALSE
          BY <1>0, <2>3, <4>2 DEF LookupAPIToken, Finish, NoRequest, RequestRows
        <4>3. ASSUME GetUser(q) PROVE FALSE
          BY <1>0, <2>3, <4>3 DEF GetUser, Goto, Finish, NoRequest, RequestRows
        <4> QED
          BY <4>1, <4>2, <4>3
      <3>3. ASSUME PrincipalForUser(q)
            PROVE  /\ carried[q].live /\ carried[q].active
                   /\ req'[q].grants \subseteq Carries(req[q].cred)'
        <4>1. carried[q].live /\ carried[q].active
          BY <1>0, <3>3 DEF CarryPart, PrincipalForUser
        <4>2. req'[q].cred = req[q].cred /\ UNCHANGED <<user, session, token, assigned>>
          BY <1>0, <2>3, <3>3 DEF PrincipalForUser, Dispatch, Finish, NoRequest, RequestRows,
             credVars
        <4>3. req[q].cred \in SessionIds /\ session[req[q].cred].user = req[q].user
          BY <3>0, <3>3 DEF PrincipalForUser, RequestFits
        <4>4. req'[q].grants = GrantsForUser(req[q].user)
          BY <1>0, <2>3, <3>3 DEF PrincipalForUser, Dispatch, Finish, NoRequest, RequestRows
        <4> QED
          BY <4>1, <4>2, <4>3, <4>4 DEF Carries, GrantsForUser
      <3>4. ASSUME TokenOwner(q)
            PROVE  /\ carried[q].live /\ OfActive(req[q].cred)'
                   /\ req'[q].grants \subseteq Carries(req[q].cred)'
        <4>1. carried[q].live /\ user[req[q].user].status = "active" /\ req[q].user \in Users
          BY <1>0, <2>3, <3>0, <3>4 DEF CarryPart, TokenOwner, Finish, NoRequest, RequestFits, Exists
        <4>2. req'[q].cred = req[q].cred /\ UNCHANGED <<user, session, token, assigned>>
          BY <1>0, <2>3, <3>4 DEF TokenOwner, Dispatch, Finish, NoRequest, RequestRows, credVars
        <4>3. /\ req[q].cred \in TokenIds /\ token[req[q].cred].user = req[q].user
              /\ req[q].grants = {token[req[q].cred].grant}
          BY <3>0, <3>4 DEF TokenOwner, RequestFits
        <4>4. req'[q].grants = req[q].grants
          BY <1>0, <2>3, <3>4 DEF TokenOwner, Dispatch, Finish, NoRequest, RequestRows
        <4>5. req'[q].grants \subseteq Carries(req[q].cred)'
          BY <4>1, <4>2, <4>3, <4>4, SessionsAssumption DEF Carries
        <4> QED
          BY <2>a, <4>1, <4>2, <4>3, <4>5
      <3> QED
        BY <1>2, <2>1, <2>3, <3>1, <3>2, <3>3, <3>4, WaysIn
    <2> QED
      BY <2>1, <2>2, <2>3, <2>4 DEF CarryPart, NoStaleGrants
  <1> QED
    BY <1>1, <1>2

-----------------------------------------------------------------------------
(* Tokens.                                                                 *)

\* More grants allow more.
LEMMA RequireGrows ==
  ASSUME NEW few, NEW many, few \subseteq many, NEW perm, NEW target, Require(few, perm, target)
  PROVE  Require(many, perm, target)
  BY DEF Require

\* What a token made with credential by, for user u, was made from.
Source(tokens, given, by, u) ==
  IF by \in TokenIds THEN {tokens[by].grant} ELSE {Grant(a) : a \in given[u]}

\* The source of a token only gains grants.
LEMMA SourceGrows ==
  ASSUME Tables, Grows, NEW by, NEW u \in Users, by \in TokenIds => token[by].state # "none"
  PROVE  Source(token, held, by, u) \subseteq Source(token', held', by, u)
  <1>1. CASE by \in TokenIds
    BY <1>1 DEF Source, Grows
  <1>2. CASE by \notin TokenIds
    <2>1. held[u] \subseteq held'[u]
      BY DEF Grows
    <2> QED
      BY <1>2, <2>1 DEF Source
  <1> QED
    BY <1>1, <1>2

\* A token is made from what its request has, at most what its source gives.
LEMMA MintInv ==
  ASSUME Inv, NEW r \in Slots, NEW t \in TokenIds, CreateAPIToken(r, t), token'[t] # NoApiToken
  PROVE  \A p \in token'[t].grant.perms :
           Require(Source(token, held, token'[t].by, token'[t].user), p, token'[t].grant.scope)
  <1>0. token \in [TokenIds -> TokenRows] /\ req[r] \in RequestRows /\ RequestFits(r)
    BY DEF Inv, Tables, TokenPart, ReqPart
  <1>1. /\ req[r].pc = "handler" /\ token'[t] = Minted(r, req[r].arg)
        /\ \A p \in req[r].arg.perms : Require(req[r].grants, p, req[r].arg.scope)
    BY <1>0 DEF CreateAPIToken
  <1>2. /\ token'[t].grant = req[r].arg /\ token'[t].user = req[r].user
        /\ token'[t].by = req[r].cred
    BY <1>1 DEF Minted
  <1>3. req[r].grants \subseteq Source(token, held, req[r].cred, req[r].user)
    <2>1. /\ req[r].cred \in SessionIds \cup TokenIds /\ req[r].grants \subseteq Most(req[r].cred)
          /\ req[r].cred \in SessionIds => session[req[r].cred].user = req[r].user
      BY <1>0, <1>1 DEF RequestFits, RequestRows
    <2> QED
      BY <2>1 DEF Most, Source
  <1> QED
    BY <1>1, <1>2, <1>3, RequireGrows

\* No step widens a token.
LEMMA WidenInv == Inv /\ [Next]_vars => TokensNeverWiden'
  <1> SUFFICES ASSUME Inv, [Next]_vars, NEW t \in TokenIds, token'[t] # NoApiToken
               PROVE  \A p \in token'[t].grant.perms :
                        Require(Source(token', held', token'[t].by, token'[t].user),
                                p, token'[t].grant.scope)
    BY DEF TokensNeverWiden, Source
  <1>0. Tables /\ Tables' /\ Grows
    BY TablesInv DEF Inv
  <1>1. CASE token[t].state # "none"
    <2>1. /\ token'[t].grant = token[t].grant /\ token'[t].user = token[t].user
          /\ token'[t].by = token[t].by
      BY <1>0, <1>1 DEF Grows
    <2>2. /\ token[t].user \in Users
          /\ token[t].by \in TokenIds => token[token[t].by].state # "none"
      BY <1>0, <1>1 DEF Tables, TokenPart, Exists
    <2>3. \A p \in token[t].grant.perms :
            Require(Source(token, held, token[t].by, token[t].user), p, token[t].grant.scope)
      <3>1. token[t] # NoApiToken
        BY <1>1 DEF NoApiToken
      <3>2. TokensNeverWiden
        BY DEF Inv
      <3> QED
        BY <3>1, <3>2, Zenon DEF TokensNeverWiden, Source
    <2>4. Source(token, held, token[t].by, token[t].user)
            \subseteq Source(token', held', token'[t].by, token'[t].user)
      BY <1>0, <2>1, <2>2, SourceGrows
    <2> QED
      BY <2>1, <2>3, <2>4, RequireGrows
  <1>2. CASE token[t].state = "none"
    <2>0. token[t] = NoApiToken
      BY <1>0, <1>2 DEF Tables, TokenPart
    <2>1. PICK r \in Slots : CreateAPIToken(r, t)
      <3>1. \A r \in Slots : Reads(r) \/ Arrives(r) => token' = token
        BY <1>0, ReadsFrame, ArrivesFrame DEF Tables
      <3>2. ASSUME NEW r \in Slots, RevokeAPIToken(r) PROVE FALSE
        BY <1>0, <1>2, <2>0, <3>2 DEF RevokeAPIToken, Tables, TokenPart
      <3>3. ASSUME NEW s \in TokenIds, ExpireToken(s) PROVE FALSE
        BY <1>0, <1>2, <2>0, <3>3 DEF ExpireToken, Tables, TokenPart
      <3>4. ASSUME NEW r \in Slots, NEW s \in TokenIds, CreateAPIToken(r, s), s # t PROVE FALSE
        BY <1>0, <2>0, <3>4 DEF CreateAPIToken, Tables, TokenPart
      <3>5. ASSUME NEW r \in Slots, Step(r), \A s \in TokenIds : ~CreateAPIToken(r, s) PROVE FALSE
        BY <2>0, <3>1, <3>2, <3>5 DEF Step, CreateSession, VerifyTOTP, UpgradeSessionMFA, Logout,
           SetUserMFASecret, EnableUserMFA, CreateUser, UpdateUser, CreateAssignment,
           DeleteAssignment
      <3>6. ~Expires /\ ~UNCHANGED vars
        BY <2>0, <3>3 DEF Expires, ExpireSession, vars, credVars
      <3> QED
        BY <3>4, <3>5, <3>6, NextSteps
    <2>2. \A p \in token'[t].grant.perms :
            Require(Source(token, held, token'[t].by, token'[t].user), p, token'[t].grant.scope)
      BY <2>1, MintInv
    <2>3. /\ token'[t].user \in Users
          /\ token'[t].by \in TokenIds => token[token'[t].by].state # "none"
      <3>1. /\ token'[t] = Minted(r, req[r].arg) /\ req[r].pc = "handler" /\ RequestFits(r)
        BY <1>0, <2>1 DEF CreateAPIToken, Inv, ReqPart, Tables, TokenPart
      <3> QED
        BY <3>1 DEF Minted, RequestFits, Exists
    <2>4. Source(token, held, token'[t].by, token'[t].user)
            \subseteq Source(token', held', token'[t].by, token'[t].user)
      BY <1>0, <2>3, SourceGrows
    <2> QED
      BY <2>2, <2>4, RequireGrows
  <1> QED
    BY <1>1, <1>2

-----------------------------------------------------------------------------
(* The theorems.                                                           *)

\* The invariant is inductive, ...
LEMMA NextInv == Inv /\ [Next]_vars => Inv'
  BY TablesInv, ReqInv, CodeInv, CarryInv, WidenInv DEF Inv

\* ... and holds in every reachable state.
LEMMA SpecInv == Spec => []Inv
  BY InitInv, NextInv, PTL DEF Spec

\* handleMFAVerify: for any number of users, codes and concurrent verifications,
\* a code's row is locked by the one request that upgrades its session with it, a
\* recovery code lets one session through, and a rollback does not cost it.
THEOREM CodesAreSingleUse == Spec => []SessionInv
  <1>1. Inv => SessionInv
    <2> SUFFICES ASSUME Inv PROVE SessionInv
      OBVIOUS
    <2>1. CodeBuysOneSession
      BY DEF Inv, CodePart
    <2>2. \A k \in SessionIds :
            /\ session[k].state \in {"none", "live", "expired", "gone"}
            /\ session[k].state \in {"live", "expired"} => user[session[k].user].status # "none"
      BY DEF Inv, Tables, SessionPart, SessionRows, Exists
    <2>3. \A t \in TokenIds :
            /\ token[t].state \in {"none", "live", "expired", "revoked"}
            /\ token[t] # NoApiToken => token[t].grant \in Mintables
      BY DEF Inv, Tables, TokenPart, TokenRows
    <2>4. \A r \in Slots : req[r].pc \in Pcs /\ req[r].grants \subseteq Grants
      BY DEF Inv, ReqPart, RequestRows
    <2> QED
      BY <2>1, <2>2, <2>3, <2>4
         DEF SessionInv, TypeOK, Inv, Tables, UserPart, UserRows, AssignPart, CodePart, Pcs
  <1> QED
    BY <1>1, SpecInv, PTL

\* handleCreateAPIToken: however long the chain of tokens that mint tokens, and
\* whatever assignments come and go meanwhile, no token holds a permission that
\* the token or the user behind it was not given.
THEOREM NoTokenWidens == Spec => []TokensNeverWiden
  <1>1. Inv => TokensNeverWiden
    BY DEF Inv
  <1> QED
    BY <1>1, SpecInv, PTL

\* requireAuth: in every interleaving of any number of requests, a handler acts on
\* a credential that was valid, for a user who was active and with grants that came
\* with the credential, each at some time since the request arrived.
THEOREM GrantsAreFresh == Spec => []NoStaleGrants
  <1>1. Inv => NoStaleGrants
    BY DEF Inv, CarryPart
  <1> QED
    BY <1>1, SpecInv, PTL
=============================================================================
