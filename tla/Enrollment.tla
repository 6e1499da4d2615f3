------------------------------ MODULE Enrollment ------------------------------
(***************************************************************************)
(* Enrollment: operators keep a tree of customers and sites and issue      *)
(* tokens for a site; `rmmagent enroll` on a host generates a key, posts   *)
(* it with a token and saves the identity it is answered; `rmmagent run`   *)
(* loads that identity and signs its requests with it.  The server looks   *)
(* the token up in one transaction and consumes it, with the device and    *)
(* its credential, in a second one; requests, revocations and deletions    *)
(* interleave with both.                                                   *)
(***************************************************************************)
EXTENDS Integers, FiniteSets

CONSTANTS Customers, Sites, Tokens, Hosts,
          Requests,    \* slots of concurrent POST /agent/v1/enroll
          Limits,      \* the values of max_uses operators choose
          MaxDevices,  \* bound: devices ever enrolled
          MaxKeys,     \* bound: `rmmagent enroll` ever started
          MaxTime,     \* bound of the clock
          MaxSkew,     \* how far the timestamp of a request may be from the server's clock
          None

ASSUME EnrollmentConstants == /\ Limits \subseteq Nat \ {0}
                              /\ {MaxDevices, MaxKeys, MaxTime, MaxSkew} \subseteq Nat
                              /\ None \notin Requests \cup Tokens

VARIABLES
  customer,   \* customer[c]: "none", "live" or "gone" (no row any more)
  emptied,    \* customers whose delete transaction has counted no site
  site,       \* site[s]: [state, of]: the row and its customer
  dropping,   \* sites whose row a DELETE has locked and not yet committed
  tok,        \* tok[t]: the row of enrollment_tokens
  lock,       \* lock[t]: the request whose transaction holds that row, or None
  dev,        \* dev[d]: the row of devices, with its credential; d is its id
  enrolled,   \* number of devices: ids are handed out in order
  req,        \* req[r]: a request, on its host and in the server
  keys,       \* number of key pairs generated: each is new
  identity,   \* identity[h]: identity.json of host h, or None
  tmp,        \* tmp[h]: identity.json.tmp, or None
  running,    \* running[h]: the identity that `rmmagent run` loaded, or None
  marking,    \* hosts whose agent has written the revoked identity and not renamed it
  clock

orgVars == <<customer, emptied, site, dropping>>
tokVars == <<tok, lock>>
devVars == <<dev, enrolled>>
fileVars == <<identity, tmp>>
hostVars == <<keys, fileVars, running, marking>>
vars == <<orgVars, tokVars, devVars, hostVars, req, clock>>

DeviceIds == 1 .. MaxDevices
Times == 0 .. MaxTime
NoSite == [state |-> "none", of |-> None]
NoToken == [state |-> "none", site |-> None, max |-> 0, used |-> 0, expires |-> 0]
NoDevice == [status |-> "none", site |-> None, key |-> 0, by |-> None]
NoRequest == [pc |-> "idle", host |-> None, token |-> None, key |-> 0, start |-> 0,
              dev |-> 0]

Init == /\ customer = [c \in Customers |-> "none"]
        /\ emptied = {}
        /\ site = [s \in Sites |-> NoSite]
        /\ dropping = {}
        /\ tok = [t \in Tokens |-> NoToken]
        /\ lock = [t \in Tokens |-> None]
        /\ dev = [d \in DeviceIds |-> NoDevice]
        /\ enrolled = 0
        /\ req = [r \in Requests |-> NoRequest]
        /\ keys = 0
        /\ identity = [h \in Hosts |-> None]
        /\ tmp = [h \in Hosts |-> None]
        /\ running = [h \in Hosts |-> None]
        /\ marking = {}
        /\ clock = 0

-----------------------------------------------------------------------------
(* The organisation: customers and their sites. *)

SitesOf(c) == {s \in Sites : site[s].state = "live" /\ site[s].of = c}

CreateCustomer(c) ==
  /\ customer[c] = "none"
  /\ customer' = [customer EXCEPT ![c] = "live"]
  /\ UNCHANGED <<emptied, site, dropping, tokVars, devVars, hostVars, req, clock>>

(* handleDeleteCustomer, first statement: with a site left, the answer is a
   conflict and nothing changes. *)
CustomerSiteCount(c) ==
  /\ customer[c] = "live"
  /\ SitesOf(c) = {}
  /\ emptied' = emptied \cup {c}
  /\ UNCHANGED <<customer, site, dropping, tokVars, devVars, hostVars, req, clock>>

(* A variant: the deletion trusts the count. *)
DeleteCounted(c) ==
  /\ c \in emptied
  /\ emptied' = emptied \ {c}
  /\ customer' = [customer EXCEPT ![c] = "gone"]
  /\ UNCHANGED <<site, dropping, tokVars, devVars, hostVars, req, clock>>

(* Second statement: sites created meanwhile make the foreign key refuse. *)
DeleteCustomer(c) ==
  /\ c \in emptied
  /\ emptied' = emptied \ {c}
  /\ customer' = IF customer[c] = "live" /\ SitesOf(c) = {}
                   THEN [customer EXCEPT ![c] = "gone"] ELSE customer
  /\ UNCHANGED <<site, dropping, tokVars, devVars, hostVars, req, clock>>

CreateSite(s, c) ==
  /\ site[s].state = "none"
  /\ customer[c] = "live"
  /\ site' = [site EXCEPT ![s] = [state |-> "live", of |-> c]]
  /\ UNCHANGED <<customer, emptied, dropping, tokVars, devVars, hostVars, req, clock>>

(* handleDeleteSite: DELETE locks the site's row, ... *)
BeginDeleteSite(s) ==
  /\ site[s].state = "live"
  /\ s \notin dropping
  /\ dropping' = dropping \cup {s}
  /\ UNCHANGED <<customer, emptied, site, tokVars, devVars, hostVars, req, clock>>

TokensOf(s) == {t \in Tokens : tok[t].state \in {"live", "revoked"} /\ tok[t].site = s}
DevicesAt(s) == {d \in DeviceIds : dev[d].status /= "none" /\ dev[d].site = s}

(* ... waits for the rows of its tokens, which are deleted with it, and is
   refused when a device row, decommissioned or not, refers to it. *)
DeleteSite(s) ==
  /\ s \in dropping
  /\ \A t \in TokensOf(s) : lock[t] = None
  /\ DevicesAt(s) = {}
  /\ dropping' = dropping \ {s}
  /\ site' = [site EXCEPT ![s].state = "gone"]
  /\ tok' = [t \in Tokens |-> IF t \in TokensOf(s) THEN [tok[t] EXCEPT !.state = "gone"]
                                                   ELSE tok[t]]
  /\ UNCHANGED <<customer, emptied, lock, devVars, hostVars, req, clock>>

(* Refused by the foreign key, timed out on a lock, or ended as the victim of
   a deadlock with an enrollment that holds a token and needs the site. *)
DeleteSiteFails(s) ==
  /\ s \in dropping
  /\ DevicesAt(s) /= {} \/ \E t \in TokensOf(s) : lock[t] /= None
  /\ dropping' = dropping \ {s}
  /\ UNCHANGED <<customer, emptied, site, tokVars, devVars, hostVars, req, clock>>

-----------------------------------------------------------------------------
(* Enrollment tokens. *)

CreateEnrollmentToken(t, s, n, e) ==
  /\ tok[t].state = "none"
  /\ site[s].state = "live"
  /\ s \notin dropping
  /\ e >= clock
  /\ tok' = [tok EXCEPT ![t] = [state |-> "live", site |-> s, max |-> n, used |-> 0,
                                expires |-> e]]
  /\ UNCHANGED <<orgVars, lock, devVars, hostVars, req, clock>>

(* The UPDATE waits for a transaction that is consuming the token. *)
RevokeEnrollmentToken(t) ==
  /\ tok[t].state = "live"
  /\ lock[t] = None
  /\ tok' = [tok EXCEPT ![t].state = "revoked"]
  /\ UNCHANGED <<orgVars, lock, devVars, hostVars, req, clock>>

-----------------------------------------------------------------------------
(* `rmmagent enroll` and its handler. *)

(* The host refuses when it has an identity; two commands started before
   either has saved one are both let through. *)
Enroll(r, h, t) ==
  /\ req[r].pc = "idle"
  /\ identity[h] = None
  /\ keys < MaxKeys
  /\ keys' = keys + 1
  /\ req' = [req EXCEPT ![r] = [NoRequest EXCEPT !.pc = "posted", !.host = h,
                                                 !.token = t, !.key = keys + 1]]
  /\ UNCHANGED <<orgVars, tokVars, devVars, fileVars, running, marking, clock>>

Refuse(r) == req' = [req EXCEPT ![r] = NoRequest]

(* The first transaction: the token is read by its hash, and read only. *)
LookupEnrollmentToken(r) ==
  LET t == req[r].token IN
  /\ req[r].pc = "posted"
  /\ IF tok[t].state = "live" /\ tok[t].expires >= clock /\ tok[t].used < tok[t].max
       THEN req' = [req EXCEPT ![r].pc = "found"]
       ELSE Refuse(r)
  /\ UNCHANGED <<orgVars, tokVars, devVars, hostVars, clock>>

(* The second transaction opens: its now() stays at this instant. *)
BeginEnrollment(r) ==
  /\ req[r].pc = "found"
  /\ req' = [req EXCEPT ![r].pc = "begun", ![r].start = clock]
  /\ UNCHANGED <<orgVars, tokVars, devVars, hostVars, clock>>

(* The UPDATE waits for the row, re-reads it and keeps it locked, its use_count
   one higher, until the transaction ends. *)
ConsumeEnrollmentToken(r) ==
  LET t == req[r].token IN
  /\ req[r].pc = "begun"
  /\ lock[t] = None
  /\ IF tok[t].state = "live" /\ tok[t].used < tok[t].max /\ tok[t].expires > req[r].start
       THEN /\ req' = [req EXCEPT ![r].pc = "consumed"]
            /\ lock' = [lock EXCEPT ![t] = r]
       ELSE Refuse(r) /\ UNCHANGED lock
  /\ UNCHANGED <<orgVars, tok, devVars, hostVars, clock>>

(* The device, its credential and the audit row commit with the use; the insert
   waits while a DELETE holds the site. *)
CreateDevice(r) ==
  LET t == req[r].token
      s == tok[t].site
      d == enrolled + 1
  IN /\ req[r].pc = "consumed"
     /\ site[s].state = "live" /\ s \notin dropping
     /\ d \in DeviceIds
     /\ dev' = [dev EXCEPT ![d] = [status |-> "active", site |-> s, key |-> req[r].key,
                                   by |-> t]]
     /\ enrolled' = d
     /\ tok' = [tok EXCEPT ![t].used = @ + 1]
     /\ lock' = [lock EXCEPT ![t] = None]
     /\ req' = [req EXCEPT ![r].pc = "created", ![r].dev = d]
     /\ UNCHANGED <<orgVars, hostVars, clock>>

(* A variant: the use is counted in a transaction of its own. *)
AbortKeepsUse(r) ==
  LET t == req[r].token IN
  /\ req[r].pc \in {"posted", "found", "begun", "consumed"}
  /\ Refuse(r)
  /\ lock' = IF lock[t] = r THEN [lock EXCEPT ![t] = None] ELSE lock
  /\ tok' = IF lock[t] = r THEN [tok EXCEPT ![t].used = @ + 1] ELSE tok
  /\ UNCHANGED <<orgVars, devVars, hostVars, clock>>

(* A database error, a lock timeout, a client that went away: the second
   transaction rolls back, the use with it. *)
EnrollmentAborts(r) ==
  LET t == req[r].token IN
  /\ req[r].pc \in {"posted", "found", "begun", "consumed"}
  /\ Refuse(r)
  /\ lock' = IF lock[t] = r THEN [lock EXCEPT ![t] = None] ELSE lock
  /\ UNCHANGED <<orgVars, tok, devVars, hostVars, clock>>

(* 201 arrives and identity.Save writes the temporary file, ... *)
WriteIdentity(r) ==
  /\ req[r].pc = "created"
  /\ tmp' = [tmp EXCEPT ![req[r].host] =
               [dev |-> req[r].dev, key |-> req[r].key, revoked |-> FALSE]]
  /\ req' = [req EXCEPT ![r].pc = "saving"]
  /\ UNCHANGED <<orgVars, tokVars, devVars, keys, identity, running, marking, clock>>

(* ... whose name every Save of the host shares, and renames it: what is in it
   by now takes the place of identity.json, and without it the rename fails. *)
RenameTmp(h) ==
  /\ tmp' = [tmp EXCEPT ![h] = None]
  /\ identity' = IF tmp[h] = None THEN identity ELSE [identity EXCEPT ![h] = tmp[h]]

SaveIdentity(r) ==
  /\ req[r].pc = "saving"
  /\ RenameTmp(req[r].host)
  /\ Refuse(r)
  /\ UNCHANGED <<orgVars, tokVars, devVars, keys, running, marking, clock>>

(* The answer is lost, or the command dies before the rename: the device stays,
   the use is spent and nobody holds the key, but for the temporary file. *)
AnswerLost(r) ==
  /\ req[r].pc \in {"created", "saving"}
  /\ Refuse(r)
  /\ UNCHANGED <<orgVars, tokVars, devVars, hostVars, clock>>

-----------------------------------------------------------------------------
(* An enrolled host. *)

(* auth_lookup_device returns the status and the credential not revoked, which
   DecommissionDevice revokes with the status; the signature verifies under it
   when the private key saved is its own. *)
LookupDevice(d) == IF dev[d].status = "active"
                     THEN [status |-> "active", pubkey |-> dev[d].key]
                     ELSE [status |-> dev[d].status, pubkey |-> None]

(* ts is the request's X-Timestamp, by the clock of the host. *)
VerifyDeviceSig(id, ts) ==
  LET found == LookupDevice(id.dev)
  IN /\ clock - ts <= MaxSkew /\ ts - clock <= MaxSkew
     /\ found.status = "active" /\ found.pubkey = id.key

(* `rmmagent run` loads the identity once and refuses one marked revoked. *)
StartAgent(h) ==
  /\ running[h] = None
  /\ identity[h] /= None
  /\ ~identity[h].revoked
  /\ running' = [running EXCEPT ![h] = identity[h]]
  /\ UNCHANGED <<orgVars, tokVars, devVars, keys, fileVars, marking, req, clock>>

(* A variant: any error that ends the connection marks the identity revoked. *)
MarkRevokedOnError(h) ==
  /\ running[h] /= None /\ h \notin marking
  /\ tmp' = [tmp EXCEPT ![h] = [running[h] EXCEPT !.revoked = TRUE]]
  /\ marking' = marking \cup {h}
  /\ UNCHANGED <<orgVars, tokVars, devVars, keys, identity, running, req, clock>>

(* The server has told the agent that its device is decommissioned: it saves
   the identity it loaded, marked revoked, ... *)
MarkRevoked(h) ==
  /\ running[h] /= None /\ h \notin marking
  /\ dev[running[h].dev].status = "decommissioned"
  /\ tmp' = [tmp EXCEPT ![h] = [running[h] EXCEPT !.revoked = TRUE]]
  /\ marking' = marking \cup {h}
  /\ UNCHANGED <<orgVars, tokVars, devVars, keys, identity, running, req, clock>>

(* ... and exits, saved or not. *)
SaveRevoked(h) ==
  /\ h \in marking
  /\ RenameTmp(h)
  /\ running' = [running EXCEPT ![h] = None]
  /\ marking' = marking \ {h}
  /\ UNCHANGED <<orgVars, tokVars, devVars, keys, req, clock>>

(* The process ends, in the middle of a Save or not. *)
StopAgent(h) ==
  /\ running[h] /= None
  /\ running' = [running EXCEPT ![h] = None]
  /\ marking' = marking \ {h}
  /\ UNCHANGED <<orgVars, tokVars, devVars, keys, fileVars, req, clock>>

(* The operator removes identity.json, as Enroll's error tells them to. *)
RemoveIdentity(h) ==
  /\ identity[h] /= None
  /\ identity' = [identity EXCEPT ![h] = None]
  /\ UNCHANGED <<orgVars, tokVars, devVars, keys, tmp, running, marking, req, clock>>

DecommissionDevice(d) ==
  /\ dev[d].status = "active"
  /\ dev' = [dev EXCEPT ![d].status = "decommissioned"]
  /\ UNCHANGED <<orgVars, tokVars, enrolled, hostVars, req, clock>>

Tick == /\ clock < MaxTime
        /\ clock' = clock + 1
        /\ UNCHANGED <<orgVars, tokVars, devVars, hostVars, req>>

OrgNext == \/ \E c \in Customers : \/ CreateCustomer(c)
                                   \/ CustomerSiteCount(c)
                                   \/ DeleteCustomer(c)
           \/ \E s \in Sites : \/ \E c \in Customers : CreateSite(s, c)
                               \/ BeginDeleteSite(s)
                               \/ DeleteSite(s)
                               \/ DeleteSiteFails(s)

TokenNext == \E t \in Tokens :
               \/ \E s \in Sites, n \in Limits, e \in Times : CreateEnrollmentToken(t, s, n, e)
               \/ RevokeEnrollmentToken(t)

RequestNext == \E r \in Requests : \/ \E h \in Hosts, t \in Tokens : Enroll(r, h, t)
                                   \/ LookupEnrollmentToken(r)
                                   \/ BeginEnrollment(r)
                                   \/ ConsumeEnrollmentToken(r)
                                   \/ CreateDevice(r)
                                   \/ EnrollmentAborts(r)
                                   \/ WriteIdentity(r)
                                   \/ SaveIdentity(r)
                                   \/ AnswerLost(r)

HostNext == \/ \E h \in Hosts : \/ StartAgent(h)
                                \/ MarkRevoked(h)
                                \/ SaveRevoked(h)
                                \/ StopAgent(h)
                                \/ RemoveIdentity(h)
            \/ \E d \in DeviceIds : DecommissionDevice(d)

Next == OrgNext \/ TokenNext \/ RequestNext \/ HostNext \/ Tick

Spec == Init /\ [][Next]_vars

-----------------------------------------------------------------------------
Identities == [dev : DeviceIds, key : 1 .. MaxKeys, revoked : BOOLEAN]

(* Types of the state; in addition, the row of a token is locked exactly by the
   request that has consumed it and not yet committed. *)
TypeOK ==
  /\ customer \in [Customers -> {"none", "live", "gone"}]
  /\ emptied \subseteq Customers
  /\ site \in [Sites -> [state : {"none", "live", "gone"}, of : Customers \cup {None}]]
  /\ dropping \subseteq Sites
  /\ tok \in [Tokens -> [state : {"none", "live", "revoked", "gone"},
                         site : Sites \cup {None}, max : Limits \cup {0},
                         used : Nat, expires : Times]]
  /\ \A t \in Tokens, r \in Requests :
       lock[t] = r <=> (req[r].pc = "consumed" /\ req[r].token = t)
  /\ dev \in [DeviceIds -> [status : {"none", "active", "decommissioned"},
                            site : Sites \cup {None}, key : 0 .. MaxKeys,
                            by : Tokens \cup {None}]]
  /\ enrolled \in 0 .. MaxDevices
  /\ req \in [Requests ->
               [pc : {"idle", "posted", "found", "begun", "consumed", "created", "saving"},
                host : Hosts \cup {None}, token : Tokens \cup {None}, key : 0 .. MaxKeys,
                start : Times, dev : 0 .. MaxDevices]]
  /\ keys \in 0 .. MaxKeys
  /\ identity \in [Hosts -> Identities \cup {None}]
  /\ tmp \in [Hosts -> Identities \cup {None}]
  /\ running \in [Hosts -> Identities \cup {None}]
  /\ marking \subseteq {h \in Hosts : running[h] /= None}
  /\ clock \in Times

(* The tree of the tenant has no dangling branch: a site hangs off a customer
   that exists, a token or a device off a site that exists, whichever deletion
   raced the insert.  (handleDeleteCustomer counts the sites and deletes in two
   statements, handleDeleteSite cascades to tokens that are being consumed.) *)
OrgIsATree ==
  /\ \A s \in Sites : site[s].state = "live" => customer[site[s].of] = "live"
  /\ \A t \in Tokens : tok[t].state \in {"live", "revoked"}
                         => site[tok[t].site].state = "live"
  /\ \A d \in DeviceIds : dev[d].status /= "none" => site[dev[d].site].state = "live"

(* An identity saved on a host is good: from a clock not more than MaxSkew off,
   the server verifies what it signs for as long as its device is not
   decommissioned, and it is marked revoked only after that, whichever Saves
   of the host shared the temporary file.  So no answer reaches a host before
   the device it names is committed, and no two hosts hold the same device. *)
IdentityAuthenticates ==
  /\ \A h \in Hosts : identity[h] /= None =>
       \A ts \in (clock - MaxSkew) .. (clock + MaxSkew) :
         /\ VerifyDeviceSig(identity[h], ts) <=> dev[identity[h].dev].status /= "decommissioned"
         /\ identity[h].revoked => ~VerifyDeviceSig(identity[h], ts)
  /\ \A g, h \in Hosts : /\ g /= h
                         /\ identity[g] /= None /\ identity[h] /= None
                         => identity[g].dev /= identity[h].dev

(* A token admits as many devices as it was issued for, never one after it was
   revoked or deleted, and it loses a use only to a device. *)
Budget == INSTANCE EnrollmentBudget WITH
            Tokens <- Tokens, Devices <- DeviceIds, Limits <- Limits,
            left <- [t \in Tokens |-> tok[t].max - tok[t].used],
            admitted <- [t \in Tokens |-> {d \in DeviceIds : dev[d].by = t}],
            phase <- [t \in Tokens |-> CASE tok[t].state = "none" -> "unissued"
                                         [] tok[t].state = "live" -> "open"
                                         [] OTHER -> "closed"]

(* The enrollment handler implements the budget of its tokens, whatever races
   it: LookupEnrollmentToken is only a first look, the UPDATE of
   ConsumeEnrollmentToken decides. *)
ImplementsBudget == Budget!Spec

(* What foreign keys and row locks keep while deletions race enrollments: the
   tree of the tenant, and a token's row with one request at a time. *)
EnrollmentInv == TypeOK /\ OrgIsATree
=============================================================================
