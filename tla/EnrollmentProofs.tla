-------------------------- MODULE EnrollmentProofs --------------------------
(***************************************************************************)
(* Theorems about Enrollment, for every set of customers, sites, tokens,   *)
(* hosts and concurrent requests and every bound: the tree of the tenant   *)
(* has no dangling branch, saved identities authenticate, and enrollment   *)
(* implements the budget of its tokens.                                    *)
(*                                                                         *)
(* The inductive invariant has one part per group of variables.  Each part *)
(* comes with the fact that a step which leaves its variables alone keeps  *)
(* it.                                                                     *)
(***************************************************************************)
EXTENDS Enrollment, TLAPS

\* A site hangs off a customer that exists.
OrgPart ==
  /\ customer \in [Customers -> {"none", "live", "gone"}]
  /\ emptied \subseteq Customers
  /\ site \in [Sites -> [state : {"none", "live", "gone"}, of : Customers \cup {None}]]
  /\ dropping \subseteq Sites
  /\ \A s \in Sites : site[s].state = "live" =>
                        site[s].of \in Customers /\ customer[site[s].of] = "live"

TokenRows == [state : {"none", "live", "revoked", "gone"}, site : Sites \cup {None},
              max : Limits \cup {0}, used : Nat, expires : Times]

\* A token hangs off a site that exists.
TokPart ==
  /\ tok \in [Tokens -> TokenRows]
  /\ \A t \in Tokens : tok[t].state \in {"live", "revoked"} =>
                         tok[t].site \in Sites /\ site[tok[t].site].state = "live"

DeviceRows == [status : {"none", "active", "decommissioned"}, site : Sites \cup {None},
               key : 0 .. MaxKeys, by : Tokens \cup {None}]

\* A device hangs off a site that exists, and ids are handed out in order.
DevPart ==
  /\ dev \in [DeviceIds -> DeviceRows]
  /\ enrolled \in 0 .. MaxDevices
  /\ \A d \in DeviceIds : dev[d].status # "none" =>
                            dev[d].site \in Sites /\ site[dev[d].site].state = "live"
  /\ \A d \in DeviceIds : IF d <= enrolled THEN dev[d].status # "none" ELSE dev[d] = NoDevice

RequestRows == [pc : {"idle", "posted", "found", "begun", "consumed", "created", "saving"},
                host : Hosts \cup {None}, token : Tokens \cup {None}, key : 0 .. MaxKeys,
                start : Times, dev : 0 .. MaxDevices]

\* A request under way has a host, a token and a key; one that is answered
\* names the device that was created with its key.
ReqPart ==
  /\ req \in [Requests -> RequestRows]
  /\ keys \in 0 .. MaxKeys
  /\ clock \in Times
  /\ \A r \in Requests : req[r].pc # "idle" =>
       req[r].host \in Hosts /\ req[r].token \in Tokens /\ req[r].key \in 1 .. MaxKeys
  /\ \A r \in Requests : req[r].pc = "created" =>
       req[r].dev \in 1 .. enrolled /\ dev[req[r].dev].key = req[r].key

\* The row of a token is locked by the request that consumed it, and until
\* that request commits nobody revokes the token or takes its last use.
LockPart ==
  /\ lock \in [Tokens -> Requests \cup {None}]
  /\ \A t \in Tokens, r \in Requests :
       lock[t] = r <=> (req[r].pc = "consumed" /\ req[r].token = t)
  /\ \A r \in Requests : req[r].pc = "consumed" =>
       tok[req[r].token].state = "live" /\ tok[req[r].token].used < tok[req[r].token].max

\* The identities a host holds, in its two files and in its running agent.
Held(h) == {identity[h], tmp[h], running[h]} \ {None}

\* An identity names a device that was created with its key, and is marked
\* revoked only when that device is decommissioned.
Good(id) == /\ id.dev \in 1 .. enrolled
            /\ dev[id.dev].key = id.key
            /\ id.revoked => dev[id.dev].status = "decommissioned"

\* Hosts hold good identities, and a device is held by one host or is the
\* answer of one request that is on its way.
HostPart ==
  /\ identity \in [Hosts -> Identities \cup {None}]
  /\ tmp \in [Hosts -> Identities \cup {None}]
  /\ running \in [Hosts -> Identities \cup {None}]
  /\ marking \subseteq {h \in Hosts : running[h] # None}
  /\ \A h \in Hosts : \A id \in Held(h) : Good(id)
  /\ \A g, h \in Hosts : g # h => \A i \in Held(g), j \in Held(h) : i.dev # j.dev
  /\ \A r \in Requests : req[r].pc = "created" =>
       \A h \in Hosts : \A id \in Held(h) : id.dev # req[r].dev
  /\ \A q, r \in Requests : q # r /\ req[q].pc = "created" /\ req[r].pc = "created" =>
       req[q].dev # req[r].dev

\* The inductive invariant.
Inv == OrgPart /\ TokPart /\ DevPart /\ ReqPart /\ LockPart /\ HostPart

-----------------------------------------------------------------------------
(* What each part depends on.                                              *)

\* Each part survives a step that changes none of its variables.
LEMMA OrgFrame == OrgPart /\ UNCHANGED <<customer, emptied, site, dropping>> => OrgPart'
  BY DEF OrgPart
LEMMA TokFrame == TokPart /\ UNCHANGED <<tok, site>> => TokPart'
  BY DEF TokPart
LEMMA DevFrame == DevPart /\ UNCHANGED <<dev, enrolled, site>> => DevPart'
  BY DEF DevPart
LEMMA ReqFrame == ReqPart /\ UNCHANGED <<req, keys, clock, dev, enrolled>> => ReqPart'
  BY DEF ReqPart
LEMMA LockFrame == LockPart /\ UNCHANGED <<lock, req, tok>> => LockPart'
  BY DEF LockPart
LEMMA HostFrame == HostPart /\ UNCHANGED <<identity, tmp, running, marking, req, dev, enrolled>> => HostPart'
  BY DEF HostPart, Held, Good

\* The empty tenant satisfies the invariant.
LEMMA InitInv == Init => Inv
  <1> SUFFICES ASSUME Init PROVE Inv
    OBVIOUS
  <1> USE EnrollmentConstants
  <1>1. OrgPart
    BY DEF Init, OrgPart, NoSite
  <1>2. TokPart
    BY DEF Init, TokPart, NoToken, TokenRows, Times
  <1>3. DevPart
    BY DEF Init, DevPart, NoDevice, DeviceRows, DeviceIds
  <1>4. ReqPart
    BY DEF Init, ReqPart, NoRequest, RequestRows, Times
  <1>5. LockPart
    BY DEF Init, LockPart, NoRequest
  <1>6. HostPart
    BY DEF Init, HostPart, Held, NoRequest
  <1> QED
    BY <1>1, <1>2, <1>3, <1>4, <1>5, <1>6 DEF Inv

-----------------------------------------------------------------------------
(* The organisation.                                                       *)

\* Customers, sites and their deletions, whatever they race.
LEMMA OrgInv == Inv /\ OrgNext => Inv'
  <1> SUFFICES ASSUME Inv, OrgNext PROVE Inv'
    OBVIOUS
  <1>0. OrgPart /\ TokPart /\ DevPart /\ ReqPart /\ LockPart /\ HostPart
    BY DEF Inv
  <1>1. ASSUME NEW c \in Customers, CreateCustomer(c) PROVE Inv'
    <2>1. OrgPart'
      BY <1>0, <1>1 DEF OrgPart, CreateCustomer
    <2> QED
      BY <1>0, <1>1, <2>1, TokFrame, DevFrame, ReqFrame, LockFrame, HostFrame
         DEF Inv, CreateCustomer, tokVars, devVars, hostVars, fileVars
  <1>2. ASSUME NEW c \in Customers, CustomerSiteCount(c) PROVE Inv'
    <2>1. OrgPart'
      BY <1>0, <1>2 DEF OrgPart, CustomerSiteCount
    <2> QED
      BY <1>0, <1>2, <2>1, TokFrame, DevFrame, ReqFrame, LockFrame, HostFrame
         DEF Inv, CustomerSiteCount, tokVars, devVars, hostVars, fileVars
  \* The foreign key: a customer with a site stays.
  <1>3. ASSUME NEW c \in Customers, DeleteCustomer(c) PROVE Inv'
    <2>1. OrgPart'
      BY <1>0, <1>3 DEF OrgPart, DeleteCustomer, SitesOf
    <2> QED
      BY <1>0, <1>3, <2>1, TokFrame, DevFrame, ReqFrame, LockFrame, HostFrame
         DEF Inv, DeleteCustomer, tokVars, devVars, hostVars, fileVars
  <1>4. ASSUME NEW s \in Sites, NEW c \in Customers, CreateSite(s, c) PROVE Inv'
    <2>1. OrgPart'
      BY <1>0, <1>4 DEF OrgPart, CreateSite
    <2>2. \A u \in Sites : site[u].state = "live" => site'[u] = site[u]
      BY <1>0, <1>4 DEF OrgPart, CreateSite
    <2>3. UNCHANGED <<tokVars, devVars, hostVars, req, clock>>
      BY <1>4 DEF CreateSite
    <2>4. TokPart'
      BY <1>0, <2>2, <2>3 DEF TokPart, tokVars
    <2>5. DevPart'
      BY <1>0, <2>2, <2>3 DEF DevPart, devVars
    <2> QED
      BY <1>0, <2>1, <2>3, <2>4, <2>5, ReqFrame, LockFrame, HostFrame
         DEF Inv, tokVars, devVars, hostVars, fileVars
  <1>5. ASSUME NEW s \in Sites, BeginDeleteSite(s) \/ DeleteSiteFails(s) PROVE Inv'
    <2>1. OrgPart'
      BY <1>0, <1>5 DEF OrgPart, BeginDeleteSite, DeleteSiteFails
    <2> QED
      BY <1>0, <1>5, <2>1, TokFrame, DevFrame, ReqFrame, LockFrame, HostFrame
         DEF Inv, BeginDeleteSite, DeleteSiteFails, tokVars, devVars, hostVars, fileVars
  \* The site goes with its tokens, none of which is being consumed, and only
  \* when no device refers to it.
  <1>6. ASSUME NEW s \in Sites, DeleteSite(s) PROVE Inv'
    <2>1. OrgPart'
      BY <1>0, <1>6 DEF OrgPart, DeleteSite
    <2>2. \A u \in Sites : u # s => site'[u] = site[u]
      BY <1>0, <1>6 DEF OrgPart, DeleteSite
    <2>3. \A t \in Tokens : /\ t \in TokensOf(s) => tok'[t] = [tok[t] EXCEPT !.state = "gone"]
                            /\ t \notin TokensOf(s) => tok'[t] = tok[t]
      BY <1>6 DEF DeleteSite
    <2>4. tok' \in [Tokens -> TokenRows]
      <3>1. ASSUME NEW t \in Tokens PROVE tok'[t] \in TokenRows
        <4>1. tok[t] \in TokenRows
          BY <1>0 DEF TokPart
        <4>2. [tok[t] EXCEPT !.state = "gone"] \in TokenRows
          BY <4>1 DEF TokenRows
        <4> QED
          BY <2>3, <4>1, <4>2
      <3>2. tok' = [t \in Tokens |-> tok'[t]]
        BY <1>6 DEF DeleteSite
      <3> QED
        BY <3>1, <3>2
    <2>5. TokPart'
      BY <1>0, <2>2, <2>3, <2>4 DEF TokPart, TokensOf, TokenRows
    <2>6. DevPart'
      <3>1. UNCHANGED <<dev, enrolled>>
        BY <1>6 DEF DeleteSite, devVars
      <3>2. \A d \in DeviceIds : dev[d].status # "none" => dev[d].site # s
        BY <1>6 DEF DeleteSite, DevicesAt
      <3> QED
        BY <1>0, <2>2, <3>1, <3>2 DEF DevPart
    <2>7. LockPart'
      <3>1. UNCHANGED <<lock, req>>
        BY <1>6 DEF DeleteSite
      <3>2. ASSUME NEW r \in Requests, req[r].pc = "consumed"
            PROVE  tok'[req[r].token] = tok[req[r].token]
        <4>1. req[r].token \in Tokens /\ lock[req[r].token] = r
          BY <1>0, <3>2 DEF ReqPart, LockPart
        <4>2. lock[req[r].token] # None
          BY <4>1, EnrollmentConstants
        <4> QED
          BY <1>6, <2>3, <4>1, <4>2 DEF DeleteSite
      <3> QED
        BY <1>0, <3>1, <3>2 DEF LockPart
    <2> QED
      BY <1>0, <1>6, <2>1, <2>5, <2>6, <2>7, ReqFrame, HostFrame
         DEF Inv, DeleteSite, devVars, hostVars, fileVars
  <1> QED
    BY <1>1, <1>2, <1>3, <1>4, <1>5, <1>6 DEF OrgNext

-----------------------------------------------------------------------------
(* Tokens.                                                                 *)

\* Issuing and revoking tokens.
LEMMA TokenInv == Inv /\ TokenNext => Inv'
  <1> SUFFICES ASSUME Inv, TokenNext PROVE Inv'
    OBVIOUS
  <1> USE EnrollmentConstants
  <1>0. OrgPart /\ TokPart /\ DevPart /\ ReqPart /\ LockPart /\ HostPart
    BY DEF Inv
  <1>1. ASSUME NEW t \in Tokens, NEW s \in Sites, NEW n \in Limits, NEW e \in Times,
               CreateEnrollmentToken(t, s, n, e)
        PROVE  Inv'
    <2>1. UNCHANGED <<orgVars, lock, devVars, hostVars, req, clock>>
      BY <1>1 DEF CreateEnrollmentToken
    <2>2. tok' \in [Tokens -> TokenRows]
      BY <1>0, <1>1 DEF TokPart, CreateEnrollmentToken, TokenRows
    <2>3. TokPart'
      BY <1>0, <1>1, <2>1, <2>2 DEF TokPart, CreateEnrollmentToken, orgVars
    <2>4. LockPart'
      BY <1>0, <1>1, <2>1 DEF LockPart, TokPart, ReqPart, CreateEnrollmentToken
    <2> QED
      BY <1>0, <2>1, <2>3, <2>4, OrgFrame, DevFrame, ReqFrame, HostFrame
         DEF Inv, orgVars, devVars, hostVars, fileVars
  <1>2. ASSUME NEW t \in Tokens, RevokeEnrollmentToken(t) PROVE Inv'
    <2>1. UNCHANGED <<orgVars, lock, devVars, hostVars, req, clock>>
      BY <1>2 DEF RevokeEnrollmentToken
    <2>2. tok' \in [Tokens -> TokenRows]
      BY <1>0, <1>2 DEF TokPart, RevokeEnrollmentToken, TokenRows
    <2>3. TokPart'
      BY <1>0, <1>2, <2>1, <2>2 DEF TokPart, RevokeEnrollmentToken, orgVars, TokenRows
    <2>4. \A r \in Requests : req[r].pc = "consumed" => req[r].token # t
      BY <1>0, <1>2 DEF LockPart, RevokeEnrollmentToken
    <2>5. LockPart'
      BY <1>0, <1>2, <2>1, <2>4 DEF LockPart, TokPart, ReqPart, RevokeEnrollmentToken
    <2> QED
      BY <1>0, <2>1, <2>3, <2>5, OrgFrame, DevFrame, ReqFrame, HostFrame
         DEF Inv, orgVars, devVars, hostVars, fileVars
  <1> QED
    BY <1>1, <1>2 DEF TokenNext

-----------------------------------------------------------------------------
(* Requests.                                                               *)

\* A request that goes back to idle without having consumed a token.
LEMMA RefuseKeeps ==
  ASSUME Inv, NEW r \in Requests, Refuse(r), req[r].pc # "consumed",
         UNCHANGED <<orgVars, tokVars, devVars, keys, clock>>
  PROVE  OrgPart' /\ TokPart' /\ DevPart' /\ ReqPart' /\ LockPart'
  <1> USE EnrollmentConstants
  <1>1. OrgPart' /\ TokPart' /\ DevPart'
    BY OrgFrame, TokFrame, DevFrame DEF Inv, orgVars, tokVars, devVars
  <1>2. req' \in [Requests -> RequestRows]
    BY DEF Inv, ReqPart, Refuse, NoRequest, RequestRows, Times
  <1>3. req'[r].pc = "idle" /\ \A q \in Requests : q # r => req'[q] = req[q]
    BY DEF Inv, ReqPart, Refuse, NoRequest
  <1>4. ReqPart'
    BY <1>2, <1>3 DEF Inv, ReqPart, devVars
  <1>5. LockPart'
    BY <1>3 DEF Inv, LockPart, tokVars
  <1> QED
    BY <1>1, <1>4, <1>5

\* No device changes hands when the created requests become fewer and the
\* identities stay.
LEMMA FewerAnswers ==
  ASSUME HostPart, UNCHANGED <<identity, tmp, running, marking, dev, enrolled>>,
         \A q \in Requests : req'[q].pc = "created" => req'[q] = req[q]
  PROVE  HostPart'
  BY DEF HostPart, Held, Good

\* A host that holds what it held before, or less, or one of its identities
\* marked revoked once the device is decommissioned; no new answer is on its way.
LEMMA HeldShrinks ==
  ASSUME HostPart, NEW h \in Hosts, UNCHANGED <<dev, enrolled>>,
         \A q \in Requests : req'[q].pc = "created" => req'[q] = req[q],
         identity' \in [Hosts -> Identities \cup {None}],
         tmp' \in [Hosts -> Identities \cup {None}],
         running' \in [Hosts -> Identities \cup {None}],
         marking' \subseteq {g \in Hosts : running'[g] # None},
         \A g \in Hosts : g # h => /\ identity'[g] = identity[g] /\ tmp'[g] = tmp[g]
                                   /\ running'[g] = running[g],
         \A id \in Held(h)' : \E old \in Held(h) :
           /\ id.dev = old.dev /\ id.key = old.key
           /\ id.revoked => old.revoked \/ dev[id.dev].status = "decommissioned"
  PROVE  HostPart'
  <1>1. \A g \in Hosts : g # h => Held(g)' = Held(g)
    BY DEF Held
  <1>2. \A g \in Hosts : \A id \in Held(g)' : \E old \in Held(g) :
          /\ id.dev = old.dev /\ id.key = old.key
          /\ id.revoked => old.revoked \/ dev[id.dev].status = "decommissioned"
    BY <1>1
  <1>3. \A g \in Hosts : \A id \in Held(g)' : Good(id)'
    BY <1>2 DEF HostPart, Good
  <1>4. \A f, g \in Hosts : f # g => \A i \in Held(f)', j \in Held(g)' : i.dev # j.dev
    BY <1>2 DEF HostPart
  <1>5. \A r \in Requests : req'[r].pc = "created" =>
          \A g \in Hosts : \A id \in Held(g)' : id.dev # req'[r].dev
    BY <1>2 DEF HostPart
  <1>6. \A q, r \in Requests : q # r /\ req'[q].pc = "created" /\ req'[r].pc = "created" =>
          req'[q].dev # req'[r].dev
    BY DEF HostPart
  <1> QED
    BY <1>3, <1>4, <1>5, <1>6 DEF HostPart

\* A rename leaves a host with no more than it held.
LEMMA RenameKeeps ==
  ASSUME HostPart, NEW h \in Hosts, RenameTmp(h), UNCHANGED <<dev, enrolled>>,
         \A q \in Requests : req'[q].pc = "created" => req'[q] = req[q],
         running' \in [Hosts -> Identities \cup {None}],
         running'[h] \in {running[h], None},
         \A g \in Hosts : g # h => running'[g] = running[g],
         marking' \subseteq {g \in Hosts : running'[g] # None}
  PROVE  HostPart'
  <1>1. /\ tmp' \in [Hosts -> Identities \cup {None}] /\ tmp'[h] = None
        /\ identity' \in [Hosts -> Identities \cup {None}] /\ identity'[h] \in {identity[h], tmp[h]}
        /\ \A g \in Hosts : g # h => identity'[g] = identity[g] /\ tmp'[g] = tmp[g]
    BY DEF RenameTmp, HostPart
  <1>2. \A id \in Held(h)' : id \in Held(h)
    BY <1>1 DEF Held
  <1> QED
    BY <1>1, <1>2, HeldShrinks

\* `rmmagent enroll` and the two transactions of its handler.
LEMMA RequestInv == Inv /\ RequestNext => Inv'
  <1> SUFFICES ASSUME Inv, RequestNext PROVE Inv'
    OBVIOUS
  <1> USE EnrollmentConstants
  <1>0. OrgPart /\ TokPart /\ DevPart /\ ReqPart /\ LockPart /\ HostPart
    BY DEF Inv
  <1>1. ASSUME NEW r \in Requests, NEW h \in Hosts, NEW t \in Tokens, Enroll(r, h, t) PROVE Inv'
    <2>1. UNCHANGED <<orgVars, tokVars, devVars, fileVars, running, marking, clock>>
      BY <1>1 DEF Enroll
    <2>2. keys + 1 \in 1 .. MaxKeys
      BY <1>0, <1>1 DEF ReqPart, Enroll
    <2>3. /\ req'[r] = [NoRequest EXCEPT !.pc = "posted", !.host = h, !.token = t,
                                          !.key = keys + 1]
          /\ \A q \in Requests : q # r => req'[q] = req[q]
          /\ req' \in [Requests -> RequestRows]
      <3> DEFINE new == [NoRequest EXCEPT !.pc = "posted", !.host = h, !.token = t,
                                          !.key = keys + 1]
      <3>1. new \in RequestRows
        <4>1. NoRequest \in RequestRows /\ keys + 1 \in 0 .. MaxKeys
          BY <2>2 DEF NoRequest, RequestRows, Times
        <4>2. \A row \in RequestRows :
                [row EXCEPT !.pc = "posted", !.host = h, !.token = t, !.key = keys + 1]
                  \in RequestRows
          BY <4>1 DEF RequestRows
        <4> QED
          BY <4>1, <4>2
      <3>2. req' = [req EXCEPT ![r] = new]
        BY <1>1 DEF Enroll
      <3> HIDE DEF new
      <3>3. req'[r] = new /\ (\A q \in Requests : q # r => req'[q] = req[q])
              /\ req' \in [Requests -> RequestRows]
        BY <1>0, <3>1, <3>2 DEF ReqPart
      <3> QED
        BY <3>3 DEF new
    <2>4. ReqPart'
      BY <1>0, <1>1, <2>1, <2>2, <2>3 DEF ReqPart, Enroll, NoRequest, devVars
    <2>5. LockPart'
      BY <1>0, <1>1, <2>1, <2>3 DEF LockPart, Enroll, NoRequest, tokVars
    <2>6. HostPart'
      BY <1>0, <2>1, <2>3, FewerAnswers DEF NoRequest, devVars, fileVars
    <2> QED
      BY <1>0, <2>1, <2>4, <2>5, <2>6, OrgFrame, TokFrame, DevFrame
         DEF Inv, orgVars, tokVars, devVars
  \* A request whose pc moves between two states in which it holds nothing.
  <1>2. ASSUME NEW r \in Requests, LookupEnrollmentToken(r) PROVE Inv'
    <2>1. UNCHANGED <<orgVars, tokVars, devVars, hostVars, clock>>
      BY <1>2 DEF LookupEnrollmentToken
    <2>2. CASE Refuse(r)
      <3>1. \A q \in Requests : req'[q].pc = "created" => req'[q] = req[q]
        BY <1>0, <2>2 DEF Refuse, ReqPart, NoRequest
      <3> QED
        BY <1>0, <1>2, <2>1, <2>2, <3>1, RefuseKeeps, FewerAnswers
           DEF Inv, LookupEnrollmentToken, hostVars, fileVars, devVars
    <2>3. CASE req' = [req EXCEPT ![r].pc = "found"]
      <3>1. /\ req'[r] = [req[r] EXCEPT !.pc = "found"]
            /\ \A q \in Requests : q # r => req'[q] = req[q]
            /\ req' \in [Requests -> RequestRows]
        BY <1>0, <2>3 DEF ReqPart, RequestRows
      <3>2. ReqPart'
        BY <1>0, <1>2, <2>1, <3>1 DEF ReqPart, RequestRows, LookupEnrollmentToken, devVars,
           hostVars, fileVars
      <3>3. LockPart'
        BY <1>0, <1>2, <2>1, <3>1 DEF LockPart, ReqPart, RequestRows, LookupEnrollmentToken,
           tokVars
      <3>4. HostPart'
        BY <1>0, <2>1, <3>1, FewerAnswers DEF ReqPart, RequestRows, hostVars, fileVars, devVars
      <3> QED
        BY <1>0, <2>1, <3>2, <3>3, <3>4, OrgFrame, TokFrame, DevFrame
           DEF Inv, orgVars, tokVars, devVars
    <2> QED
      BY <1>2, <2>2, <2>3 DEF LookupEnrollmentToken
  <1>3. ASSUME NEW r \in Requests, BeginEnrollment(r) PROVE Inv'
    <2>1. UNCHANGED <<orgVars, tokVars, devVars, hostVars, clock>>
      BY <1>3 DEF BeginEnrollment
    <2>2. /\ req'[r] = [req[r] EXCEPT !.pc = "begun", !.start = clock]
          /\ \A q \in Requests : q # r => req'[q] = req[q]
          /\ req' \in [Requests -> RequestRows]
      <3> DEFINE new == [req[r] EXCEPT !.pc = "begun", !.start = clock]
      <3>1. req[r] \in RequestRows /\ clock \in Times
        BY <1>0 DEF ReqPart
      <3>2. new \in RequestRows
        BY <3>1 DEF RequestRows
      <3>3. req' = [req EXCEPT ![r] = new]
        BY <1>0, <1>3 DEF BeginEnrollment, ReqPart
      <3> HIDE DEF new
      <3>4. req'[r] = new /\ (\A q \in Requests : q # r => req'[q] = req[q])
              /\ req' \in [Requests -> RequestRows]
        BY <1>0, <3>2, <3>3 DEF ReqPart
      <3> QED
        BY <3>4 DEF new
    <2>3. ReqPart'
      BY <1>0, <1>3, <2>1, <2>2 DEF ReqPart, RequestRows, BeginEnrollment, devVars, hostVars, fileVars
    <2>4. LockPart'
      BY <1>0, <1>3, <2>1, <2>2 DEF LockPart, ReqPart, RequestRows, BeginEnrollment, tokVars
    <2>5. HostPart'
      <3>1. req[r] \in RequestRows
        BY <1>0 DEF ReqPart
      <3>2. req'[r].pc = "begun"
        BY <2>2, <3>1 DEF RequestRows
      <3> QED
        BY <1>0, <2>1, <2>2, <3>2, FewerAnswers DEF hostVars, fileVars, devVars
    <2> QED
      BY <1>0, <2>1, <2>3, <2>4, <2>5, OrgFrame, TokFrame, DevFrame
         DEF Inv, orgVars, tokVars, devVars
  \* The UPDATE takes the lock of a row nobody holds.
  <1>4. ASSUME NEW r \in Requests, ConsumeEnrollmentToken(r) PROVE Inv'
    <2>0. UNCHANGED <<orgVars, tok, devVars, hostVars, clock>>
      BY <1>4 DEF ConsumeEnrollmentToken
    <2>1. CASE Refuse(r) /\ UNCHANGED lock
      <3>1. \A q \in Requests : req'[q].pc = "created" => req'[q] = req[q]
        BY <1>0, <2>1 DEF Refuse, ReqPart, NoRequest
      <3> QED
        BY <1>0, <1>4, <2>0, <2>1, <3>1, RefuseKeeps, FewerAnswers
           DEF Inv, ConsumeEnrollmentToken, hostVars, fileVars, devVars, tokVars
    <2>2. CASE /\ tok[req[r].token].state = "live"
               /\ tok[req[r].token].used < tok[req[r].token].max
               /\ req' = [req EXCEPT ![r].pc = "consumed"]
               /\ lock' = [lock EXCEPT ![req[r].token] = r]
      <3>0. req[r].pc = "begun" /\ req[r].token \in Tokens /\ lock[req[r].token] = None
        BY <1>0, <1>4 DEF ConsumeEnrollmentToken, ReqPart
      <3>1. /\ req'[r] = [req[r] EXCEPT !.pc = "consumed"]
            /\ \A q \in Requests : q # r => req'[q] = req[q]
            /\ req' \in [Requests -> RequestRows]
        BY <1>0, <2>2 DEF ReqPart, RequestRows
      <3>2. req'[r].pc = "consumed" /\ req'[r].token = req[r].token
        BY <1>0, <3>1 DEF ReqPart, RequestRows
      <3>3. ReqPart'
        BY <1>0, <2>0, <3>0, <3>1 DEF ReqPart, RequestRows, devVars, hostVars, fileVars
      <3>4. LockPart'
        <4>1. /\ lock' \in [Tokens -> Requests \cup {None}]
              /\ lock'[req[r].token] = r
              /\ \A t \in Tokens : t # req[r].token => lock'[t] = lock[t]
          BY <1>0, <2>2, <3>0 DEF LockPart
        <4>2. \A q \in Requests : q # r /\ req[q].pc = "consumed" => req[q].token # req[r].token
          BY <1>0, <3>0 DEF LockPart
        <4>3. ASSUME NEW t \in Tokens, NEW q \in Requests
              PROVE  lock'[t] = q <=> (req'[q].pc = "consumed" /\ req'[q].token = t)
          <5>1. CASE q = r
            BY <1>0, <3>0, <3>2, <4>1, <5>1 DEF LockPart
          <5>2. CASE q # r
            BY <1>0, <3>1, <4>1, <4>2, <5>2 DEF LockPart
          <5> QED
            BY <5>1, <5>2
        <4> QED
          BY <1>0, <2>0, <2>2, <3>1, <3>2, <4>1, <4>3 DEF LockPart
      <3>5. HostPart'
        BY <1>0, <2>0, <3>1, <3>2, FewerAnswers DEF hostVars, fileVars, devVars
      <3> QED
        BY <1>0, <2>0, <3>3, <3>4, <3>5, OrgFrame, TokFrame, DevFrame
           DEF Inv, orgVars, devVars
    <2> QED
      BY <1>4, <2>1, <2>2 DEF ConsumeEnrollmentToken
  \* The commit: the new device, the use of the token and the row's lock.
  <1>5. ASSUME NEW r \in Requests, CreateDevice(r) PROVE Inv'
    <2> DEFINE t == req[r].token
               s == tok[t].site
               d == enrolled + 1
    <2>0. /\ req[r].pc = "consumed" /\ t \in Tokens /\ s \in Sites /\ site[s].state = "live"
          /\ d \in DeviceIds /\ d \in 1 .. MaxDevices /\ lock[t] = r
          /\ req[r].key \in 1 .. MaxKeys
          /\ UNCHANGED <<orgVars, hostVars, clock>>
      BY <1>0, <1>5 DEF CreateDevice, ReqPart, TokPart, LockPart, DeviceIds
    <2>1. /\ dev'[d] = [status |-> "active", site |-> s, key |-> req[r].key, by |-> t]
          /\ \A e \in DeviceIds : e # d => dev'[e] = dev[e]
          /\ dev' \in [DeviceIds -> DeviceRows]
          /\ enrolled' = d
      BY <1>0, <1>5, <2>0 DEF CreateDevice, DevPart, DeviceRows
    <2>2. /\ tok'[t] = [tok[t] EXCEPT !.used = @ + 1]
          /\ \A u \in Tokens : u # t => tok'[u] = tok[u]
          /\ tok' \in [Tokens -> TokenRows]
      BY <1>0, <1>5, <2>0 DEF CreateDevice, TokPart, TokenRows
    <2>3. /\ req'[r] = [req[r] EXCEPT !.pc = "created", !.dev = d]
          /\ \A q \in Requests : q # r => req'[q] = req[q]
          /\ req' \in [Requests -> RequestRows]
      <3> DEFINE new == [req[r] EXCEPT !.pc = "created", !.dev = d]
      <3>1. req[r] \in RequestRows /\ clock \in Times
        BY <1>0 DEF ReqPart
      <3>2. new \in RequestRows
        <4>1. d \in 0 .. MaxDevices
          BY <2>0
        <4> HIDE DEF d
        <4> QED
          BY <3>1, <4>1 DEF RequestRows
      <3>3. req' = [req EXCEPT ![r] = new]
        BY <1>0, <1>5 DEF CreateDevice, ReqPart
      <3> HIDE DEF new
      <3>4. req'[r] = new /\ (\A q \in Requests : q # r => req'[q] = req[q])
              /\ req' \in [Requests -> RequestRows]
        BY <1>0, <3>2, <3>3 DEF ReqPart
      <3> QED
        BY <3>4 DEF new
    <2>4. /\ req'[r].pc = "created" /\ req'[r].dev = d /\ req'[r].key = req[r].key
          /\ req'[r].token = t /\ req'[r].host = req[r].host
      BY <1>0, <2>3 DEF ReqPart, RequestRows
    <2>5. /\ lock' \in [Tokens -> Requests \cup {None}]
          /\ lock'[t] = None
          /\ \A u \in Tokens : u # t => lock'[u] = lock[u]
      BY <1>0, <1>5, <2>0 DEF CreateDevice, LockPart
    <2>6. TokPart'
      BY <1>0, <2>0, <2>2 DEF TokPart, TokenRows, orgVars
    <2>7. DevPart'
      <3>1. enrolled \in Nat /\ enrolled' \in 0 .. MaxDevices
        BY <1>0, <2>0, <2>1 DEF DevPart
      <3>2. \A e \in DeviceIds : e \in Nat
        BY DEF DeviceIds
      <3>3. \A e \in DeviceIds : dev'[e].status # "none" =>
              dev'[e].site \in Sites /\ site'[dev'[e].site].state = "live"
        BY <1>0, <2>0, <2>1 DEF DevPart, orgVars
      <3>4. \A e \in DeviceIds : IF e <= enrolled' THEN dev'[e].status # "none"
                                                   ELSE dev'[e] = NoDevice
        BY <1>0, <2>0, <2>1, <3>1, <3>2 DEF DevPart
      <3> QED
        BY <2>1, <3>1, <3>3, <3>4 DEF DevPart
    <2>8. ReqPart'
      <3>1. keys' \in 0 .. MaxKeys /\ clock' \in Times
        BY <1>0, <2>0 DEF ReqPart, hostVars, fileVars
      <3>2. \A q \in Requests : req'[q].pc # "idle" =>
              req'[q].host \in Hosts /\ req'[q].token \in Tokens /\ req'[q].key \in 1 .. MaxKeys
        BY <1>0, <2>0, <2>3, <2>4 DEF ReqPart
      <3>3. ASSUME NEW q \in Requests, req'[q].pc = "created"
            PROVE  req'[q].dev \in 1 .. enrolled' /\ dev'[req'[q].dev].key = req'[q].key
        <4>1. CASE q = r
          BY <2>0, <2>1, <2>4, <4>1
        <4>2. CASE q # r
          <5>1. req'[q] = req[q] /\ req[q].dev \in 1 .. enrolled
                  /\ dev[req[q].dev].key = req[q].key
            BY <1>0, <2>3, <3>3, <4>2 DEF ReqPart
          <5>2. enrolled \in Nat /\ req[q].dev \in DeviceIds /\ req[q].dev # d
            BY <1>0, <2>0, <5>1 DEF DevPart, DeviceIds
          <5> QED
            BY <2>1, <5>1, <5>2
        <4> QED
          BY <4>1, <4>2
      <3> QED
        BY <2>3, <3>1, <3>2, <3>3 DEF ReqPart
    <2>9. LockPart'
      <3>1. \A q \in Requests : q # r /\ req[q].pc = "consumed" => req[q].token # t
        BY <1>0, <2>0 DEF LockPart
      <3>2. ASSUME NEW u \in Tokens, NEW q \in Requests
            PROVE  lock'[u] = q <=> (req'[q].pc = "consumed" /\ req'[q].token = u)
        <4>1. CASE q = r
          BY <1>0, <2>0, <2>4, <2>5, <4>1 DEF LockPart
        <4>2. CASE q # r
          BY <1>0, <2>3, <2>5, <3>1, <4>2 DEF LockPart
        <4> QED
          BY <4>1, <4>2
      <3>3. ASSUME NEW q \in Requests, req'[q].pc = "consumed"
            PROVE  /\ tok'[req'[q].token].state = "live"
                   /\ tok'[req'[q].token].used < tok'[req'[q].token].max
        <4>1. q # r /\ req'[q] = req[q] /\ req[q].token \in Tokens /\ req[q].token # t
          BY <1>0, <2>3, <2>4, <3>1, <3>3 DEF ReqPart
        <4> QED
          BY <1>0, <2>2, <3>3, <4>1 DEF LockPart
      <3> QED
        BY <2>5, <3>2, <3>3 DEF LockPart
    <2>10. HostPart'
      <3>1. /\ UNCHANGED <<identity, tmp, running, marking>>
            /\ \A h \in Hosts : Held(h)' = Held(h)
        BY <2>0 DEF hostVars, fileVars, Held
      <3>2. \A h \in Hosts : \A id \in Held(h) :
              id.dev \in 1 .. enrolled /\ id.dev \in DeviceIds /\ id.dev # d
        BY <1>0, <2>0 DEF HostPart, Good, DevPart, DeviceIds
      <3>3. \A h \in Hosts : \A id \in Held(h) : Good(id)'
        BY <1>0, <2>0, <2>1, <3>2 DEF HostPart, Good, DevPart
      <3>4. \A q \in Requests : q # r /\ req'[q].pc = "created" =>
              req'[q] = req[q] /\ req[q].dev # d
        BY <1>0, <2>0, <2>3 DEF ReqPart, DevPart
      <3>5. \A q \in Requests : req'[q].pc = "created" =>
              \A h \in Hosts : \A id \in Held(h) : id.dev # req'[q].dev
        BY <1>0, <2>4, <3>2, <3>4 DEF HostPart
      <3>6. \A p, q \in Requests : p # q /\ req'[p].pc = "created" /\ req'[q].pc = "created"
              => req'[p].dev # req'[q].dev
        BY <1>0, <2>4, <3>4 DEF HostPart
      <3>7. \A g, h \in Hosts : g # h => \A i \in Held(g), j \in Held(h) : i.dev # j.dev
        BY <1>0 DEF HostPart
      <3>8. /\ identity' \in [Hosts -> Identities \cup {None}] /\ tmp' \in [Hosts -> Identities \cup {None}]
            /\ running' \in [Hosts -> Identities \cup {None}]
            /\ marking' \subseteq {h \in Hosts : running'[h] # None}
        BY <1>0, <3>1 DEF HostPart
      <3> QED
        BY <3>1, <3>3, <3>5, <3>6, <3>7, <3>8 DEF HostPart
    <2> HIDE DEF t, s, d
    <2> QED
      BY <1>0, <2>0, <2>6, <2>7, <2>8, <2>9, <2>10, OrgFrame DEF Inv, orgVars
  \* The rollback gives the row back.
  <1>6. ASSUME NEW r \in Requests, EnrollmentAborts(r) PROVE Inv'
    <2>0. UNCHANGED <<orgVars, tok, devVars, hostVars, clock>>
      BY <1>6 DEF EnrollmentAborts
    <2>1. req[r].token \in Tokens
      BY <1>0, <1>6 DEF ReqPart, EnrollmentAborts
    <2>2. /\ req'[r].pc = "idle"
          /\ \A q \in Requests : q # r => req'[q] = req[q]
          /\ req' \in [Requests -> RequestRows]
      BY <1>0, <1>6 DEF ReqPart, RequestRows, EnrollmentAborts, Refuse, NoRequest, Times
    <2>3. ReqPart'
      BY <1>0, <2>0, <2>2 DEF ReqPart, devVars, hostVars, fileVars
    <2>4. LockPart'
      <3>1. /\ lock' \in [Tokens -> Requests \cup {None}]
            /\ lock'[req[r].token] # r
            /\ \A u \in Tokens : lock[u] # r => lock'[u] = lock[u]
        BY <1>0, <1>6, <2>1 DEF EnrollmentAborts, LockPart
      <3>2. \A u \in Tokens : lock[u] = r => u = req[r].token /\ lock'[u] = None
        BY <1>0, <1>6, <2>1 DEF EnrollmentAborts, LockPart
      <3> QED
        BY <1>0, <2>0, <2>2, <3>1, <3>2 DEF LockPart
    <2>5. HostPart'
      BY <1>0, <2>0, <2>2, FewerAnswers DEF hostVars, fileVars, devVars
    <2> QED
      BY <1>0, <2>0, <2>3, <2>4, <2>5, OrgFrame, TokFrame, DevFrame DEF Inv, orgVars, devVars
  \* The answer's device passes from the request to its host.
  <1>7. ASSUME NEW r \in Requests, WriteIdentity(r) PROVE Inv'
    <2>h. PICK h \in Hosts : h = req[r].host
      BY <1>0, <1>7 DEF WriteIdentity, ReqPart
    <2> DEFINE new == [dev |-> req[r].dev, key |-> req[r].key, revoked |-> FALSE]
    <2>0. /\ req[r].pc = "created"
          /\ UNCHANGED <<orgVars, tokVars, devVars, keys, identity, running, marking, clock>>
          /\ req' = [req EXCEPT ![r].pc = "saving"]
      BY <1>7 DEF WriteIdentity
    <2>1. /\ req'[r] = [req[r] EXCEPT !.pc = "saving"]
          /\ \A q \in Requests : q # r => req'[q] = req[q]
          /\ req' \in [Requests -> RequestRows]
      BY <1>0, <2>0 DEF ReqPart, RequestRows
    <2>2. req'[r].pc = "saving"
      BY <1>0, <2>1 DEF ReqPart, RequestRows
    <2>3. new \in Identities /\ Good(new)
      BY <1>0, <2>0 DEF ReqPart, DevPart, Good, Identities, DeviceIds
    <2>4. /\ tmp' \in [Hosts -> Identities \cup {None}]
          /\ tmp'[h] = new
          /\ \A g \in Hosts : g # h => tmp'[g] = tmp[g]
      BY <1>0, <1>7, <2>h, <2>0, <2>3 DEF WriteIdentity, HostPart
    <2>5. /\ \A g \in Hosts : g # h => Held(g)' = Held(g)
          /\ \A id \in Held(h)' : id = new \/ id \in Held(h)
      BY <2>0, <2>4 DEF Held
    <2>6. new.dev = req[r].dev
      OBVIOUS
    <2> HIDE DEF new
    <2>7. UNCHANGED <<dev, enrolled>>
      BY <2>0 DEF devVars
    <2>8. \A g \in Hosts : \A id \in Held(g)' : Good(id)'
      BY <1>0, <2>3, <2>5, <2>7 DEF HostPart, Good
    <2>9. \A f, g \in Hosts : f # g => \A i \in Held(f)', j \in Held(g)' : i.dev # j.dev
      BY <1>0, <2>0, <2>5, <2>6 DEF HostPart
    <2>10. \A q \in Requests : req'[q].pc = "created" =>
             \A g \in Hosts : \A id \in Held(g)' : id.dev # req'[q].dev
      BY <1>0, <2>0, <2>1, <2>2, <2>5, <2>6 DEF HostPart
    <2>11. \A p, q \in Requests : p # q /\ req'[p].pc = "created" /\ req'[q].pc = "created"
             => req'[p].dev # req'[q].dev
      BY <1>0, <2>1, <2>2 DEF HostPart
    <2>12. /\ identity' \in [Hosts -> Identities \cup {None}]
           /\ running' \in [Hosts -> Identities \cup {None}]
           /\ marking' \subseteq {g \in Hosts : running'[g] # None}
      BY <1>0, <2>0 DEF HostPart
    <2>13. HostPart'
      BY <2>4, <2>8, <2>9, <2>10, <2>11, <2>12 DEF HostPart
    <2>14. ReqPart'
      BY <1>0, <2>0, <2>1, <2>2 DEF ReqPart, RequestRows, devVars
    <2>15. LockPart'
      BY <1>0, <2>0, <2>1, <2>2 DEF LockPart, tokVars
    <2> QED
      BY <1>0, <2>0, <2>13, <2>14, <2>15, OrgFrame, TokFrame, DevFrame
         DEF Inv, orgVars, tokVars, devVars
  \* The rename moves what the host holds.
  <1>9. ASSUME NEW r \in Requests, SaveIdentity(r) PROVE Inv'
    <2>h. PICK h \in Hosts : h = req[r].host
      BY <1>0, <1>9 DEF SaveIdentity, ReqPart
    <2>0. /\ req[r].pc = "saving" /\ Refuse(r) /\ RenameTmp(h)
          /\ UNCHANGED <<orgVars, tokVars, devVars, keys, running, marking, clock>>
      BY <1>9, <2>h DEF SaveIdentity
    <2>1. OrgPart' /\ TokPart' /\ DevPart' /\ ReqPart' /\ LockPart'
      BY <2>0, RefuseKeeps
    <2>2. \A q \in Requests : req'[q].pc = "created" => req'[q] = req[q]
      BY <1>0, <2>0 DEF Refuse, ReqPart, NoRequest
    <2>3. UNCHANGED <<running, marking, dev, enrolled>>
      BY <2>0 DEF devVars
    <2>4. /\ running' \in [Hosts -> Identities \cup {None}]
          /\ marking' \subseteq {g \in Hosts : running'[g] # None}
      BY <1>0, <2>3 DEF HostPart
    <2>5. HostPart'
      BY <1>0, <2>0, <2>2, <2>3, <2>4, RenameKeeps
    <2> QED
      BY <2>1, <2>5 DEF Inv
  <1>8. ASSUME NEW r \in Requests, AnswerLost(r) PROVE Inv'
    <2>1. \A q \in Requests : req'[q].pc = "created" => req'[q] = req[q]
      BY <1>0, <1>8 DEF AnswerLost, Refuse, ReqPart, NoRequest
    <2> QED
      BY <1>0, <1>8, <2>1, RefuseKeeps, FewerAnswers DEF Inv, AnswerLost, hostVars, fileVars, devVars
  <1> QED
    BY <1>1, <1>2, <1>3, <1>4, <1>5, <1>6, <1>7, <1>8, <1>9 DEF RequestNext

-----------------------------------------------------------------------------
(* Hosts.                                                                  *)

\* The agent's command line and the decommissioning of a device.
LEMMA HostInv == Inv /\ HostNext => Inv'
  <1> SUFFICES ASSUME Inv, HostNext PROVE Inv'
    OBVIOUS
  <1>0. OrgPart /\ TokPart /\ DevPart /\ ReqPart /\ LockPart /\ HostPart
    BY DEF Inv
  <1>h. ASSUME UNCHANGED <<orgVars, tokVars, devVars, keys, req, clock>>, HostPart' PROVE Inv'
    BY <1>0, <1>h, OrgFrame, TokFrame, DevFrame, ReqFrame, LockFrame
       DEF Inv, orgVars, tokVars, devVars
  <1>1. ASSUME NEW h \in Hosts, StartAgent(h) PROVE Inv'
    <2>1. /\ UNCHANGED <<identity, tmp, marking>> /\ running' = [running EXCEPT ![h] = identity[h]]
          /\ identity[h] # None
          /\ UNCHANGED <<orgVars, tokVars, devVars, keys, req, clock>>
      BY <1>1 DEF StartAgent, fileVars
    <2>2. /\ running' \in [Hosts -> Identities \cup {None}]
          /\ running'[h] = identity[h]
          /\ \A g \in Hosts : g # h => running'[g] = running[g]
      BY <1>0, <2>1 DEF HostPart
    <2>3. \A id \in Held(h)' : id \in Held(h)
      BY <2>1, <2>2 DEF Held
    <2>4. HostPart'
      BY <1>0, <2>1, <2>2, <2>3, HeldShrinks DEF HostPart, devVars
    <2> QED
      BY <1>h, <2>1, <2>4
  <1>2. ASSUME NEW h \in Hosts, MarkRevoked(h) PROVE Inv'
    <2> DEFINE new == [running[h] EXCEPT !.revoked = TRUE]
    <2>1. /\ running[h] \in Identities /\ running[h] \in Held(h)
          /\ dev[running[h].dev].status = "decommissioned"
          /\ tmp' = [tmp EXCEPT ![h] = new]
          /\ marking' = marking \cup {h} /\ running[h] # None
          /\ UNCHANGED <<identity, running>>
          /\ UNCHANGED <<orgVars, tokVars, devVars, keys, req, clock>>
      BY <1>0, <1>2 DEF MarkRevoked, HostPart, Held
    <2>2. /\ new \in Identities
          /\ new.dev = running[h].dev /\ new.key = running[h].key
      BY <2>1 DEF Identities
    <2> HIDE DEF new
    <2>3. /\ running' \in [Hosts -> Identities \cup {None}]
          /\ identity' \in [Hosts -> Identities \cup {None}]
          /\ tmp' \in [Hosts -> Identities \cup {None}] /\ tmp'[h] = new
          /\ marking' \subseteq {g \in Hosts : running'[g] # None}
          /\ \A g \in Hosts : g # h => tmp'[g] = tmp[g]
      BY <1>0, <2>1, <2>2 DEF HostPart
    <2>4. \A id \in Held(h)' : id = new \/ id \in Held(h)
      BY <2>1, <2>3 DEF Held
    <2>5. HostPart'
      BY <1>0, <2>1, <2>2, <2>3, <2>4, HeldShrinks DEF devVars
    <2> QED
      BY <1>h, <2>1, <2>5
  <1>6. ASSUME NEW h \in Hosts, SaveRevoked(h) PROVE Inv'
    <2>1. /\ RenameTmp(h) /\ running' = [running EXCEPT ![h] = None] /\ marking' = marking \ {h}
          /\ UNCHANGED <<orgVars, tokVars, devVars, keys, req, clock>>
      BY <1>6 DEF SaveRevoked
    <2>2. /\ running' \in [Hosts -> Identities \cup {None}]
          /\ running'[h] = None
          /\ \A g \in Hosts : g # h => running'[g] = running[g]
      BY <1>0, <2>1 DEF HostPart
    <2>3. marking' \subseteq {g \in Hosts : running'[g] # None}
      BY <1>0, <2>1, <2>2 DEF HostPart
    <2>4. HostPart'
      BY <1>0, <2>1, <2>2, <2>3, RenameKeeps DEF devVars
    <2> QED
      BY <1>h, <2>1, <2>4
  <1>3. ASSUME NEW h \in Hosts, StopAgent(h) PROVE Inv'
    <2>1. /\ UNCHANGED <<identity, tmp>> /\ running' = [running EXCEPT ![h] = None]
          /\ marking' = marking \ {h}
          /\ UNCHANGED <<orgVars, tokVars, devVars, keys, req, clock>>
      BY <1>3 DEF StopAgent, fileVars
    <2>2. /\ running' \in [Hosts -> Identities \cup {None}]
          /\ running'[h] = None
          /\ \A g \in Hosts : g # h => running'[g] = running[g]
      BY <1>0, <2>1 DEF HostPart
    <2>3. \A id \in Held(h)' : id \in Held(h)
      BY <2>1, <2>2 DEF Held
    <2>4. HostPart'
      BY <1>0, <2>1, <2>2, <2>3, HeldShrinks DEF HostPart, devVars
    <2> QED
      BY <1>h, <2>1, <2>4
  <1>4. ASSUME NEW h \in Hosts, RemoveIdentity(h) PROVE Inv'
    <2>1. /\ UNCHANGED <<tmp, running, marking>> /\ identity' = [identity EXCEPT ![h] = None]
          /\ UNCHANGED <<orgVars, tokVars, devVars, keys, req, clock>>
      BY <1>4 DEF RemoveIdentity
    <2>2. /\ identity' \in [Hosts -> Identities \cup {None}]
          /\ identity'[h] = None
          /\ \A g \in Hosts : g # h => identity'[g] = identity[g]
      BY <1>0, <2>1 DEF HostPart
    <2>3. \A id \in Held(h)' : id \in Held(h)
      BY <2>1, <2>2 DEF Held
    <2>4. HostPart'
      BY <1>0, <2>1, <2>2, <2>3, HeldShrinks DEF HostPart, devVars
    <2> QED
      BY <1>h, <2>1, <2>4
  <1>5. ASSUME NEW d \in DeviceIds, DecommissionDevice(d) PROVE Inv'
    <2>1. UNCHANGED <<orgVars, tokVars, enrolled, hostVars, req, clock>>
      BY <1>5 DEF DecommissionDevice
    <2>2. /\ dev' \in [DeviceIds -> DeviceRows]
          /\ \A e \in DeviceIds : e # d => dev'[e] = dev[e]
          /\ dev'[d] = [dev[d] EXCEPT !.status = "decommissioned"]
          /\ dev[d].status = "active"
      BY <1>0, <1>5 DEF DecommissionDevice, DevPart, DeviceRows
    <2>3. dev'[d].site = dev[d].site /\ dev'[d].key = dev[d].key
            /\ dev'[d].status = "decommissioned"
      BY <1>0, <2>2 DEF DevPart, DeviceRows
    <2>4. d <= enrolled
      BY <1>0, <2>2 DEF DevPart, NoDevice
    <2>5. DevPart'
      <3>1. enrolled' = enrolled /\ site' = site
        BY <2>1 DEF orgVars
      <3>2. ASSUME NEW e \in DeviceIds, dev'[e].status # "none"
            PROVE  dev'[e].site \in Sites /\ site'[dev'[e].site].state = "live"
        <4>1. dev[e].status # "none" /\ dev'[e].site = dev[e].site
          BY <2>2, <2>3, <3>2
        <4> QED
          BY <1>0, <3>1, <4>1 DEF DevPart
      <3>3. ASSUME NEW e \in DeviceIds
            PROVE  IF e <= enrolled' THEN dev'[e].status # "none" ELSE dev'[e] = NoDevice
        <4>1. CASE e = d
          BY <2>3, <2>4, <3>1, <4>1
        <4>2. CASE e # d
          BY <1>0, <2>2, <3>1, <4>2 DEF DevPart
        <4> QED
          BY <4>1, <4>2
      <3> QED
        BY <1>0, <2>2, <3>1, <3>2, <3>3 DEF DevPart
    <2>6. \A e \in DeviceIds : dev'[e].key = dev[e].key
            /\ (dev[e].status = "decommissioned" => dev'[e].status = "decommissioned")
      BY <2>2, <2>3
    <2>7. 1 .. enrolled \subseteq DeviceIds
      BY <1>0, EnrollmentConstants DEF DevPart, DeviceIds
    <2>8. ReqPart'
      BY <1>0, <2>1, <2>6, <2>7 DEF ReqPart, hostVars, fileVars
    <2>9. HostPart'
      BY <1>0, <2>1, <2>6, <2>7 DEF HostPart, Held, Good, hostVars, fileVars
    <2> QED
      BY <1>0, <2>1, <2>5, <2>8, <2>9, OrgFrame, TokFrame, LockFrame DEF Inv, orgVars, tokVars
  <1> QED
    BY <1>1, <1>2, <1>3, <1>4, <1>5, <1>6 DEF HostNext

-----------------------------------------------------------------------------
(* The theorems.                                                           *)

\* Every step preserves the invariant.
LEMMA NextInv == Inv /\ [Next]_vars => Inv'
  <1> SUFFICES ASSUME Inv, [Next]_vars PROVE Inv'
    OBVIOUS
  <1>0. OrgPart /\ TokPart /\ DevPart /\ ReqPart /\ LockPart /\ HostPart
    BY DEF Inv
  <1>1. CASE Tick
    <2>1. ReqPart'
      BY <1>0, <1>1, EnrollmentConstants DEF ReqPart, Tick, Times, devVars, hostVars, fileVars
    <2> QED
      BY <1>0, <1>1, <2>1, OrgFrame, TokFrame, DevFrame, LockFrame, HostFrame
         DEF Inv, Tick, orgVars, tokVars, devVars, hostVars, fileVars
  <1>2. CASE UNCHANGED vars
    BY <1>0, <1>2, OrgFrame, TokFrame, DevFrame, ReqFrame, LockFrame, HostFrame
       DEF Inv, vars, orgVars, tokVars, devVars, hostVars, fileVars
  <1> QED
    BY <1>1, <1>2, OrgInv, TokenInv, RequestInv, HostInv DEF Next

\* The invariant holds always.
LEMMA AlwaysInv == Spec => []Inv
  BY InitInv, NextInv, PTL DEF Spec

\* Foreign keys and row locks keep the tree of the tenant whole while
\* deletions of customers and sites race enrollments, and a token's row is
\* in the hands of one request at a time.
THEOREM TreeIsWhole == Spec => []EnrollmentInv
  <1>1. Inv => EnrollmentInv
    <2> SUFFICES ASSUME Inv PROVE EnrollmentInv
      OBVIOUS
    <2>1. TypeOK
      BY DEF Inv, TypeOK, OrgPart, TokPart, DevPart, ReqPart, LockPart, HostPart, TokenRows,
         DeviceRows, RequestRows
    <2>2. OrgIsATree
      BY DEF Inv, OrgIsATree, OrgPart, TokPart, DevPart
    <2> QED
      BY <2>1, <2>2 DEF EnrollmentInv
  <1> QED
    BY <1>1, AlwaysInv, PTL

\* Whatever requests, crashes, lost answers and decommissionings interleave:
\* an identity that a host has saved authenticates, with a clock not more than
\* MaxSkew off, until its device is decommissioned, whichever Saves shared the
\* temporary file, and no two hosts hold the identity of one device.
THEOREM SavedIdentityIsGood == Spec => []IdentityAuthenticates
  <1>1. Inv => IdentityAuthenticates
    <2> SUFFICES ASSUME Inv PROVE IdentityAuthenticates
      OBVIOUS
    <2>1. ASSUME NEW h \in Hosts, identity[h] # None,
                 NEW ts \in (clock - MaxSkew) .. (clock + MaxSkew)
          PROVE  /\ VerifyDeviceSig(identity[h], ts) <=>
                      dev[identity[h].dev].status # "decommissioned"
                 /\ identity[h].revoked => ~VerifyDeviceSig(identity[h], ts)
      <3>1. identity[h] \in Identities /\ Good(identity[h])
        BY <2>1 DEF Inv, HostPart, Held
      <3>2. identity[h].dev \in DeviceIds /\ dev[identity[h].dev].status # "none"
        BY <3>1, EnrollmentConstants DEF Inv, DevPart, Good, DeviceIds
      <3>3. dev[identity[h].dev].status \in {"active", "decommissioned"}
        BY <3>2 DEF Inv, DevPart, DeviceRows
      <3>4. clock - ts <= MaxSkew /\ ts - clock <= MaxSkew
        BY <2>1, EnrollmentConstants DEF Inv, ReqPart, Times
      <3> QED
        BY <3>1, <3>3, <3>4 DEF Good, VerifyDeviceSig, LookupDevice
    <2>2. ASSUME NEW g \in Hosts, NEW h \in Hosts, g # h, identity[g] # None, identity[h] # None
          PROVE  identity[g].dev # identity[h].dev
      <3>1. identity[g] \in Held(g) /\ identity[h] \in Held(h)
        BY <2>2 DEF Held
      <3> QED
        BY <2>2, <3>1 DEF Inv, HostPart
    <2> QED
      BY <2>1, <2>2 DEF IdentityAuthenticates
  <1> QED
    BY <1>1, AlwaysInv, PTL

-----------------------------------------------------------------------------
(* The budget of a token.                                                  *)

Left == [t \in Tokens |-> tok[t].max - tok[t].used]
Admitted == [t \in Tokens |-> {d \in DeviceIds : dev[d].by = t}]
Phase == [t \in Tokens |-> CASE tok[t].state = "none" -> "unissued"
                              [] tok[t].state = "live" -> "open"
                              [] OTHER -> "closed"]

\* The three are the variables of Budget.
LEMMA BudgetVars == UNCHANGED <<Left, Admitted, Phase>> => UNCHANGED Budget!vars
  BY DEF Budget!vars, Left, Admitted, Phase

\* Without a change of the tokens and the devices the budget stands still.
LEMMA BudgetStutters == UNCHANGED <<tok, dev>> => UNCHANGED Budget!vars
  BY BudgetVars DEF Left, Admitted, Phase

\* A device that decommissioning changes was let in by the token it names.
LEMMA BudgetDecommission ==
  ASSUME Inv, NEW d \in DeviceIds, DecommissionDevice(d)
  PROVE  UNCHANGED Budget!vars
  <1>1. tok' = tok
    BY DEF DecommissionDevice, tokVars
  <1>2. \A e \in DeviceIds : dev'[e].by = dev[e].by
    BY DEF DecommissionDevice, Inv, DevPart, DeviceRows
  <1>3. Admitted' = Admitted
    BY <1>2 DEF Admitted
  <1> QED
    BY <1>1, <1>3, BudgetVars DEF Left, Phase

\* Issuing a token.
LEMMA BudgetIssue ==
  ASSUME Inv, NEW t \in Tokens, NEW s \in Sites, NEW n \in Limits, NEW e \in Times,
         CreateEnrollmentToken(t, s, n, e)
  PROVE  Budget!Issue(t, n)
  <1> USE EnrollmentConstants
  <1>1. /\ tok[t].state = "none" /\ dev' = dev
        /\ tok'[t] = [state |-> "live", site |-> s, max |-> n, used |-> 0, expires |-> e]
        /\ \A u \in Tokens : u # t => tok'[u] = tok[u]
    BY DEF CreateEnrollmentToken, devVars, Inv, TokPart
  <1>2. Phase[t] = "unissued" /\ Phase' = [Phase EXCEPT ![t] = "open"]
    <2>1. \A u \in Tokens : Phase'[u] = IF u = t THEN "open" ELSE Phase[u]
      BY <1>1 DEF Phase
    <2> QED
      BY <1>1, <2>1 DEF Phase
  <1>3. tok'[t].max - tok'[t].used = n
    BY <1>1
  <1>4. Left' = [Left EXCEPT ![t] = n]
    BY <1>1, <1>3 DEF Left
  <1>5. Admitted' = Admitted
    BY <1>1 DEF Admitted
  <1> QED
    BY <1>2, <1>4, <1>5 DEF Budget!Issue, Phase, Left, Admitted

\* Revoking one closes it.
LEMMA BudgetRevoke ==
  ASSUME Inv, NEW t \in Tokens, RevokeEnrollmentToken(t)
  PROVE  Budget!Close({t})
  <1>1. /\ tok[t].state = "live" /\ dev' = dev
        /\ tok'[t] = [tok[t] EXCEPT !.state = "revoked"]
        /\ \A u \in Tokens : u # t => tok'[u] = tok[u]
    BY DEF RevokeEnrollmentToken, devVars, Inv, TokPart
  <1>2. tok'[t].state = "revoked" /\ tok'[t].max = tok[t].max /\ tok'[t].used = tok[t].used
    BY <1>1 DEF Inv, TokPart, TokenRows
  <1>3. Left' = Left
    BY <1>1, <1>2 DEF Left
  <1>4. Admitted' = Admitted
    BY <1>1 DEF Admitted
  <1>5. Phase' = [u \in Tokens |-> IF u \in {t} THEN "closed" ELSE Phase[u]]
    BY <1>1, <1>2 DEF Phase
  <1>6. \A u \in {t} : Phase[u] = "open"
    BY <1>1 DEF Phase
  <1> QED
    BY <1>3, <1>4, <1>5, <1>6 DEF Budget!Close, Phase, Left, Admitted

\* Deleting a site closes those of its tokens that were open.
LEMMA BudgetDelete ==
  ASSUME Inv, NEW s \in Sites, DeleteSite(s)
  PROVE  \E T \in SUBSET Tokens : Budget!Close(T)
  <1>0. PICK T \in SUBSET Tokens : T = {t \in TokensOf(s) : tok[t].state = "live"}
    BY DEF TokensOf
  <1>1. /\ dev' = dev
        /\ \A t \in Tokens : IF t \in TokensOf(s)
                               THEN tok'[t] = [tok[t] EXCEPT !.state = "gone"]
                               ELSE tok'[t] = tok[t]
    BY DEF DeleteSite, devVars
  <1>2. \A t \in Tokens : /\ tok'[t].max = tok[t].max /\ tok'[t].used = tok[t].used
                          /\ t \in TokensOf(s) => tok'[t].state = "gone"
                          /\ t \notin TokensOf(s) => tok'[t].state = tok[t].state
    BY <1>1 DEF Inv, TokPart, TokenRows
  <1>3. Left' = Left
    BY <1>2 DEF Left
  <1>4. Admitted' = Admitted
    BY <1>1 DEF Admitted
  <1>5. Phase' = [u \in Tokens |-> IF u \in T THEN "closed" ELSE Phase[u]]
    <2>1. ASSUME NEW u \in Tokens
          PROVE  Phase'[u] = IF u \in T THEN "closed" ELSE Phase[u]
      <3>1. CASE u \in TokensOf(s)
        BY <1>0, <1>2, <3>1 DEF Phase, TokensOf
      <3>2. CASE u \notin TokensOf(s)
        BY <1>0, <1>2, <3>2 DEF Phase
      <3> QED
        BY <3>1, <3>2
    <2> QED
      BY <2>1 DEF Phase
  <1>6. \A u \in T : Phase[u] = "open"
    BY <1>0 DEF Phase, TokensOf
  <1>7. Budget!Close(T)
    BY <1>3, <1>4, <1>5, <1>6 DEF Budget!Close, Phase, Left, Admitted
  <1> QED
    BY <1>7

\* Creating a device admits it, with a use that was left and under an id that
\* no token has let in.
LEMMA BudgetAdmit ==
  ASSUME Inv, NEW r \in Requests, CreateDevice(r)
  PROVE  \E t \in Tokens, d \in DeviceIds : Budget!Admit(t, d)
  <1> USE EnrollmentConstants
  <1>0. PICK t \in Tokens : t = req[r].token
    BY DEF CreateDevice, Inv, ReqPart
  <1>1. PICK d \in DeviceIds : d = enrolled + 1
    BY DEF CreateDevice
  <1>2. /\ tok[t].state = "live" /\ tok[t].used < tok[t].max
        /\ tok[t].used \in Nat /\ tok[t].max \in Nat
    BY <1>0 DEF CreateDevice, Inv, LockPart, TokPart, TokenRows
  <1>3. dev[d] = NoDevice
    BY <1>1 DEF Inv, DevPart
  <1>4. /\ dev'[d].by = t
        /\ \A e \in DeviceIds : e # d => dev'[e] = dev[e]
    BY <1>0, <1>1 DEF CreateDevice, Inv, DevPart
  <1>5. /\ tok'[t] = [tok[t] EXCEPT !.used = @ + 1]
        /\ \A u \in Tokens : u # t => tok'[u] = tok[u]
    BY <1>0 DEF CreateDevice, Inv, TokPart
  <1>6. /\ tok'[t].state = "live" /\ tok'[t].max = tok[t].max
        /\ tok'[t].used = tok[t].used + 1
    BY <1>2, <1>5 DEF Inv, TokPart, TokenRows
  <1>7. Phase[t] = "open" /\ Phase' = Phase
    BY <1>2, <1>5, <1>6 DEF Phase
  <1>8. Left[t] > 0 /\ Left' = [Left EXCEPT ![t] = @ - 1]
    <2>1. tok'[t].max - tok'[t].used = (tok[t].max - tok[t].used) - 1
      BY <1>2, <1>6
    <2>2. \A u \in Tokens : Left'[u] = IF u = t THEN Left[u] - 1 ELSE Left[u]
      BY <1>5, <2>1 DEF Left
    <2>3. Left' = [Left EXCEPT ![t] = @ - 1]
      BY <2>2 DEF Left
    <2>4. Left[t] > 0
      BY <1>2 DEF Left
    <2> QED
      BY <2>3, <2>4
  <1>9. \A u \in Tokens : d \notin Admitted[u]
    BY <1>3 DEF Admitted, NoDevice
  <1>10. Admitted' = [Admitted EXCEPT ![t] = @ \cup {d}]
    <2>1. \A u \in Tokens : Admitted'[u] = IF u = t THEN Admitted[u] \cup {d} ELSE Admitted[u]
      BY <1>3, <1>4 DEF Admitted, NoDevice
    <2> QED
      BY <2>1 DEF Admitted
  <1>11. Budget!Admit(t, d)
    BY <1>7, <1>8, <1>9, <1>10 DEF Budget!Admit, Phase, Left, Admitted
  <1> QED
    BY <1>11

\* Every step of enrollment is a step of the budget, or none.
LEMMA NextBudget == Inv /\ [Next]_vars => [Budget!Next]_(Budget!vars)
  <1> SUFFICES ASSUME Inv, [Next]_vars PROVE Budget!Next \/ UNCHANGED Budget!vars
    OBVIOUS
  <1>1. CASE OrgNext
    <2>1. ASSUME NEW s \in Sites, DeleteSite(s) PROVE Budget!Next
      BY <2>1, BudgetDelete DEF Budget!Next
    <2>2. ASSUME ~ \E s \in Sites : DeleteSite(s) PROVE UNCHANGED <<tok, dev>>
      BY <1>1, <2>2 DEF OrgNext, CreateCustomer, CustomerSiteCount, DeleteCustomer, CreateSite,
         BeginDeleteSite, DeleteSiteFails, tokVars, devVars
    <2> QED
      BY <2>1, <2>2, BudgetStutters
  <1>2. CASE TokenNext
    BY <1>2, BudgetIssue, BudgetRevoke DEF TokenNext, Budget!Next
  <1>3. CASE RequestNext
    <2>1. ASSUME NEW r \in Requests, CreateDevice(r) PROVE Budget!Next
      BY <2>1, BudgetAdmit DEF Budget!Next
    <2>2. ASSUME ~ \E r \in Requests : CreateDevice(r) PROVE UNCHANGED <<tok, dev>>
      BY <1>3, <2>2 DEF RequestNext, Enroll, LookupEnrollmentToken, BeginEnrollment,
         ConsumeEnrollmentToken, EnrollmentAborts, WriteIdentity, SaveIdentity, AnswerLost, tokVars, devVars
    <2> QED
      BY <2>1, <2>2, BudgetStutters
  <1>4. CASE HostNext
    <2>1. ASSUME ~ \E d \in DeviceIds : DecommissionDevice(d) PROVE UNCHANGED <<tok, dev>>
      BY <1>4, <2>1 DEF HostNext, StartAgent, MarkRevoked, SaveRevoked, StopAgent, RemoveIdentity, tokVars,
         devVars
    <2> QED
      BY <2>1, BudgetStutters, BudgetDecommission
  <1>5. CASE Tick \/ UNCHANGED vars
    BY <1>5, BudgetStutters DEF Tick, vars, tokVars, devVars
  <1> QED
    BY <1>1, <1>2, <1>3, <1>4, <1>5 DEF Next

\* The enrollment handler implements the budget of its tokens: a token admits
\* at most as many devices as it was issued for, none after it was revoked or
\* deleted, and loses a use only to a device, whatever requests, revocations
\* and deletions race its two transactions.
THEOREM EnrollmentImplementsBudget == Spec => ImplementsBudget
  <1>1. Init => Budget!Init
    BY EnrollmentConstants DEF Init, Budget!Init, NoToken, NoDevice
  <1> QED
    BY <1>1, AlwaysInv, NextBudget, PTL DEF Spec, ImplementsBudget, Budget!Spec
=============================================================================
