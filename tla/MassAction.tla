----------------------------- MODULE MassAction -----------------------------
(***************************************************************************)
(* What an operator does to many devices at once: a script dispatch        *)
(* (jobs_handlers.go), a package deployment (apps_handlers.go), the        *)
(* rollout of an agent release (releases_handlers.go) and a schedule       *)
(* (schedules_handlers.go), all four behind the blast-radius safeguard of  *)
(* api/dispatch.go, and the firing of a schedule (worker.go), which is     *)
(* not; and the releases themselves: registered, uploaded, offered through *)
(* the gateway, downloaded and reported on by the agent's                  *)
(* handleUpdateOffer.                                                      *)
(*                                                                         *)
(* A mass action is one transaction: it resolves the target, asks for a    *)
(* confirmation or not, and writes.  The fleet changes while a caller      *)
(* thinks about the confirmation, and between the reading and the commit.  *)
(* What becomes of a job once it is created is JobDelivery's subject, when *)
(* a schedule fires ScheduleFiring's, and how Apply replaces the           *)
(* executable AgentUpdate's.                                               *)
(***************************************************************************)
EXTENDS Naturals, Sequences, FiniteSets

CONSTANTS
  Devices, SiteOf, CustomerOf, Platform,  \* a device's site and os/arch, a site's customer
  Callers, May,      \* the sites where a caller holds the permissions used here
  Requests,          \* the mass actions asked for: [op, subject, target]
  Scripts,           \* scripts that exist and are not archived
  Schedules,         \* the ids schedules may have
  Releases, ReleasePlatform, Sha256,  \* a release's os/arch and the digest registered for it
  Binaries,          \* what may be uploaded; a binary stands for its digest
  SwitchedOn,        \* the devices whose agent runs
  Offers,            \* handleUpdateOffer goroutines of one agent at a time (bound)
  First,             \* the version agents run at the start; a release is named by its version
  BlastRadius, TTL,  \* BlastRadius and confirmTokenTTL
  MaxNow, MaxEvents,  \* bounds: the clock; what operators begin and what fails
  Nil                \* uuid.Nil and every absent value

ASSUME MassActionAssumption ==
  /\ IsFiniteSet(Devices)
  /\ SiteOf \in [Devices -> DOMAIN CustomerOf]
  /\ May \in [Callers -> SUBSET DOMAIN CustomerOf]
  /\ SwitchedOn \subseteq Devices
  /\ Sha256 \in [Releases -> Binaries]
  /\ First \notin Releases /\ Nil \notin Releases /\ Nil \notin Scripts
  /\ \A req \in Requests :
       /\ req.op = "rollout" => req.subject \in Releases
       /\ req.target = [device_ids |-> req.target.device_ids, site_id |-> req.target.site_id,
                        customer_id |-> req.target.customer_id]
  /\ {BlastRadius, TTL, MaxNow, MaxEvents} \subseteq Nat

VARIABLES
  status,    \* devices.status ("none": no row yet)
  version,   \* devices.agent_version
  release,   \* agent_releases: has a row an external URL, has it a storage key?
  blob,      \* the blob store under releases/<id>
  upload,    \* handleUploadReleaseBinary at work on a release
  update,    \* device_updates: the version last offered and the phase reported
  audit,     \* the audit rows of mass actions; "at" is the transaction's now()
  schedule,  \* schedules: the script and the target of a row
  answers,   \* history: the 409 answers given, with the token in each
  client,    \* client[c]: where a caller's request is, and what its handler holds
  online,    \* devices with a connection in the registry
  running,   \* running[d]: the version of the agent's process
  self,      \* self[d]: the version of the executable on its disk
  offer,     \* offer[d][h]: the goroutine of an offer
  wire,      \* wire[d]: UpdateStatus frames the gateway has not handled
  swapped,   \* history: the versions Apply put in place on a device
  now, events

fleet   == <<status, version>>
catalog == <<release, blob, upload>>
agents  == <<online, running, self, offer, wire, swapped>>
bounds  == <<now, events>>
vars == <<fleet, catalog, update, audit, schedule, answers, client, agents, bounds>>

NoRelease == [exists |-> FALSE, url |-> FALSE, key |-> FALSE]
NoUpdate  == [version |-> Nil, phase |-> "none"]
NoUpload  == [pc |-> "idle", binary |-> Nil]
NoOffer   == [pc |-> "idle", release |-> Nil, hosted |-> FALSE, attached |-> FALSE]
NoSchedule == [script_id |-> Nil, target |-> Nil]
Idle      == [pc |-> "idle", req |-> Nil, token |-> Nil, at |-> 0, devices |-> {}, hosted |-> FALSE]

Reports == {"DOWNLOADING", "VERIFIED", "APPLIED", "FAILED"}  \* the UpdatePhases agents send
Phases  == {"none", "offered", "downloading", "verified", "applied", "rolled_back", "failed"}

\* The phases are those of the column's CHECK; the gateway has no other string.
TypeOK ==
  /\ status \in [Devices -> {"none", "active", "decommissioned"}]
  /\ version \in [Devices -> Releases \cup {First}]
  /\ release \in [Releases -> [exists : BOOLEAN, url : BOOLEAN, key : BOOLEAN]]
  /\ blob \in [Releases -> Binaries \cup {Nil}]
  /\ upload \in [Releases -> [pc : {"idle", "checked", "stored"}, binary : Binaries \cup {Nil}]]
  /\ update \in [Devices -> [version : Releases \cup {Nil}, phase : Phases]]
  /\ \A c \in Callers :
       /\ client[c].pc \in {"idle", "told", "write", "push"}
       /\ client[c].devices \subseteq {d \in Devices : status[d] # "none"}
  /\ schedule \in [Schedules -> {NoSchedule} \cup
                      [script_id : Scripts, target : {req.target : req \in Requests}]]
  /\ online \subseteq {d \in Devices : status[d] # "none"}
  /\ running \in [Devices -> Releases \cup {First}]
  /\ self \in [Devices -> Releases \cup {First}]
  /\ offer \in [Devices -> [Offers -> [pc : {"idle", "got", "download", "apply", "restart"},
                                       release : Releases \cup {Nil}, hosted : BOOLEAN,
                                       attached : BOOLEAN]]]
  /\ \A d \in Devices : wire[d] \in Seq([version : Releases, phase : Reports])
  /\ now \in 0..MaxNow /\ events \in 0..MaxEvents

-----------------------------------------------------------------------------
(* Targets and the confirmation.                                           *)

\* JobTarget.Validate: exactly one of the three selectors is set.
Validate(target) ==
  Cardinality({f \in {"device_ids", "site_id", "customer_id"} :
                 CASE f = "device_ids" -> target.device_ids # <<>>
                   [] f = "site_id" -> target.site_id # Nil
                   [] OTHER -> target.customer_id # Nil}) = 1

\* The active devices a selector covers right now.
ResolveTarget(target) ==
  {d \in Devices :
     /\ status[d] = "active"
     /\ \/ \E i \in DOMAIN target.device_ids : target.device_ids[i] = d
        \/ SiteOf[d] = target.site_id
        \/ CustomerOf[SiteOf[d]] = target.customer_id}

\* One device out of the caller's scope fails the whole request.
Authorized(c, devices) == \A d \in devices : SiteOf[d] \in May[c]

\* The digest tells any two selectors apart, the order of the ids included.
TargetHash(target) == <<target.device_ids, target.site_id, target.customer_id>>

Claims(subject, target, count) ==
  [script_id |-> subject, target_hash |-> TargetHash(target),
   device_count |-> count, exp |-> now + TTL]

\* A variant that digests the list of devices only.
IssueForList(subject, target, count) ==
  [Claims(subject, target, count) EXCEPT !.target_hash = <<target.device_ids, Nil, Nil>>]

\* The claims are sealed: a caller can present a token, and not make one.
IssueConfirmToken(subject, target, count) == Claims(subject, target, count)

\* A variant that accepts a confirmation of another count.
CheckSelector(token, subject, target, count) ==
  /\ token.script_id = subject
  /\ token.target_hash = TargetHash(target)
  /\ now <= token.exp

CheckConfirmToken(token, subject, target, count) ==
  /\ token.script_id = subject
  /\ token.target_hash = TargetHash(target)
  /\ token.device_count = count
  /\ now <= token.exp

\* requireBlastRadiusAck goes through without a 409.
Acknowledged(req, count, token) ==
  \/ count <= BlastRadius
  \/ token # Nil /\ CheckConfirmToken(token, req.subject, req.target, count)

-----------------------------------------------------------------------------
(* The handlers of the four mass actions, up to the first write.           *)

\* A variant that offers a release as soon as it is registered.
FoundRegistered(req) ==
  CASE req.op \in {"dispatch", "schedule"} -> req.subject \in Scripts
    [] req.op = "rollout"  -> release[req.subject].exists
    [] OTHER -> TRUE

\* What a handler looks up before it resolves the target: the script must be there and not
\* archived, the release must have a binary; a package deployment has no subject.
SubjectFound(req) ==
  CASE req.op \in {"dispatch", "schedule"} -> req.subject \in Scripts
    [] req.op = "rollout"  -> LET rel == release[req.subject]
                              IN rel.exists /\ (rel.key \/ rel.url)
    [] OTHER -> TRUE

\* An answer other than a 409 or a 2xx.  A schedule may target what has no devices yet.
Refused(c, req) ==
  LET devices == ResolveTarget(req.target)
  IN \/ ~Validate(req.target)
     \/ ~SubjectFound(req)
     \/ ~Authorized(c, devices)
     \/ devices = {} /\ req.op # "schedule"

Handle(c, req, token) ==
  LET devices == ResolveTarget(req.target)
      count   == Cardinality(devices)
      fresh   == IssueConfirmToken(req.subject, req.target, count)
  IN \/ /\ Refused(c, req)
        /\ client' = [client EXCEPT ![c] = Idle]
        /\ UNCHANGED answers
     \/ /\ ~Refused(c, req)
        /\ ~Acknowledged(req, count, token)
        /\ answers' = answers \cup
             {[subject |-> req.subject, target |-> req.target, count |-> count, at |-> now,
               token |-> fresh]}
        /\ client' = [client EXCEPT ![c] =
             [pc |-> "told", req |-> req, token |-> fresh, at |-> 0, devices |-> {},
              hosted |-> FALSE]]
     \/ /\ ~Refused(c, req)
        /\ Acknowledged(req, count, token)
        /\ client' = [client EXCEPT ![c] =
             [pc |-> "write", req |-> req, token |-> Nil, at |-> now, devices |-> devices,
              hosted |-> req.op = "rollout" /\ release[req.subject].key]]
        /\ UNCHANGED answers

Event == events < MaxEvents /\ events' = events + 1

\* A caller's first request: without a token, or with one it saw in some earlier answer.
Ask(c) ==
  /\ client[c].pc = "idle"
  /\ Event
  /\ \E req \in Requests, token \in {Nil} \cup {a.token : a \in answers} : Handle(c, req, token)
  /\ UNCHANGED <<fleet, catalog, update, audit, schedule, agents, now>>

\* The console sends the request again with the token of the 409, once the operator agrees.
Confirm(c) ==
  /\ client[c].pc = "told"
  /\ Handle(c, client[c].req, client[c].token)
  /\ UNCHANGED <<fleet, catalog, update, audit, schedule, agents, bounds>>

-----------------------------------------------------------------------------
(* The writes.                                                             *)

\* Of the schedule x, or Nil.  The row of an update leaves the count out; it is kept here.
AuditRow(c, x) ==
  LET cl == client[c]
  IN [op |-> cl.req.op, schedule |-> x, subject |-> cl.req.subject, target |-> cl.req.target,
      device_count |-> Cardinality(cl.devices), at |-> cl.at]

\* A job for every device resolved, and the audit row; deliverJobs is JobDelivery's.
CommitJobs(c) ==
  /\ client[c].pc = "write"
  /\ client[c].req.op \in {"dispatch", "deploy"}
  /\ audit' = audit \cup {AuditRow(c, Nil)}
  /\ client' = [client EXCEPT ![c] = Idle]
  /\ UNCHANGED <<fleet, catalog, update, schedule, answers, agents, bounds>>

\* upsertSchedule: CreateSchedule, or UpdateSchedule, which replaces the target and keeps the
\* script, the one the request named and the caller confirmed being dropped.
CommitSchedule(c, x) ==
  LET req == client[c].req
  IN /\ client[c].pc = "write"
     /\ req.op = "schedule"
     /\ schedule' = [schedule EXCEPT ![x] =
          [script_id |-> IF @ = NoSchedule THEN req.subject ELSE @.script_id, target |-> req.target]]
     /\ audit' = audit \cup {AuditRow(c, x)}
     /\ client' = [client EXCEPT ![c] = Idle]
     /\ UNCHANGED <<fleet, catalog, update, answers, agents, bounds>>

\* A variant that keeps the phase of the last offer.
OfferKeepsPhase(d, v) ==
  [version |-> v, phase |-> IF update[d] = NoUpdate THEN "offered" ELSE update[d].phase]

\* One row per device: a new offer replaces the last one.
OfferDeviceUpdate(d, v) == [version |-> v, phase |-> "offered"]

\* The offers to the devices of the release's platform, and the audit row with the count of
\* all that were targeted.
CommitOffers(c) ==
  LET r == client[c].req.subject
      matched == {d \in client[c].devices : Platform[d] = ReleasePlatform[r]}
  IN /\ client[c].pc = "write"
     /\ client[c].req.op = "rollout"
     /\ update' = [d \in Devices |-> IF d \in matched THEN OfferDeviceUpdate(d, r) ELSE update[d]]
     /\ audit' = audit \cup {AuditRow(c, Nil)}
     /\ client' = [client EXCEPT ![c] = IF matched = {} THEN Idle
                                        ELSE [@ EXCEPT !.pc = "push", !.devices = matched]]
     /\ UNCHANGED <<fleet, catalog, schedule, answers, agents, bounds>>

\* A statement of the transaction fails: 500, and nothing is written.
WriteFails(c) ==
  /\ client[c].pc = "write"
  /\ Event
  /\ client' = [client EXCEPT ![c] = Idle]
  /\ UNCHANGED <<fleet, catalog, update, audit, schedule, answers, agents, now>>

DeleteSchedule(x) ==
  /\ schedule[x] # NoSchedule
  /\ Event
  /\ schedule' = [schedule EXCEPT ![x] = NoSchedule]
  /\ UNCHANGED <<fleet, catalog, update, audit, answers, client, agents, now>>

\* The count is of the devices the target covers at the firing.
RunRow(x) ==
  [op |-> "run", schedule |-> x, subject |-> schedule[x].script_id, target |-> schedule[x].target,
   device_count |-> Cardinality(ResolveTarget(schedule[x].target)), at |-> now]

\* fireSchedule: a job for every device the target covers by now, and nobody is asked.
RunSchedule(x) ==
  /\ schedule[x].script_id \in Scripts
  /\ Event
  /\ audit' = audit \cup {RunRow(x)}
  /\ UNCHANGED <<fleet, catalog, update, schedule, answers, client, agents, now>>

IdleSlots(d) == {h \in Offers : offer[d][h].pc = "idle"}

\* Gateway.OfferUpdate to one device: the agent has the frame, or the device has no connection
\* or loses it (and nothing sends the offer again).
PushOffer(c, d) ==
  /\ client[c].pc = "push"
  /\ d \in client[c].devices
  /\ client' = [client EXCEPT ![c] = IF @.devices = {d} THEN Idle
                                     ELSE [@ EXCEPT !.devices = client[c].devices \ {d}]]
  /\ \/ /\ d \in online
        /\ IdleSlots(d) # {}
        /\ offer' = [offer EXCEPT ![d][CHOOSE h \in IdleSlots(d) : TRUE] =
             [pc |-> "got", release |-> client[c].req.subject, hosted |-> client[c].hosted,
              attached |-> TRUE]]
     \/ /\ d \notin online
        /\ UNCHANGED offer
  /\ UNCHANGED <<fleet, catalog, update, audit, schedule, answers, online, running, self, wire,
                 swapped, bounds>>

-----------------------------------------------------------------------------
(* The release catalog and the blob store.                                 *)

\* A row is unique in channel, platform and version; a second registration fails.
CreateRelease(r, url) ==
  /\ ~release[r].exists
  /\ Event
  /\ release' = [release EXCEPT ![r] = [exists |-> TRUE, url |-> url, key |-> FALSE]]
  /\ UNCHANGED <<fleet, blob, upload, update, audit, schedule, answers, client, agents, now>>

\* GetRelease, then the digest of the uploaded bytes against the one registered.
UploadReleaseBinary(r, b) ==
  /\ upload[r].pc = "idle"
  /\ Event
  /\ release[r].exists
  /\ b = Sha256[r]
  /\ upload' = [upload EXCEPT ![r] = [pc |-> "checked", binary |-> b]]
  /\ UNCHANGED <<fleet, release, blob, update, audit, schedule, answers, client, agents, now>>

\* Blobs.Put writes a temporary file and renames it: all of the bytes or none.
Put(r) ==
  /\ upload[r].pc = "checked"
  /\ blob' = [blob EXCEPT ![r] = upload[r].binary]
  /\ upload' = [upload EXCEPT ![r].pc = "stored"]
  /\ UNCHANGED <<fleet, release, update, audit, schedule, answers, client, agents, bounds>>

SetReleaseStorageKey(r) ==
  /\ upload[r].pc = "stored"
  /\ release' = [release EXCEPT ![r].key = TRUE]
  /\ upload' = [upload EXCEPT ![r] = NoUpload]
  /\ UNCHANGED <<fleet, blob, update, audit, schedule, answers, client, agents, bounds>>

\* Put or the transaction of the key fails; the blob stays if it was stored.
UploadFails(r) ==
  /\ upload[r].pc # "idle"
  /\ Event
  /\ upload' = [upload EXCEPT ![r] = NoUpload]
  /\ UNCHANGED <<fleet, release, blob, update, audit, schedule, answers, client, agents, now>>

-----------------------------------------------------------------------------
(* The agent: handleUpdateOffer and its reports.                           *)

\* sendUpdateStatus: a frame on the connection the offer came on, lost when that is gone, the
\* agent's new one notwithstanding.
Send(d, h, v, phase) ==
  wire' = IF offer[d][h].attached
          THEN [wire EXCEPT ![d] = Append(@, [version |-> v, phase |-> phase])]
          ELSE wire

\* The goroutines of a device go on without the connection their offers came on.
Detach(d) ==
  offer' = [offer EXCEPT ![d] = [h \in Offers |-> [offer[d][h] EXCEPT !.attached = FALSE]]]

Goto(d, h, pc) == offer' = [offer EXCEPT ![d][h].pc = pc]
Finish(d, h)   == offer' = [offer EXCEPT ![d][h] = NoOffer]

\* An offer of the version that runs is ignored.
ReceiveOffer(d, h) ==
  LET v == offer[d][h].release
  IN /\ offer[d][h].pc = "got"
     /\ \/ /\ v = running[d]
           /\ Finish(d, h)
           /\ UNCHANGED wire
        \/ /\ v # running[d]
           /\ Goto(d, h, "download")
           /\ Send(d, h, v, "DOWNLOADING")
     /\ UNCHANGED <<fleet, catalog, update, audit, schedule, answers, client, online, running,
                    self, swapped, bounds>>

\* handleAgentReleaseDownload: what an active device gets for a hosted release.
ReleaseDownload(d, r) == IF status[d] = "active" /\ release[r].key THEN blob[r] ELSE Nil

\* Download and Verify: hosted bytes come from the blob store, others from the release's URL.
DownloadRelease(d, h) ==
  LET r == offer[d][h].release
      data == IF offer[d][h].hosted THEN ReleaseDownload(d, r) ELSE Sha256[r]
  IN /\ offer[d][h].pc = "download"
     /\ data = Sha256[r]
     /\ Goto(d, h, "apply")
     /\ Send(d, h, r, "VERIFIED")
     /\ UNCHANGED <<fleet, catalog, update, audit, schedule, answers, client, online, running,
                    self, swapped, bounds>>

\* Apply puts the new executable in place and the process is to restart.
ApplyRelease(d, h) ==
  LET v == offer[d][h].release
  IN /\ offer[d][h].pc = "apply"
     /\ self' = [self EXCEPT ![d] = v]
     /\ swapped' = [swapped EXCEPT ![d] = @ \cup {v}]
     /\ Goto(d, h, "restart")
     /\ Send(d, h, v, "APPLIED")
     /\ UNCHANGED <<fleet, catalog, update, audit, schedule, answers, client, online, running,
                    bounds>>

\* There is no trusted key or no path of the executable, or the download, the verification or
\* Apply fails.
OfferFails(d, h) ==
  /\ \/ offer[d][h].pc = "got" /\ offer[d][h].release # running[d]
     \/ offer[d][h].pc \in {"download", "apply"}
  /\ Event
  /\ Finish(d, h)
  /\ Send(d, h, offer[d][h].release, "FAILED")
  /\ UNCHANGED <<fleet, catalog, update, audit, schedule, answers, client, online, running, self,
                 swapped, now>>

\* The process starts again: its goroutines and its connection are gone.
Restart(d) ==
  /\ \E h \in Offers : offer[d][h].pc = "restart"
  /\ running' = [running EXCEPT ![d] = self[d]]
  /\ offer' = [offer EXCEPT ![d] = [h \in Offers |-> NoOffer]]
  /\ online' = online \ {d}
  /\ UNCHANGED <<fleet, catalog, update, audit, schedule, answers, client, self, wire, swapped,
                 bounds>>

\* A connection is lost with the frames that had not arrived.
Disconnect(d) ==
  /\ d \in online
  /\ Event
  /\ online' = online \ {d}
  /\ wire' = [wire EXCEPT ![d] = <<>>]
  /\ Detach(d)
  /\ UNCHANGED <<fleet, catalog, update, audit, schedule, answers, client, running, self, swapped,
                 now>>

\* The agent connects and says Hello: its version is recorded.  The handler of the connection
\* before this one has yet to see the frames still there, or add closed it and they are lost.
Connect(d) ==
  /\ d \in SwitchedOn \ online
  /\ status[d] = "active"
  /\ online' = online \cup {d}
  /\ version' = [version EXCEPT ![d] = running[d]]
  /\ wire' \in {wire, [wire EXCEPT ![d] = <<>>]}
  /\ UNCHANGED <<status, catalog, update, audit, schedule, answers, client, running, self, offer,
                 swapped, bounds>>

-----------------------------------------------------------------------------
(* The gateway on a report.                                                *)

\* No agent sends ROLLED_BACK.
UpdatePhaseString(phase) ==
  CASE phase = "DOWNLOADING" -> "downloading"
    [] phase = "VERIFIED" -> "verified"
    [] phase = "APPLIED" -> "applied"
    [] phase = "ROLLED_BACK" -> "rolled_back"
    [] phase = "FAILED" -> "failed"
    [] OTHER -> "offered"

\* The report's version and phase replace the row's, whatever was offered since.
SetDeviceUpdatePhase(d, st) ==
  IF update[d] = NoUpdate THEN update
  ELSE [update EXCEPT ![d] = [version |-> st.version, phase |-> UpdatePhaseString(st.phase)]]

\* SetDeviceUpdatePhase, and TouchDevice with the version on an applied one.
HandleUpdateStatus(d) ==
  /\ wire[d] # <<>>
  /\ LET st == Head(wire[d])
     IN /\ update' = SetDeviceUpdatePhase(d, st)
        /\ version' = IF st.phase = "APPLIED" THEN [version EXCEPT ![d] = st.version] ELSE version
  /\ wire' = [wire EXCEPT ![d] = Tail(@)]
  /\ UNCHANGED <<status, catalog, audit, schedule, answers, client, online, running, self, offer,
                 swapped, bounds>>

\* The transaction fails: the report is only logged.
StatusFails(d) ==
  /\ wire[d] # <<>>
  /\ Event
  /\ wire' = [wire EXCEPT ![d] = Tail(@)]
  /\ UNCHANGED <<fleet, catalog, update, audit, schedule, answers, client, online, running, self,
                 offer, swapped, now>>

-----------------------------------------------------------------------------
(* The fleet and the clock.                                                *)

Enroll(d) ==
  /\ status[d] = "none"
  /\ Event
  /\ status' = [status EXCEPT ![d] = "active"]
  /\ UNCHANGED <<version, catalog, update, audit, schedule, answers, client, agents, now>>

\* The device's row is marked and its connection is closed.
Decommission(d) ==
  /\ status[d] = "active"
  /\ Event
  /\ status' = [status EXCEPT ![d] = "decommissioned"]
  /\ online' = online \ {d}
  /\ wire' = [wire EXCEPT ![d] = <<>>]
  /\ Detach(d)
  /\ UNCHANGED <<version, catalog, update, audit, schedule, answers, client, running, self,
                 swapped, now>>

Tick ==
  /\ now < MaxNow
  /\ now' = now + 1
  /\ UNCHANGED <<fleet, catalog, update, audit, schedule, answers, client, agents, events>>

Handler(c) == \/ CommitJobs(c) \/ CommitOffers(c) \/ WriteFails(c)
              \/ \E x \in Schedules : CommitSchedule(c, x)
              \/ \E d \in Devices : PushOffer(c, d)
Timetable(x) == DeleteSchedule(x) \/ RunSchedule(x)
Agent(d) ==
  \/ Restart(d) \/ Disconnect(d) \/ Connect(d)
  \/ \E h \in Offers : ReceiveOffer(d, h) \/ DownloadRelease(d, h) \/ ApplyRelease(d, h) \/ OfferFails(d, h)

Init ==
  /\ status \in [Devices -> {"none", "active"}]
  /\ version = [d \in Devices |-> First]
  /\ release = [r \in Releases |-> NoRelease]
  /\ blob = [r \in Releases |-> Nil]
  /\ upload = [r \in Releases |-> NoUpload]
  /\ update = [d \in Devices |-> NoUpdate]
  /\ audit = {} /\ answers = {}
  /\ schedule = [x \in Schedules |-> NoSchedule]
  /\ client = [c \in Callers |-> Idle]
  /\ online = {d \in SwitchedOn : status[d] = "active"}
  /\ running = [d \in Devices |-> First]
  /\ self = [d \in Devices |-> First]
  /\ offer = [d \in Devices |-> [h \in Offers |-> NoOffer]]
  /\ wire = [d \in Devices |-> <<>>]
  /\ swapped = [d \in Devices |-> {}]
  /\ now = 0 /\ events = 0

Next ==
  \/ \E c \in Callers : Ask(c) \/ Confirm(c) \/ Handler(c)
  \/ \E r \in Releases : \/ \E url \in BOOLEAN : CreateRelease(r, url)
                         \/ \E b \in Binaries : UploadReleaseBinary(r, b)
                         \/ Put(r) \/ SetReleaseStorageKey(r) \/ UploadFails(r)
  \/ \E d \in Devices : Agent(d) \/ HandleUpdateStatus(d) \/ StatusFails(d) \/ Enroll(d) \/ Decommission(d)
  \/ \E x \in Schedules : Timetable(x)
  \/ Tick

Spec == Init /\ [][Next]_vars

\* The operator answers a 409, and a handler that has begun goes on.
Fairness == \A c \in Callers : WF_vars(Confirm(c)) /\ WF_vars(Handler(c))
FairSpec == Spec /\ Fairness

-----------------------------------------------------------------------------
(* Properties.                                                             *)

\* requireBlastRadiusAck in its four handlers: of whatever they did to more than BlastRadius
\* devices an answer not older than the token's lifetime had shown that very number for that
\* subject and that selector, although the fleet changes between the answer and the
\* confirmation.  A schedule that fires (fireSchedule) shows nobody the number it reaches, nor
\* need its script be the one confirmed: what an operator was asked about is its selector, when
\* that was saved in that schedule, with the number of that day.
MassActsWereShown ==
  \A row \in audit :
    /\ row.op # "run" /\ row.device_count > BlastRadius =>
         \E a \in answers : /\ a.subject = row.subject /\ a.target = row.target
                            /\ a.count = row.device_count
                            /\ a.at <= row.at /\ row.at <= a.at + TTL
    /\ row.op = "run" =>
         \E saved \in audit : /\ saved.op = "schedule" /\ saved.schedule = row.schedule
                              /\ saved.target = row.target /\ saved.at <= row.at

\* requireBlastRadiusAck does not ask for ever: an operator who confirms what the last answer
\* showed gets another answer than a 409, once the fleet rests.
ConfirmationEnds == \A c \in Callers : client[c].pc = "told" ~> client[c].pc # "told"

\* handleRolloutRelease and the upload: an offer that is recorded, pushed or at work names a
\* release for the device's platform that the agent can fetch, its URL or the bytes of the
\* registered digest in the blob store.
OfferIsServable ==
  \A d \in Devices :
    LET named == {update[d].version} \cup {offer[d][h].release : h \in Offers}
    IN \A r \in named \cap Releases :
         /\ ReleasePlatform[r] = Platform[d]
         /\ release[r].url \/ (release[r].key /\ blob[r] = Sha256[r])
         /\ \A h \in Offers : offer[d][h].release = r /\ offer[d][h].hosted =>
              release[r].key /\ blob[r] = Sha256[r]

\* The rollout table and the fleet view: a version said to be applied, or to be the device's
\* agent version, is one that the agent has put in place, whatever offers and late reports
\* crossed each other.
AppliedWasSwapped ==
  \A d \in Devices :
    /\ update[d].phase = "applied" => update[d].version \in swapped[d]
    /\ version[d] \in swapped[d] \cup {First}

\* What the gateway's reports and the rollout's offers, each overwriting the
\* device's row, keep of it: a phase the database accepts, and the truth.
RolloutInv == TypeOK /\ AppliedWasSwapped
=============================================================================
