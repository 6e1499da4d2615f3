-------------------------- MODULE MassActionProofs --------------------------
(***************************************************************************)
(* Theorems about MassAction, for every fleet, set of callers, requests,   *)
(* releases, schedules and offers: no mass action without the number that  *)
(* was shown, no offer that cannot be fetched, and no version said to be   *)
(* applied that was not.                                                   *)
(***************************************************************************)
EXTENDS MassAction, FiniteSetTheorems, TLAPS

Enrolled == {d \in Devices : status[d] # "none"}

FleetPart ==
  /\ status \in [Devices -> {"none", "active", "decommissioned"}]
  /\ online \subseteq Enrolled
  /\ now \in 0 .. MaxNow /\ events \in 0 .. MaxEvents

\* The releases an agent can fetch, and those it fetches from the blob store.
Fetchable == {r \in Releases : release[r].url \/ release[r].key}
Hosted    == {r \in Releases : release[r].key}

\* The bytes under a storage key, and those of an upload that is past its
\* check, are the registered ones.
CatalogPart ==
  /\ release \in [Releases -> [exists : BOOLEAN, url : BOOLEAN, key : BOOLEAN]]
  /\ blob \in [Releases -> Binaries \cup {Nil}]
  /\ upload \in [Releases -> [pc : {"idle", "checked", "stored"}, binary : Binaries \cup {Nil}]]
  /\ \A r \in Releases :
       /\ r \in Fetchable => release[r].exists
       /\ r \in Hosted => blob[r] = Sha256[r]
       /\ upload[r].pc # "idle" => release[r].exists /\ upload[r].binary = Sha256[r]
       /\ upload[r].pc = "stored" => blob[r] = Sha256[r]

\* What a handler holds between its reading and its writes.
Tokens == [script_id : {q.subject : q \in Requests}, target_hash : {TargetHash(q.target) : q \in Requests},
           device_count : Nat, exp : Nat]
ClientRows == [pc : {"idle", "told", "write", "push"}, req : Requests \cup {Nil},
               token : Tokens \cup {Nil}, at : Nat, devices : SUBSET Devices, hosted : BOOLEAN]

ClientFits(cl) ==
  /\ cl.devices \subseteq Enrolled
  /\ cl.pc # "idle" => cl.req \in Requests
  /\ cl.pc \in {"write", "push"} /\ cl.req.op = "rollout" =>
       cl.req.subject \in Fetchable /\ (cl.hosted => cl.req.subject \in Hosted)
  /\ cl.pc = "write" => /\ cl.at <= now
                        /\ cl.req.op = "schedule" => cl.req.subject \in Scripts
  /\ cl.pc = "push" => /\ cl.req.op = "rollout"
                       /\ \A d \in cl.devices : Platform[d] = ReleasePlatform[cl.req.subject]

ClientPart == /\ client \in [Callers -> ClientRows]
              /\ \A c \in Callers : ClientFits(client[c])

\* An answer showed the number, within the token's lifetime.
Shown(given, subject, target, count, at) ==
  count > BlastRadius =>
    \E a \in given : /\ a.subject = subject /\ a.target = target /\ a.count = count
                     /\ a.at <= at /\ at <= a.at + TTL

\* A token says what its answer said.
Answers == [subject : {q.subject : q \in Requests}, target : {q.target : q \in Requests},
            count : Nat, at : Nat, token : Tokens]
TokenOf(a) == [script_id |-> a.subject, target_hash |-> TargetHash(a.target),
               device_count |-> a.count, exp |-> a.at + TTL]

ShownPart ==
  /\ answers \subseteq Answers
  /\ \A a \in answers : a.token = TokenOf(a) /\ a.at <= now
  /\ \A c \in Callers : client[c].pc = "told" => \E a \in answers : client[c].token = a.token
  /\ \A c \in Callers : client[c].pc = "write" =>
       Shown(answers, client[c].req.subject, client[c].req.target, Cardinality(client[c].devices),
             client[c].at)
  /\ MassActsWereShown

\* The selector of a schedule is one that was saved in it.
SavedIn(rows, x, target, at) ==
  \E saved \in rows : /\ saved.op = "schedule" /\ saved.schedule = x
                      /\ saved.target = target /\ saved.at <= at
ScheduleRows == {NoSchedule} \cup [script_id : Scripts, target : {q.target : q \in Requests}]

SchedulePart ==
  /\ schedule \in [Schedules -> ScheduleRows]
  /\ \A saved \in audit : saved.at \in Nat
  /\ \A x \in Schedules : schedule[x] # NoSchedule => SavedIn(audit, x, schedule[x].target, now)

\* The releases that may be on their way to a device.
For(d) == {r \in Fetchable : ReleasePlatform[r] = Platform[d]}
Frames == [version : Releases, phase : Reports]
OfferRows == [pc : {"idle", "got", "download", "apply", "restart"}, release : Releases \cup {Nil},
              hosted : BOOLEAN, attached : BOOLEAN]

OfferPart ==
  /\ update \in [Devices -> [version : Releases \cup {Nil}, phase : Phases]]
  /\ offer \in [Devices -> [Offers -> OfferRows]]
  /\ wire \in [Devices -> Seq(Frames)]
  /\ \A d \in Devices :
       /\ update[d].version \in For(d) \cup {Nil}
       /\ \A h \in Offers : /\ offer[d][h].release \in For(d) \cup {Nil}
                            /\ offer[d][h].pc # "idle" => offer[d][h].release # Nil
                            /\ offer[d][h].hosted => offer[d][h].release \in Hosted
       /\ \A i \in DOMAIN wire[d] : wire[d][i].version \in For(d)

\* Whatever is said to be installed on a device was put in place there.
SwapPart ==
  /\ version \in [Devices -> Releases \cup {First}]
  /\ running \in [Devices -> Releases \cup {First}]
  /\ self \in [Devices -> Releases \cup {First}]
  /\ swapped \in [Devices -> SUBSET Releases]
  /\ \A d \in Devices :
       /\ {running[d], self[d]} \subseteq swapped[d] \cup {First}
       /\ \A i \in DOMAIN wire[d] : wire[d][i].phase = "APPLIED" => wire[d][i].version \in swapped[d]
  /\ AppliedWasSwapped

\* The inductive invariant.
Inv == FleetPart /\ CatalogPart /\ ClientPart /\ ShownPart /\ SchedulePart /\ OfferPart /\ SwapPart

\* Next, by who takes the step.
Console(c)  == Ask(c) \/ Confirm(c) \/ Handler(c)
Catalog(r)  == \/ \E url \in BOOLEAN : CreateRelease(r, url)
               \/ \E b \in Binaries : UploadReleaseBinary(r, b)
               \/ Put(r) \/ SetReleaseStorageKey(r) \/ UploadFails(r)
Gateway(d)  == HandleUpdateStatus(d) \/ StatusFails(d)
Registry(d) == Enroll(d) \/ Decommission(d)

\* The same steps.
LEMMA NextSteps ==
  Next <=> \/ \E c \in Callers : Console(c)
           \/ \E r \in Releases : Catalog(r)
           \/ \E d \in Devices : Agent(d) \/ Gateway(d) \/ Registry(d)
           \/ \E x \in Schedules : Timetable(x)
           \/ Tick
  BY DEF Next, Console, Catalog, Gateway, Registry

-----------------------------------------------------------------------------
(* Who writes what.                                                        *)

\* A console step leaves the fleet, the catalog and the agents' files alone.
LEMMA ConsoleFrame ==
  ASSUME NEW c \in Callers, Console(c)
  PROVE  UNCHANGED <<status, version, release, blob, upload, online, running, self, wire, swapped, now>>
  <1>1. CASE Ask(c)
    BY <1>1 DEF Ask, fleet, catalog, agents
  <1>2. CASE Confirm(c)
    BY <1>2 DEF Confirm, fleet, catalog, agents, bounds
  <1>3. CASE Handler(c)
    BY <1>3 DEF Handler, CommitJobs, CommitSchedule, CommitOffers, WriteFails, PushOffer, fleet, catalog, agents, bounds
  <1> QED
    BY <1>1, <1>2, <1>3 DEF Console

\* A catalog step changes the catalog only.
LEMMA CatalogFrame ==
  ASSUME NEW r \in Releases, Catalog(r)
  PROVE  UNCHANGED <<status, version, update, audit, schedule, answers, client, online, running,
                     self, offer, wire, swapped, now>>
  BY DEF Catalog, CreateRelease, UploadReleaseBinary, Put, SetReleaseStorageKey, UploadFails,
     fleet, agents, bounds

\* A step of an agent or a device's row leaves the console and the catalog alone.
LEMMA DeviceFrame ==
  ASSUME NEW d \in Devices, Agent(d) \/ Gateway(d) \/ Registry(d)
  PROVE  UNCHANGED <<release, blob, upload, audit, schedule, answers, client, now>>
  <1>1. CASE Restart(d) \/ Disconnect(d) \/ Connect(d)
    BY <1>1 DEF Restart, Disconnect, Connect, catalog, bounds
  <1>2. CASE \E h \in Offers : \/ ReceiveOffer(d, h) \/ DownloadRelease(d, h)
                               \/ ApplyRelease(d, h) \/ OfferFails(d, h)
    BY <1>2 DEF ReceiveOffer, DownloadRelease, ApplyRelease, OfferFails, catalog, bounds
  <1>3. CASE Gateway(d) \/ Registry(d)
    BY <1>3 DEF Gateway, Registry, HandleUpdateStatus, StatusFails, Enroll, Decommission, catalog,
       bounds
  <1> QED
    BY <1>1, <1>2, <1>3 DEF Agent

\* A schedule that fires or goes touches neither the devices nor what was answered.
LEMMA TimetableFrame ==
  ASSUME NEW x \in Schedules, Timetable(x)
  PROVE  UNCHANGED <<status, version, release, blob, upload, update, answers, client, online,
                     running, self, offer, wire, swapped, now>>
  BY DEF Timetable, DeleteSchedule, RunSchedule, fleet, catalog, agents

\* The clock changes nothing else.
LEMMA TickFrame ==
  ASSUME Tick
  PROVE  UNCHANGED <<status, version, release, blob, upload, update, audit, schedule, answers,
                     client, online, running, self, offer, wire, swapped>>
  BY DEF Tick, fleet, catalog, agents

-----------------------------------------------------------------------------
(* The tables after installation.                                          *)

\* Nothing has been asked, offered or swapped.
LEMMA InitInv == Init => Inv
  <1> SUFFICES ASSUME Init PROVE Inv
    OBVIOUS
  <1> USE MassActionAssumption
  <1>1. FleetPart
    BY DEF Init, FleetPart, Enrolled
  <1>2. CatalogPart
    BY DEF Init, CatalogPart, NoRelease, NoUpload, Fetchable, Hosted
  <1>3. ClientPart
    BY DEF Init, ClientPart, ClientRows, ClientFits, Idle
  <1>4. ShownPart /\ SchedulePart
    BY DEF Init, ShownPart, SchedulePart, ScheduleRows, Idle, MassActsWereShown
  <1>5. OfferPart
    <2>1. NoOffer \in OfferRows /\ NoUpdate \in [version : Releases \cup {Nil}, phase : Phases]
      BY DEF NoOffer, OfferRows, NoUpdate, Phases
    <2>2. <<>> \in Seq(Frames) /\ DOMAIN <<>> = {}
      OBVIOUS
    <2>3. \A d \in Devices : update[d] = NoUpdate /\ wire[d] = <<>>
      BY DEF Init
    <2>4. \A d \in Devices, h \in Offers : offer[d][h] = NoOffer
      BY DEF Init
    <2>5. wire \in [Devices -> Seq(Frames)]
      BY <2>2 DEF Init
    <2> QED
      BY <2>1, <2>2, <2>3, <2>4, <2>5 DEF Init, OfferPart, NoOffer, NoUpdate
  <1>6. SwapPart
    <2>1. \A d \in Devices : /\ DOMAIN wire[d] = {} /\ update[d].phase = "none" /\ version[d] = First
                             /\ running[d] = First /\ self[d] = First
      BY DEF Init, NoUpdate
    <2> QED
      BY <2>1 DEF Init, SwapPart, AppliedWasSwapped
  <1> QED
    BY <1>1, <1>2, <1>3, <1>4, <1>5, <1>6 DEF Inv

-----------------------------------------------------------------------------
(* The fleet.                                                              *)

\* Every step counts its event, if it is one.
LEMMA EventsStep == Next => Event \/ events' = events
  <1>1. \A c \in Callers : Console(c) => Event \/ events' = events
    BY DEF Console, Ask, Confirm, Handler, CommitJobs, CommitSchedule, CommitOffers, WriteFails, PushOffer, bounds
  <1>2. \A r \in Releases : Catalog(r) => Event \/ events' = events
    BY DEF Catalog, CreateRelease, UploadReleaseBinary, Put, SetReleaseStorageKey, UploadFails, bounds
  <1>3. ASSUME NEW d \in Devices, Agent(d) PROVE Event \/ events' = events
    <2>1. CASE Restart(d) \/ Disconnect(d) \/ Connect(d)
      BY <2>1 DEF Restart, Disconnect, Connect, bounds
    <2>2. CASE \E h \in Offers : \/ ReceiveOffer(d, h) \/ DownloadRelease(d, h)
                                 \/ ApplyRelease(d, h) \/ OfferFails(d, h)
      BY <2>2 DEF ReceiveOffer, DownloadRelease, ApplyRelease, OfferFails, bounds
    <2> QED
      BY <1>3, <2>1, <2>2 DEF Agent
  <1>4. \A d \in Devices : Gateway(d) \/ Registry(d) => Event \/ events' = events
    BY DEF Gateway, Registry, HandleUpdateStatus, StatusFails, Enroll, Decommission, bounds
  <1>5. Tick => events' = events
    BY DEF Tick
  <1>6. \A x \in Schedules : Timetable(x) => Event
    BY DEF Timetable, DeleteSchedule, RunSchedule
  <1> QED
    BY <1>1, <1>2, <1>3, <1>4, <1>5, <1>6, NextSteps

\* A device that is enrolled stays in the table, and time passes.
LEMMA FleetInv == Inv /\ [Next]_vars => FleetPart' /\ Enrolled \subseteq Enrolled' /\ now <= now'
  <1> SUFFICES ASSUME Inv, [Next]_vars
               PROVE  FleetPart' /\ Enrolled \subseteq Enrolled' /\ now <= now'
    OBVIOUS
  <1> USE MassActionAssumption
  <1>0. FleetPart /\ now \in Nat
    BY DEF Inv, FleetPart
  <1>1. events' \in 0 .. MaxEvents
    <2>1. Event \/ events' = events
      BY EventsStep DEF vars, bounds
    <2> QED
      BY <1>0, <2>1 DEF Event, FleetPart
  <1>2. now' \in 0 .. MaxNow /\ now <= now'
    <2>1. CASE Tick
      BY <1>0, <2>1 DEF Tick, FleetPart
    <2>2. CASE now' = now
      BY <1>0, <2>2 DEF FleetPart
    <2> QED
      BY <2>1, <2>2, NextSteps, ConsoleFrame, CatalogFrame, DeviceFrame, TimetableFrame
         DEF vars, bounds
  <1>3. \/ UNCHANGED <<status, online>>
        \/ \E d \in Devices : Agent(d) \/ Gateway(d) \/ Registry(d)
    BY NextSteps, ConsoleFrame, CatalogFrame, TimetableFrame, TickFrame DEF vars, fleet, agents
  <1>4. /\ status' \in [Devices -> {"none", "active", "decommissioned"}]
        /\ online' \subseteq Enrolled' /\ Enrolled \subseteq Enrolled'
    <2>1. CASE UNCHANGED <<status, online>>
      BY <1>0, <2>1 DEF FleetPart, Enrolled
    <2>2. ASSUME NEW d \in Devices, Registry(d)
          PROVE  /\ status' \in [Devices -> {"none", "active", "decommissioned"}]
                 /\ online' \subseteq Enrolled' /\ Enrolled \subseteq Enrolled'
      <3>1. /\ online' \subseteq online
            /\ \E st \in {"active", "decommissioned"} : status' = [status EXCEPT ![d] = st]
        BY <2>2 DEF Registry, Enroll, Decommission, agents
      <3> QED
        BY <1>0, <3>1 DEF FleetPart, Enrolled
    <2>3. ASSUME NEW d \in Devices, Agent(d) \/ Gateway(d)
          PROVE  /\ status' = status
                 /\ online' \subseteq online \cup {e \in Devices : status[e] = "active"}
      <3>1. CASE Restart(d) \/ Disconnect(d) \/ Connect(d)
        BY <3>1 DEF Restart, Disconnect, Connect, fleet
      <3>2. CASE \E h \in Offers : \/ ReceiveOffer(d, h) \/ DownloadRelease(d, h)
                                   \/ ApplyRelease(d, h) \/ OfferFails(d, h)
        BY <3>2 DEF ReceiveOffer, DownloadRelease, ApplyRelease, OfferFails, fleet
      <3>3. CASE Gateway(d)
        BY <3>3 DEF Gateway, HandleUpdateStatus, StatusFails, fleet
      <3> QED
        BY <2>3, <3>1, <3>2, <3>3 DEF Agent
    <2>4. ASSUME NEW d \in Devices, Agent(d) \/ Gateway(d)
          PROVE  /\ status' \in [Devices -> {"none", "active", "decommissioned"}]
                 /\ online' \subseteq Enrolled' /\ Enrolled \subseteq Enrolled'
      BY <1>0, <2>3, <2>4 DEF FleetPart, Enrolled
    <2> QED
      BY <1>3, <2>1, <2>2, <2>4
  <1> QED
    BY <1>1, <1>2, <1>4 DEF FleetPart

-----------------------------------------------------------------------------
(* The catalog.                                                            *)

\* What can be fetched stays so.
LEMMA CatalogInv ==
  Inv /\ [Next]_vars => CatalogPart' /\ Fetchable \subseteq Fetchable' /\ Hosted \subseteq Hosted'
  <1> SUFFICES ASSUME Inv, [Next]_vars
               PROVE  CatalogPart' /\ Fetchable \subseteq Fetchable' /\ Hosted \subseteq Hosted'
    OBVIOUS
  <1> USE MassActionAssumption
  <1>0. CatalogPart
    BY DEF Inv
  <1>1. CASE UNCHANGED <<release, blob, upload>>
    BY <1>0, <1>1 DEF CatalogPart, Fetchable, Hosted
  <1>2. ASSUME NEW r \in Releases, Catalog(r)
        PROVE  CatalogPart' /\ Fetchable \subseteq Fetchable' /\ Hosted \subseteq Hosted'
    <2>1. ASSUME NEW url \in BOOLEAN, CreateRelease(r, url)
          PROVE  CatalogPart' /\ Fetchable \subseteq Fetchable' /\ Hosted \subseteq Hosted'
      <3>1. /\ ~release[r].exists /\ UNCHANGED <<blob, upload>>
            /\ release' = [release EXCEPT ![r] = [exists |-> TRUE, url |-> url, key |-> FALSE]]
        BY <2>1 DEF CreateRelease
      <3>2. /\ release' \in [Releases -> [exists : BOOLEAN, url : BOOLEAN, key : BOOLEAN]]
            /\ release'[r].exists /\ ~release'[r].key
            /\ \A q \in Releases : q # r => release'[q] = release[q]
        BY <1>0, <3>1 DEF CatalogPart
      <3>3. r \notin Fetchable /\ r \notin Hosted /\ r \notin Hosted'
        BY <1>0, <3>1, <3>2 DEF CatalogPart, Fetchable, Hosted
      <3>4. /\ Fetchable \subseteq Fetchable' /\ Fetchable' \subseteq Fetchable \cup {r}
            /\ Hosted' = Hosted
        BY <3>2, <3>3 DEF Fetchable, Hosted
      <3> QED
        BY <1>0, <3>1, <3>2, <3>4 DEF CatalogPart
    <2>2. ASSUME \/ \E b \in Binaries : UploadReleaseBinary(r, b)
                 \/ UploadFails(r)
          PROVE  CatalogPart' /\ Fetchable \subseteq Fetchable' /\ Hosted \subseteq Hosted'
      <3> DEFINE Checked == [pc |-> "checked", binary |-> Sha256[r]]
      <3>1. /\ UNCHANGED <<release, blob>>
            /\ \/ release[r].exists /\ upload' = [upload EXCEPT ![r] = Checked]
               \/ upload' = [upload EXCEPT ![r] = NoUpload]
        BY <2>2 DEF UploadReleaseBinary, UploadFails
      <3>2. CASE release[r].exists /\ upload' = [upload EXCEPT ![r] = Checked]
        <4>1. /\ upload' \in [Releases -> [pc : {"idle", "checked", "stored"},
                                           binary : Binaries \cup {Nil}]]
              /\ upload'[r].pc = "checked" /\ upload'[r].binary = Sha256[r]
              /\ \A q \in Releases : q # r => upload'[q] = upload[q]
          BY <1>0, <3>2 DEF CatalogPart
        <4> QED
          BY <1>0, <3>1, <3>2, <4>1 DEF CatalogPart, Fetchable, Hosted
      <3>3. CASE upload' = [upload EXCEPT ![r] = NoUpload]
        <4>1. /\ upload' \in [Releases -> [pc : {"idle", "checked", "stored"},
                                           binary : Binaries \cup {Nil}]]
              /\ upload'[r].pc = "idle"
              /\ \A q \in Releases : q # r => upload'[q] = upload[q]
          BY <1>0, <3>3 DEF CatalogPart, NoUpload
        <4> QED
          BY <1>0, <3>1, <4>1 DEF CatalogPart, Fetchable, Hosted
      <3> QED
        BY <3>1, <3>2, <3>3
    <2>3. ASSUME Put(r)
          PROVE  CatalogPart' /\ Fetchable \subseteq Fetchable' /\ Hosted \subseteq Hosted'
      BY <1>0, <2>3 DEF Put, CatalogPart, Fetchable, Hosted
    <2>4. ASSUME SetReleaseStorageKey(r)
          PROVE  CatalogPart' /\ Fetchable \subseteq Fetchable' /\ Hosted \subseteq Hosted'
      <3>1. /\ upload[r].pc = "stored" /\ blob' = blob
            /\ release' = [release EXCEPT ![r].key = TRUE]
            /\ upload' = [upload EXCEPT ![r] = NoUpload]
        BY <2>4 DEF SetReleaseStorageKey
      <3>2. /\ release' \in [Releases -> [exists : BOOLEAN, url : BOOLEAN, key : BOOLEAN]]
            /\ release'[r].key /\ release'[r].exists = release[r].exists
            /\ release'[r].url = release[r].url
            /\ \A q \in Releases : q # r => release'[q] = release[q]
        BY <1>0, <3>1 DEF CatalogPart
      <3>3. /\ upload' \in [Releases -> [pc : {"idle", "checked", "stored"},
                                         binary : Binaries \cup {Nil}]]
            /\ upload'[r].pc = "idle" /\ \A q \in Releases : q # r => upload'[q] = upload[q]
        BY <1>0, <3>1 DEF CatalogPart, NoUpload
      <3>4. /\ Fetchable \subseteq Fetchable' /\ Fetchable' \subseteq Fetchable \cup {r}
            /\ Hosted \subseteq Hosted' /\ Hosted' \subseteq Hosted \cup {r}
        BY <3>2 DEF Fetchable, Hosted
      <3> QED
        BY <1>0, <3>1, <3>2, <3>3, <3>4 DEF CatalogPart
    <2> QED
      BY <1>2, <2>1, <2>2, <2>3, <2>4 DEF Catalog
  <1> QED
    BY <1>1, <1>2, NextSteps, ConsoleFrame, DeviceFrame, TimetableFrame, TickFrame DEF vars, catalog

-----------------------------------------------------------------------------
(* The console.                                                            *)

\* What a caller's handler may hold after a step of it.
ClientRow(cl) == cl \in ClientRows /\ ClientFits(cl)

\* An idle caller holds nothing.
LEMMA IdleFits == ClientRow(Idle)
  BY MassActionAssumption DEF ClientRow, ClientRows, ClientFits, Idle

\* Only active devices are resolved, and they can be counted.
LEMMA ResolvedDevices ==
  ASSUME NEW target
  PROVE  /\ ResolveTarget(target) \subseteq Enrolled
         /\ Cardinality(ResolveTarget(target)) \in Nat
  <1>1. ResolveTarget(target) \subseteq Enrolled /\ ResolveTarget(target) \subseteq Devices
    BY DEF ResolveTarget, Enrolled
  <1>2. IsFiniteSet(ResolveTarget(target))
    BY <1>1, FS_Subset, MassActionAssumption
  <1> QED
    BY <1>1, <1>2, FS_CardinalityType

\* The token of an answer.
LEMMA FreshToken ==
  ASSUME Inv, NEW req \in Requests, NEW count \in Nat
  PROVE  IssueConfirmToken(req.subject, req.target, count) \in Tokens
  <1>1. now + TTL \in Nat
    BY MassActionAssumption DEF Inv, FleetPart
  <1> QED
    BY <1>1 DEF IssueConfirmToken, Claims, Tokens

\* Handle leaves the caller idle, told or about to write.
LEMMA HandleClient ==
  ASSUME Inv, NEW c \in Callers, NEW req \in Requests, NEW token, Handle(c, req, token)
  PROVE  \E row : ClientRow(row) /\ client' = [client EXCEPT ![c] = row]
  <1> DEFINE devices == ResolveTarget(req.target)
             count   == Cardinality(devices)
             fresh   == IssueConfirmToken(req.subject, req.target, count)
             told    == [pc |-> "told", req |-> req, token |-> fresh, at |-> 0, devices |-> {},
                         hosted |-> FALSE]
             write   == [pc |-> "write", req |-> req, token |-> Nil, at |-> now, devices |-> devices,
                         hosted |-> req.op = "rollout" /\ release[req.subject].key]
  <1>1. devices \subseteq Enrolled /\ count \in Nat /\ fresh \in Tokens /\ now \in Nat
    BY ResolvedDevices, FreshToken, MassActionAssumption DEF Inv, FleetPart
  <1>2. devices \subseteq Devices
    BY <1>1 DEF Enrolled
  <1>3. CASE client' = [client EXCEPT ![c] = Idle]
    BY <1>3, IdleFits
  <1>4. CASE client' = [client EXCEPT ![c] = told]
    <2>1. ClientRow(told)
      BY <1>1 DEF ClientRow, ClientRows, ClientFits
    <2> QED
      BY <1>4, <2>1
  <1>5. CASE /\ ~Refused(c, req)
             /\ client' = [client EXCEPT ![c] = write]
    <2>1. ASSUME req.op = "rollout"
          PROVE  req.subject \in Fetchable /\ (write.hosted => req.subject \in Hosted)
      <3>1. req.subject \in Releases
        BY <2>1, MassActionAssumption
      <3>2. SubjectFound(req)
        BY <1>5 DEF Refused
      <3> QED
        BY <2>1, <3>1, <3>2 DEF SubjectFound, Fetchable, Hosted
    <2>2. write \in ClientRows
      <3>1. (req.op = "rollout" /\ release[req.subject].key) \in BOOLEAN
        <4>1. req.op = "rollout" => release[req.subject].key \in BOOLEAN
          BY MassActionAssumption DEF Inv, CatalogPart
        <4> QED
          BY <4>1
      <3> QED
        BY <1>1, <1>2, <3>1 DEF ClientRows
    <2>3. ClientFits(write)
      <3>1. req.op = "schedule" => req.subject \in Scripts
        BY <1>5 DEF Refused, SubjectFound
      <3> QED
        BY <1>1, <2>1, <3>1 DEF ClientFits
    <2> QED
      BY <1>5, <2>2, <2>3 DEF ClientRow
  <1> QED
    BY <1>3, <1>4, <1>5 DEF Handle

\* So does every step of the console.
LEMMA ConsoleClient ==
  ASSUME Inv, NEW c \in Callers, Console(c)
  PROVE  \E row : ClientRow(row) /\ client' = [client EXCEPT ![c] = row]
  <1> DEFINE cl == client[c]
  <1>0. cl \in ClientRows /\ ClientFits(cl)
    BY DEF Inv, ClientPart
  <1>1. CASE Ask(c)
    BY <1>1, HandleClient DEF Ask
  <1>2. CASE Confirm(c)
    <2>1. cl.req \in Requests
      BY <1>0, <1>2 DEF Confirm, ClientFits
    <2> QED
      BY <1>2, <2>1, HandleClient DEF Confirm
  <1>3. CASE CommitJobs(c) \/ WriteFails(c) \/ \E x \in Schedules : CommitSchedule(c, x)
    BY <1>3, IdleFits DEF CommitJobs, WriteFails, CommitSchedule
  <1>4. CASE CommitOffers(c)
    <2> DEFINE r == cl.req.subject
               matched == {d \in cl.devices : Platform[d] = ReleasePlatform[r]}
               row == [cl EXCEPT !.pc = "push", !.devices = matched]
    <2>1. /\ cl.pc = "write" /\ cl.req.op = "rollout"
          /\ client' = [client EXCEPT ![c] = IF matched = {} THEN Idle ELSE row]
      BY <1>4 DEF CommitOffers
    <2>2. matched \subseteq cl.devices /\ cl.devices \subseteq Devices
      BY <1>0 DEF ClientRows
    <2>3. /\ row \in ClientRows /\ row.pc = "push" /\ row.devices = matched /\ row.req = cl.req
          /\ row.hosted = cl.hosted
      BY <1>0, <2>2 DEF ClientRows
    <2>4. ClientFits(row)
      BY <1>0, <2>1, <2>2, <2>3 DEF ClientFits
    <2> QED
      BY <2>1, <2>3, <2>4, IdleFits DEF ClientRow
  <1>5. ASSUME NEW d \in Devices, PushOffer(c, d)
        PROVE  \E row : ClientRow(row) /\ client' = [client EXCEPT ![c] = row]
    <2> DEFINE row == [cl EXCEPT !.devices = cl.devices \ {d}]
    <2>1. /\ cl.pc = "push"
          /\ client' = [client EXCEPT ![c] = IF cl.devices = {d} THEN Idle ELSE row]
      BY <1>5 DEF PushOffer
    <2>2. /\ row \in ClientRows /\ row.pc = cl.pc /\ row.devices = cl.devices \ {d}
          /\ row.req = cl.req /\ row.hosted = cl.hosted
      BY <1>0 DEF ClientRows
    <2>3. ClientFits(row)
      BY <1>0, <2>2 DEF ClientFits
    <2> QED
      BY <2>1, <2>2, <2>3, IdleFits DEF ClientRow
  <1> QED
    BY <1>1, <1>2, <1>3, <1>4, <1>5 DEF Console, Handler

\* A handler's findings stay true while it works.
LEMMA ClientInv == Inv /\ [Next]_vars => ClientPart'
  <1> SUFFICES ASSUME Inv, [Next]_vars PROVE ClientPart'
    OBVIOUS
  <1>1. /\ Enrolled \subseteq Enrolled' /\ Fetchable \subseteq Fetchable' /\ Hosted \subseteq Hosted'
        /\ now <= now' /\ now \in Nat /\ now' \in Nat
    BY FleetInv, CatalogInv, MassActionAssumption DEF Inv, FleetPart
  <1>2. \A cl \in ClientRows : ClientFits(cl) => ClientFits(cl)'
    <2>1. \A cl \in ClientRows : cl.at \in Nat /\ (cl.at <= now => cl.at <= now')
      BY <1>1 DEF ClientRows
    <2> QED
      BY <1>1, <2>1 DEF ClientFits
  <1>3. client \in [Callers -> ClientRows] /\ \A c \in Callers : ClientFits(client[c])
    BY DEF Inv, ClientPart
  <1>4. \/ client' = client
        \/ \E c \in Callers : Console(c)
    BY NextSteps, CatalogFrame, DeviceFrame, TimetableFrame, TickFrame DEF vars
  <1>5. ASSUME NEW c \in Callers, Console(c)
        PROVE  client' \in [Callers -> ClientRows] /\ \A k \in Callers : ClientFits(client'[k])
    <2>1. PICK row : ClientRow(row) /\ client' = [client EXCEPT ![c] = row]
      BY <1>5, ConsoleClient
    <2> QED
      BY <1>3, <2>1 DEF ClientRow
  <1>6. client' \in [Callers -> ClientRows] /\ \A k \in Callers : ClientFits(client'[k])
    BY <1>3, <1>4, <1>5
  <1> QED
    BY <1>2, <1>6 DEF ClientPart, ClientFits

-----------------------------------------------------------------------------
(* What was shown.                                                         *)

\* The digest of a selector determines it.
LEMMA HashTellsApart ==
  ASSUME NEW p \in Requests, NEW q \in Requests, TargetHash(p.target) = TargetHash(q.target)
  PROVE  p.target = q.target
  <1>1. /\ p.target.device_ids = q.target.device_ids /\ p.target.site_id = q.target.site_id
        /\ p.target.customer_id = q.target.customer_id
    BY DEF TargetHash
  <1> QED
    BY <1>1, MassActionAssumption

\* What was shown stays shown.
LEMMA ShownGrows ==
  ASSUME NEW S, NEW T, S \subseteq T, NEW subject, NEW target, NEW count, NEW at,
         Shown(S, subject, target, count, at)
  PROVE  Shown(T, subject, target, count, at)
  BY DEF Shown

\* A request that is let through without a 409 was shown with its number.
LEMMA AcknowledgedWasShown ==
  ASSUME Inv, NEW req \in Requests, NEW count \in Nat,
         NEW token \in {Nil} \cup {a.token : a \in answers}, Acknowledged(req, count, token)
  PROVE  Shown(answers, req.subject, req.target, count, now)
  <1>1. CASE count <= BlastRadius
    BY <1>1, MassActionAssumption DEF Shown
  <1>2. CASE token # Nil /\ CheckConfirmToken(token, req.subject, req.target, count)
    <2>1. PICK a \in answers : token = a.token
      BY <1>2
    <2>2. a \in Answers /\ a.token = TokenOf(a) /\ a.at <= now
      BY DEF Inv, ShownPart
    <2>3. PICK q \in Requests : a.target = q.target
      BY <2>2 DEF Answers
    <2>4. /\ a.subject = req.subject /\ TargetHash(a.target) = TargetHash(req.target)
          /\ a.count = count /\ now <= a.at + TTL
      BY <1>2, <2>1, <2>2 DEF CheckConfirmToken, TokenOf
    <2>5. a.target = req.target
      BY <2>3, <2>4, HashTellsApart
    <2> QED
      BY <2>2, <2>4, <2>5 DEF Shown
  <1> QED
    BY <1>1, <1>2 DEF Acknowledged

\* Where the answers and a caller are after its step.
ShownRow(given, cl) ==
  /\ cl.pc = "told" => \E a \in given : cl.token = a.token
  /\ cl.pc = "write" =>
       Shown(given, cl.req.subject, cl.req.target, Cardinality(cl.devices), cl.at)
AnswersFit(given, time) ==
  given \subseteq Answers /\ \A a \in given : a.token = TokenOf(a) /\ a.at <= time

\* Handle tells a caller the number, or has seen that it was told.
LEMMA HandleShown ==
  ASSUME Inv, NEW c \in Callers, NEW req \in Requests,
         NEW token \in {Nil} \cup {a.token : a \in answers}, Handle(c, req, token)
  PROVE  answers \subseteq answers' /\ AnswersFit(answers', now) /\ ShownRow(answers', client'[c])
  <1> DEFINE devices == ResolveTarget(req.target)
             count   == Cardinality(devices)
             fresh   == IssueConfirmToken(req.subject, req.target, count)
             told    == [pc |-> "told", req |-> req, token |-> fresh, at |-> 0, devices |-> {},
                         hosted |-> FALSE]
             write   == [pc |-> "write", req |-> req, token |-> Nil, at |-> now, devices |-> devices,
                         hosted |-> req.op = "rollout" /\ release[req.subject].key]
             answer  == [subject |-> req.subject, target |-> req.target, count |-> count, at |-> now,
                         token |-> fresh]
  <1>1. count \in Nat /\ now \in Nat /\ fresh \in Tokens
    BY ResolvedDevices, FreshToken, MassActionAssumption DEF Inv, FleetPart
  <1>2. AnswersFit(answers, now) /\ client \in [Callers -> ClientRows]
    BY DEF Inv, ShownPart, AnswersFit, ClientPart
  <1>3. CASE UNCHANGED answers /\ client' = [client EXCEPT ![c] = Idle]
    BY <1>2, <1>3 DEF ShownRow, Idle
  <1>4. CASE answers' = answers \cup {answer} /\ client' = [client EXCEPT ![c] = told]
    <2>1. answer \in Answers
      BY <1>1 DEF Answers
    <2>2. answer.token = TokenOf(answer) /\ answer.at <= now
      BY <1>1 DEF TokenOf, IssueConfirmToken, Claims
    <2>3. client'[c] = told /\ told.pc = "told" /\ told.token = answer.token
      BY <1>2, <1>4
    <2> HIDE DEF answer, told
    <2>4. AnswersFit(answers', now)
      BY <1>2, <1>4, <2>1, <2>2 DEF AnswersFit
    <2> QED
      BY <1>4, <2>3, <2>4 DEF ShownRow
  <1>5. CASE /\ Acknowledged(req, count, token)
             /\ UNCHANGED answers /\ client' = [client EXCEPT ![c] = write]
    <2>1. Shown(answers, req.subject, req.target, count, now)
      BY <1>1, <1>5, AcknowledgedWasShown
    <2>2. /\ client'[c] = write /\ write.pc = "write" /\ write.req = req /\ write.at = now
          /\ write.devices = devices
      BY <1>2, <1>5
    <2> QED
      BY <1>2, <1>5, <2>1, <2>2 DEF ShownRow
  <1> QED
    BY <1>3, <1>4, <1>5 DEF Handle

\* A handler that may writes its audit row.
RowAdded(c) ==
  /\ client[c].pc = "write"
  /\ \E x : audit' = audit \cup {AuditRow(c, x)}
  /\ client[c].req.op # "run"

\* The same of every step of the console.
LEMMA ConsoleShown ==
  ASSUME Inv, NEW c \in Callers, Console(c)
  PROVE  /\ answers \subseteq answers' /\ AnswersFit(answers', now) /\ ShownRow(answers', client'[c])
         /\ audit' = audit \/ RowAdded(c)
  <1>0. /\ AnswersFit(answers, now) /\ client \in [Callers -> ClientRows]
        /\ client[c].pc = "told" => \E a \in answers : client[c].token = a.token
        /\ client[c].pc = "told" => client[c].req \in Requests
    BY DEF Inv, ShownPart, AnswersFit, ClientPart, ClientFits
  <1>1. CASE Ask(c)
    BY <1>1, HandleShown DEF Ask
  <1>2. CASE Confirm(c)
    BY <1>0, <1>2, HandleShown DEF Confirm
  <1>3. CASE Handler(c)
    <2>1. /\ answers' = answers
          /\ audit' = audit \/ RowAdded(c)
      BY <1>3 DEF RowAdded, Handler, CommitJobs, CommitSchedule, CommitOffers, WriteFails, PushOffer
    <2>2. client'[c].pc \in {"idle", "push"}
      <3>1. Idle.pc = "idle" /\ client[c] \in ClientRows
        BY <1>0 DEF Idle
      <3>2. CASE CommitJobs(c) \/ WriteFails(c) \/ \E x \in Schedules : CommitSchedule(c, x)
        BY <1>0, <3>1, <3>2 DEF CommitJobs, WriteFails, CommitSchedule
      <3>3. CASE CommitOffers(c)
        BY <1>0, <3>1, <3>3 DEF CommitOffers, ClientRows
      <3>4. CASE \E d \in Devices : PushOffer(c, d)
        BY <1>0, <3>1, <3>4 DEF PushOffer, ClientRows
      <3> QED
        BY <1>3, <3>2, <3>3, <3>4 DEF Handler
    <2> QED
      BY <1>0, <2>1, <2>2 DEF ShownRow
  <1> QED
    BY <1>1, <1>2, <1>3 DEF Console

\* Nothing is done to many devices that was not shown.
LEMMA ShownInv == Inv /\ [Next]_vars => ShownPart'
  <1> SUFFICES ASSUME Inv, [Next]_vars PROVE ShownPart'
    OBVIOUS
  <1> USE MassActionAssumption
  <1>1. /\ AnswersFit(answers, now) /\ \A c \in Callers : ShownRow(answers, client[c])
        /\ client \in [Callers -> ClientRows] /\ MassActsWereShown
    BY DEF Inv, ShownPart, AnswersFit, ShownRow, ClientPart
  <1>2. now <= now' /\ now \in Nat /\ now' \in Nat /\ answers \subseteq Answers
    BY <1>1, FleetInv DEF Inv, FleetPart, AnswersFit
  <1>3. SUFFICES /\ answers \subseteq answers' /\ AnswersFit(answers', now)
                 /\ \A c \in Callers : ShownRow(answers', client'[c])
                 /\ MassActsWereShown'
    <2>1. ASSUME AnswersFit(answers', now)
          PROVE  answers' \subseteq Answers /\ \A a \in answers' : a.token = TokenOf(a) /\ a.at <= now'
      BY <1>2, <2>1 DEF AnswersFit, Answers
    <2> QED
      BY <2>1 DEF ShownPart, ShownRow
  <1>4. CASE UNCHANGED <<answers, client, audit>>
    BY <1>1, <1>4 DEF MassActsWereShown
  <1>5. ASSUME NEW c \in Callers, Console(c)
        PROVE  /\ answers \subseteq answers' /\ AnswersFit(answers', now)
               /\ \A k \in Callers : ShownRow(answers', client'[k])
               /\ MassActsWereShown'
    <2>1. /\ answers \subseteq answers' /\ AnswersFit(answers', now) /\ ShownRow(answers', client'[c])
          /\ audit' = audit \/ RowAdded(c)
      BY <1>5, ConsoleShown
    <2>2. ASSUME NEW k \in Callers, k # c PROVE ShownRow(answers', client'[k])
      <3>1. client'[k] = client[k]
        BY <1>1, <1>5, <2>2, ConsoleClient
      <3> QED
        BY <1>1, <2>1, <3>1, ShownGrows DEF ShownRow
    <2>3. ASSUME NEW row \in audit', row.op # "run"
          PROVE  Shown(answers', row.subject, row.target, row.device_count, row.at)
      <3>1. CASE row \in audit
        <4>1. Shown(answers, row.subject, row.target, row.device_count, row.at)
          BY <1>1, <2>3, <3>1 DEF MassActsWereShown, Shown
        <4> QED
          BY <2>1, <4>1, ShownGrows
      <3>2. CASE client[c].pc = "write" /\ \E x : row = AuditRow(c, x)
        <4>1. /\ row.subject = client[c].req.subject /\ row.target = client[c].req.target
              /\ row.device_count = Cardinality(client[c].devices) /\ row.at = client[c].at
          BY <3>2 DEF AuditRow
        <4>2. Shown(answers, row.subject, row.target, row.device_count, row.at)
          BY <1>1, <3>2, <4>1 DEF ShownRow
        <4> QED
          BY <2>1, <4>2, ShownGrows
      <3> QED
        BY <2>1, <2>3, <3>1, <3>2 DEF RowAdded
    <2>4. ASSUME NEW row \in audit', row.op = "run"
          PROVE  SavedIn(audit', row.schedule, row.target, row.at)
      <3>1. row \in audit /\ audit \subseteq audit'
        BY <2>1, <2>4 DEF RowAdded, AuditRow
      <3> QED
        BY <1>1, <2>4, <3>1 DEF MassActsWereShown, SavedIn
    <2>5. MassActsWereShown'
      BY <2>3, <2>4 DEF MassActsWereShown, Shown, SavedIn
    <2> QED
      BY <2>1, <2>2, <2>5
  <1>6. ASSUME NEW x \in Schedules, Timetable(x)
        PROVE  /\ answers \subseteq answers' /\ AnswersFit(answers', now)
               /\ \A k \in Callers : ShownRow(answers', client'[k])
               /\ MassActsWereShown'
    <2>1. UNCHANGED <<answers, client>>
      BY <1>6, TimetableFrame
    <2>2. CASE audit' = audit
      BY <1>1, <2>1, <2>2 DEF MassActsWereShown
    <2>3. CASE RunSchedule(x)
      <3>1. /\ audit' = audit \cup {RunRow(x)}
            /\ RunRow(x).op = "run" /\ RunRow(x).schedule = x
            /\ RunRow(x).target = schedule[x].target /\ RunRow(x).at = now
        BY <2>3 DEF RunSchedule, RunRow
      <3>2. schedule[x] # NoSchedule
        BY <2>3 DEF RunSchedule, NoSchedule
      <3>3. SavedIn(audit, x, schedule[x].target, now)
        BY <3>2 DEF Inv, SchedulePart
      <3> QED
        BY <1>1, <2>1, <3>1, <3>3 DEF MassActsWereShown, SavedIn
    <2> QED
      BY <1>6, <2>2, <2>3 DEF Timetable, DeleteSchedule
  <1>7. \/ UNCHANGED <<answers, client, audit>>
        \/ \E c \in Callers : Console(c)
        \/ \E x \in Schedules : Timetable(x)
    BY NextSteps, CatalogFrame, DeviceFrame, TickFrame DEF vars
  <1> QED
    BY <1>4, <1>5, <1>6, <1>7

\* Every selector in a schedule was saved in it, in a transaction that had its answer.
LEMMA ScheduleInv == Inv /\ [Next]_vars => SchedulePart'
  <1> SUFFICES ASSUME Inv, [Next]_vars PROVE SchedulePart'
    OBVIOUS
  <1>1. /\ schedule \in [Schedules -> ScheduleRows] /\ \A saved \in audit : saved.at \in Nat
        /\ \A x \in Schedules : schedule[x] # NoSchedule => SavedIn(audit, x, schedule[x].target, now)
    BY DEF Inv, SchedulePart
  <1>2. now <= now' /\ now \in Nat /\ now' \in Nat
    BY FleetInv, MassActionAssumption DEF Inv, FleetPart
  <1>3. ASSUME NEW x, NEW target, SavedIn(audit, x, target, now), audit \subseteq audit'
        PROVE  SavedIn(audit', x, target, now')
    BY <1>1, <1>2, <1>3 DEF SavedIn
  <1>4. CASE UNCHANGED <<schedule, audit>>
    BY <1>1, <1>3, <1>4 DEF SchedulePart
  <1>5. ASSUME NEW c \in Callers, Console(c) PROVE SchedulePart'
    <2>1. now' = now /\ client[c] \in ClientRows /\ ClientFits(client[c])
      BY <1>5, ConsoleFrame DEF Inv, ClientPart
    <2>2. audit' = audit \/ RowAdded(c)
      BY <1>5, ConsoleShown
    <2>3. audit \subseteq audit' /\ \A saved \in audit' : saved.at \in Nat
      BY <1>1, <2>1, <2>2 DEF RowAdded, AuditRow, ClientRows
    <2>4. CASE schedule' = schedule
      BY <1>1, <1>3, <2>3, <2>4 DEF SchedulePart
    <2>5. ASSUME NEW x \in Schedules, CommitSchedule(c, x) PROVE SchedulePart'
      <3> DEFINE req == client[c].req
                 row == [script_id |-> IF schedule[x] = NoSchedule THEN req.subject
                                       ELSE schedule[x].script_id,
                         target |-> req.target]
      <3>1. /\ client[c].pc = "write" /\ req.op = "schedule"
            /\ schedule' = [schedule EXCEPT ![x] = row]
            /\ audit' = audit \cup {AuditRow(c, x)}
        BY <2>5 DEF CommitSchedule
      <3>2. req \in Requests /\ req.subject \in Scripts /\ client[c].at <= now
        BY <2>1, <3>1 DEF ClientFits
      <3>3. row \in ScheduleRows
        BY <1>1, <3>2 DEF ScheduleRows
      <3>4. SavedIn(audit', x, row.target, now')
        <4>1. /\ AuditRow(c, x).op = "schedule" /\ AuditRow(c, x).schedule = x
              /\ AuditRow(c, x).target = row.target /\ AuditRow(c, x).at = client[c].at
          BY <3>1 DEF AuditRow
        <4> QED
          BY <2>1, <3>1, <3>2, <4>1 DEF SavedIn
      <3> HIDE DEF row
      <3>5. /\ schedule' \in [Schedules -> ScheduleRows] /\ schedule'[x] = row
            /\ \A y \in Schedules : y # x => schedule'[y] = schedule[y]
        BY <1>1, <3>1, <3>3
      <3> QED
        BY <1>1, <1>3, <2>3, <3>4, <3>5 DEF SchedulePart
    <2>6. schedule' = schedule \/ \E x \in Schedules : CommitSchedule(c, x)
      BY <1>5 DEF Console, Ask, Confirm, Handler, CommitJobs, CommitOffers, WriteFails, PushOffer
    <2> QED
      BY <2>4, <2>5, <2>6
  <1>6. ASSUME NEW x \in Schedules, Timetable(x) PROVE SchedulePart'
    <2>1. CASE DeleteSchedule(x)
      <3>1. audit' = audit /\ schedule' = [schedule EXCEPT ![x] = NoSchedule]
        BY <2>1 DEF DeleteSchedule
      <3>2. /\ schedule' \in [Schedules -> ScheduleRows] /\ schedule'[x] = NoSchedule
            /\ \A y \in Schedules : y # x => schedule'[y] = schedule[y]
        BY <1>1, <3>1 DEF ScheduleRows
      <3> QED
        BY <1>1, <1>3, <3>1, <3>2 DEF SchedulePart
    <2>2. CASE RunSchedule(x)
      <3>1. audit' = audit \cup {RunRow(x)} /\ RunRow(x).at = now
        BY <2>2 DEF RunSchedule, RunRow
      <3>2. schedule' = schedule
        BY <2>2 DEF RunSchedule
      <3> QED
        BY <1>1, <1>2, <1>3, <3>1, <3>2 DEF SchedulePart
    <2> QED
      BY <1>6, <2>1, <2>2 DEF Timetable
  <1>7. \/ UNCHANGED <<schedule, audit>>
        \/ \E c \in Callers : Console(c)
        \/ \E x \in Schedules : Timetable(x)
    BY NextSteps, CatalogFrame, DeviceFrame, TickFrame DEF vars
  <1> QED
    BY <1>4, <1>5, <1>6, <1>7

-----------------------------------------------------------------------------
(* Offers and reports.                                                     *)

\* What an agent's goroutine, a frame and a row of device_updates may say.
OfferFits(o, fits, hosted) ==
  /\ o \in OfferRows
  /\ o.release \in fits \cup {Nil}
  /\ o.pc # "idle" => o.release # Nil
  /\ o.hosted => o.release \in hosted
FrameFits(f, fits, swaps) ==
  f \in Frames /\ f.version \in fits /\ (f.phase = "APPLIED" => f.version \in swaps)
UpdateFits(u, fits, swaps) ==
  /\ u \in [version : Releases \cup {Nil}, phase : Phases]
  /\ u.version \in fits \cup {Nil}
  /\ u.phase = "applied" => u.version \in swaps

OffersFit(table) ==
  /\ table \in [Devices -> [Offers -> OfferRows]]
  /\ \A d \in Devices, h \in Offers : OfferFits(table[d][h], For(d), Hosted)
WireFits(w, fits, swaps) == w \in Seq(Frames) /\ \A i \in DOMAIN w : FrameFits(w[i], fits, swaps)
WiresFit(table, swaps) ==
  /\ table \in [Devices -> Seq(Frames)]
  /\ \A d \in Devices : WireFits(table[d], For(d), swaps[d])
UpdatesFit(table, swaps) ==
  /\ table \in [Devices -> [version : Releases \cup {Nil}, phase : Phases]]
  /\ \A d \in Devices : UpdateFits(table[d], For(d), swaps[d])

\* What the invariant says of the three tables.
LEMMA TablesFit ==
  ASSUME Inv
  PROVE  OffersFit(offer) /\ WiresFit(wire, swapped) /\ UpdatesFit(update, swapped)
  <1>1. OffersFit(offer)
    BY DEF Inv, OfferPart, OffersFit, OfferFits
  <1>2. WiresFit(wire, swapped)
    <2>1. ASSUME NEW d \in Devices, NEW i \in DOMAIN wire[d]
          PROVE  FrameFits(wire[d][i], For(d), swapped[d])
      <3>1. wire[d] \in Seq(Frames)
        BY DEF Inv, OfferPart
      <3>2. wire[d][i] \in Frames
        BY <3>1, <2>1
      <3> QED
        BY <2>1, <3>2 DEF Inv, OfferPart, SwapPart, FrameFits
    <2> QED
      BY <2>1 DEF Inv, OfferPart, WiresFit, WireFits
  <1>3. UpdatesFit(update, swapped)
    BY DEF Inv, OfferPart, SwapPart, AppliedWasSwapped, UpdatesFit, UpdateFits
  <1> QED
    BY <1>1, <1>2, <1>3

\* A queue of frames at its two ends.
LEMMA WireEnds ==
  ASSUME NEW fits, NEW swaps, NEW w, WireFits(w, fits, swaps)
  PROVE  /\ WireFits(<<>>, fits, swaps)
         /\ \A f : FrameFits(f, fits, swaps) => WireFits(Append(w, f), fits, swaps)
         /\ w # <<>> => FrameFits(Head(w), fits, swaps) /\ WireFits(Tail(w), fits, swaps)
  <1>0. w \in Seq(Frames)
    BY DEF WireFits
  <1>1. WireFits(<<>>, fits, swaps)
    BY DEF WireFits
  <1>2. ASSUME NEW f, FrameFits(f, fits, swaps) PROVE WireFits(Append(w, f), fits, swaps)
    <2>1. f \in Frames
      BY <1>2 DEF FrameFits
    <2>2. Append(w, f) \in Seq(Frames) /\ DOMAIN Append(w, f) = 1 .. Len(w) + 1
      BY <1>0, <2>1
    <2>3. ASSUME NEW i \in 1 .. Len(w) + 1 PROVE FrameFits(Append(w, f)[i], fits, swaps)
      <3>1. CASE i \in 1 .. Len(w)
        BY <1>0, <3>1 DEF WireFits
      <3>2. CASE i = Len(w) + 1
        BY <1>0, <1>2, <3>2
      <3> QED
        BY <1>0, <3>1, <3>2
    <2> QED
      BY <2>2, <2>3 DEF WireFits
  <1>3. ASSUME w # <<>> PROVE FrameFits(Head(w), fits, swaps) /\ WireFits(Tail(w), fits, swaps)
    <2>1. Head(w) = w[1] /\ 1 \in DOMAIN w
      BY <1>0, <1>3
    <2>2. Tail(w) \in Seq(Frames) /\ DOMAIN Tail(w) = 1 .. Len(w) - 1
      BY <1>0, <1>3
    <2>3. ASSUME NEW i \in 1 .. Len(w) - 1 PROVE FrameFits(Tail(w)[i], fits, swaps)
      <3>1. Tail(w)[i] = w[i + 1] /\ i + 1 \in DOMAIN w
        BY <1>0, <1>3
      <3> QED
        BY <3>1 DEF WireFits
    <2> QED
      BY <2>1, <2>2, <2>3 DEF WireFits
  <1> QED
    BY <1>1, <1>2, <1>3

\* One goroutine's entry changes.
LEMMA OneOfferChanges ==
  ASSUME Inv, NEW d \in Devices, NEW h \in Offers, NEW o, OfferFits(o, For(d), Hosted),
         offer' = [offer EXCEPT ![d][h] = o]
  PROVE  OffersFit(offer')
  <1>1. OffersFit(offer)
    BY TablesFit
  <1>2. /\ offer' \in [Devices -> [Offers -> OfferRows]]
        /\ \A e \in Devices, k \in Offers :
             offer'[e][k] = IF e = d /\ k = h THEN o ELSE offer[e][k]
    BY <1>1 DEF OffersFit, OfferFits
  <1> QED
    BY <1>1, <1>2 DEF OffersFit

\* The end of a goroutine.
LEMMA NoOfferFits == \A d \in Devices : OfferFits(NoOffer, For(d), Hosted)
  BY DEF OfferFits, NoOffer, OfferRows

\* Goto and Finish.
LEMMA GotoFits ==
  ASSUME Inv, NEW d \in Devices, NEW h \in Offers, NEW pc \in {"download", "apply", "restart"},
         offer[d][h].pc # "idle", Goto(d, h, pc)
  PROVE  OffersFit(offer')
  <1> DEFINE o == [offer[d][h] EXCEPT !.pc = pc]
  <1>1. OfferFits(offer[d][h], For(d), Hosted)
    BY TablesFit DEF OffersFit
  <1>2. OfferFits(o, For(d), Hosted)
    BY <1>1 DEF OfferFits, OfferRows
  <1>3. offer' = [offer EXCEPT ![d][h] = o]
    BY DEF Goto
  <1> QED
    BY <1>2, <1>3, OneOfferChanges

\* The goroutines lose their connection.
LEMMA DetachFits ==
  ASSUME Inv, NEW d \in Devices, Detach(d)
  PROVE  OffersFit(offer')
  <1>1. OffersFit(offer)
    BY TablesFit
  <1>2. ASSUME NEW h \in Offers
        PROVE  OfferFits([offer[d][h] EXCEPT !.attached = FALSE], For(d), Hosted)
    <2>1. OfferFits(offer[d][h], For(d), Hosted)
      BY <1>1 DEF OffersFit
    <2> QED
      BY <2>1 DEF OfferFits, OfferRows
  <1>3. [h \in Offers |-> [offer[d][h] EXCEPT !.attached = FALSE]] \in [Offers -> OfferRows]
    BY <1>2 DEF OfferFits
  <1>4. /\ offer' \in [Devices -> [Offers -> OfferRows]]
        /\ \A h \in Offers : offer'[d][h] = [offer[d][h] EXCEPT !.attached = FALSE]
        /\ \A e \in Devices : e # d => offer'[e] = offer[e]
    BY <1>1, <1>3 DEF Detach, OffersFit
  <1> QED
    BY <1>1, <1>2, <1>4 DEF OffersFit

LEMMA FinishFits ==
  ASSUME Inv, NEW d \in Devices, NEW h \in Offers, Finish(d, h)
  PROVE  OffersFit(offer')
  BY NoOfferFits, OneOfferChanges DEF Finish

\* A report of a goroutine that is at work.
LEMMA SendFits ==
  ASSUME Inv, NEW d \in Devices, NEW h \in Offers, NEW v \in For(d), NEW phase \in Reports, NEW swaps,
         \A e \in Devices : swapped[e] \subseteq swaps[e],
         phase = "APPLIED" => v \in swaps[d], Send(d, h, v, phase)
  PROVE  WiresFit(wire', swaps)
  <1> DEFINE f == [version |-> v, phase |-> phase]
  <1>1. WiresFit(wire, swapped)
    BY TablesFit
  <1>2. WiresFit(wire, swaps)
    BY <1>1 DEF WiresFit, WireFits, FrameFits
  <1>3. FrameFits(f, For(d), swaps[d])
    BY DEF FrameFits, Frames, For, Fetchable
  <1> HIDE DEF f
  <1>4. CASE wire' = [wire EXCEPT ![d] = Append(wire[d], f)]
    <2>1. WireFits(Append(wire[d], f), For(d), swaps[d])
      BY <1>2, <1>3, WireEnds DEF WiresFit
    <2> QED
      BY <1>2, <1>4, <2>1 DEF WiresFit, WireFits
  <1> QED
    BY <1>2, <1>4 DEF Send, f

\* The versions of a device's row, process and file, against what Apply did.
InstalledFit(ver, run, file, swaps) ==
  /\ {ver, run, file} \subseteq [Devices -> Releases \cup {First}]
  /\ swaps \in [Devices -> SUBSET Releases]
  /\ \A d \in Devices : {ver[d], run[d], file[d]} \subseteq swaps[d] \cup {First}

\* What every step has to keep of the offers, the reports and the versions.
TablesAfter ==
  /\ OffersFit(offer') /\ WiresFit(wire', swapped') /\ UpdatesFit(update', swapped')
  /\ InstalledFit(version', running', self', swapped')

\* What the invariant says of the versions.
LEMMA InstalledNow ==
  ASSUME Inv
  PROVE  InstalledFit(version, running, self, swapped)
  BY DEF Inv, SwapPart, AppliedWasSwapped, InstalledFit

\* handleUpdateOffer: the version at work is one that was offered to the device.
LEMMA OfferAtWork ==
  ASSUME Inv, NEW d \in Devices, NEW h \in Offers, offer[d][h].pc # "idle"
  PROVE  offer[d][h].release \in For(d) /\ offer[d][h].release \in Releases
  <1>1. OfferFits(offer[d][h], For(d), Hosted)
    BY TablesFit DEF OffersFit
  <1> QED
    BY <1>1 DEF OfferFits, For, Fetchable

\* The steps of a goroutine.
LEMMA OfferSteps ==
  ASSUME Inv, NEW d \in Devices, NEW h \in Offers,
         ReceiveOffer(d, h) \/ DownloadRelease(d, h) \/ ApplyRelease(d, h) \/ OfferFails(d, h)
  PROVE  TablesAfter
  <1> DEFINE v == offer[d][h].release
  <1>0. /\ WiresFit(wire, swapped) /\ UpdatesFit(update, swapped)
        /\ InstalledFit(version, running, self, swapped)
    BY TablesFit, InstalledNow
  <1>1. v \in For(d) /\ v \in Releases
    <2>1. offer[d][h].pc # "idle"
      BY DEF ReceiveOffer, DownloadRelease, ApplyRelease, OfferFails
    <2> QED
      BY <2>1, OfferAtWork
  <1>2. {"DOWNLOADING", "VERIFIED", "APPLIED", "FAILED"} \subseteq Reports
    BY DEF Reports
  <1>3. CASE ReceiveOffer(d, h)
    <2>1. UNCHANGED <<version, running, self, swapped, update>> /\ offer[d][h].pc # "idle"
      BY <1>3 DEF ReceiveOffer, fleet
    <2>2. (Finish(d, h) /\ UNCHANGED wire) \/ (Goto(d, h, "download") /\ Send(d, h, v, "DOWNLOADING"))
      BY <1>3 DEF ReceiveOffer
    <2>3. OffersFit(offer')
      BY <2>1, <2>2, FinishFits, GotoFits
    <2>4. WiresFit(wire', swapped)
      BY <1>0, <1>1, <1>2, <2>2, SendFits
    <2> QED
      BY <1>0, <2>1, <2>3, <2>4 DEF TablesAfter
  <1>4. CASE DownloadRelease(d, h)
    <2>1. /\ UNCHANGED <<version, running, self, swapped, update>> /\ offer[d][h].pc # "idle"
          /\ Goto(d, h, "apply") /\ Send(d, h, v, "VERIFIED")
      BY <1>4 DEF DownloadRelease, fleet
    <2>2. OffersFit(offer')
      BY <2>1, GotoFits
    <2>3. WiresFit(wire', swapped)
      BY <1>1, <1>2, <2>1, SendFits
    <2> QED
      BY <1>0, <2>1, <2>2, <2>3 DEF TablesAfter
  <1>5. CASE ApplyRelease(d, h)
    <2>1. /\ UNCHANGED <<version, running, update>> /\ offer[d][h].pc # "idle"
          /\ self' = [self EXCEPT ![d] = v]
          /\ swapped' = [swapped EXCEPT ![d] = swapped[d] \cup {v}]
          /\ Goto(d, h, "restart") /\ Send(d, h, v, "APPLIED")
      BY <1>5 DEF ApplyRelease, fleet
    <2>2. /\ \A e \in Devices : swapped[e] \subseteq swapped'[e]
          /\ v \in swapped'[d] /\ swapped' \in [Devices -> SUBSET Releases]
      BY <1>0, <1>1, <2>1 DEF InstalledFit
    <2>3. OffersFit(offer')
      BY <2>1, GotoFits
    <2>4. WiresFit(wire', swapped')
      <3>1. PICK swaps : swaps = swapped'
        OBVIOUS
      <3> QED
        BY <1>1, <1>2, <2>1, <2>2, <3>1, SendFits
    <2>5. UpdatesFit(update', swapped')
      BY <1>0, <2>1, <2>2 DEF UpdatesFit, UpdateFits
    <2>6. InstalledFit(version', running', self', swapped')
      BY <1>0, <1>1, <2>1, <2>2 DEF InstalledFit
    <2> QED
      BY <2>3, <2>4, <2>5, <2>6 DEF TablesAfter
  <1>6. CASE OfferFails(d, h)
    <2>1. /\ UNCHANGED <<version, running, self, swapped, update>>
          /\ Finish(d, h) /\ Send(d, h, v, "FAILED")
      BY <1>6 DEF OfferFails, fleet
    <2>2. OffersFit(offer')
      BY <2>1, FinishFits
    <2>3. WiresFit(wire', swapped)
      BY <1>1, <1>2, <2>1, SendFits
    <2> QED
      BY <1>0, <2>1, <2>2, <2>3 DEF TablesAfter
  <1> QED
    BY <1>3, <1>4, <1>5, <1>6

\* A queue is emptied, or loses its head.
LEMMA WireShrinks ==
  ASSUME Inv, NEW d \in Devices,
         \/ wire' \in {wire, [wire EXCEPT ![d] = <<>>]}
         \/ wire[d] # <<>> /\ wire' = [wire EXCEPT ![d] = Tail(wire[d])]
  PROVE  WiresFit(wire', swapped)
  <1>1. WiresFit(wire, swapped)
    BY TablesFit
  <1>2. WireFits(wire[d], For(d), swapped[d]) /\ wire \in [Devices -> Seq(Frames)]
    BY <1>1 DEF WiresFit
  <1>3. ASSUME NEW w, WireFits(w, For(d), swapped[d]), wire' = [wire EXCEPT ![d] = w]
        PROVE  WiresFit(wire', swapped)
    <2>1. /\ wire' \in [Devices -> Seq(Frames)] /\ wire'[d] = w
          /\ \A e \in Devices : e # d => wire'[e] = wire[e]
      BY <1>2, <1>3 DEF WireFits
    <2> QED
      BY <1>1, <1>3, <2>1 DEF WiresFit
  <1> QED
    BY <1>1, <1>2, <1>3, WireEnds

\* The agent's process and its connection.
LEMMA ProcessSteps ==
  ASSUME Inv, NEW d \in Devices, Restart(d) \/ Disconnect(d) \/ Connect(d) \/ Registry(d)
  PROVE  TablesAfter
  <1>0. /\ OffersFit(offer) /\ WiresFit(wire, swapped) /\ UpdatesFit(update, swapped)
        /\ InstalledFit(version, running, self, swapped)
    BY TablesFit, InstalledNow
  <1>1. CASE Restart(d)
    <2>1. /\ UNCHANGED <<version, self, swapped, update, wire>>
          /\ running' = [running EXCEPT ![d] = self[d]]
          /\ offer' = [offer EXCEPT ![d] = [h \in Offers |-> NoOffer]]
      BY <1>1 DEF Restart, fleet
    <2>2. OffersFit(offer')
      <3>1. /\ offer' \in [Devices -> [Offers -> OfferRows]]
            /\ \A e \in Devices, h \in Offers : offer'[e][h] = IF e = d THEN NoOffer ELSE offer[e][h]
        BY <1>0, <2>1, NoOfferFits DEF OffersFit, OfferFits
      <3> QED
        BY <1>0, <3>1, NoOfferFits DEF OffersFit
    <2>3. InstalledFit(version', running', self', swapped')
      BY <1>0, <2>1 DEF InstalledFit
    <2> QED
      BY <1>0, <2>1, <2>2, <2>3 DEF TablesAfter
  <1>2. CASE Disconnect(d) \/ Registry(d)
    <2>1. /\ UNCHANGED <<version, running, self, swapped, update>>
          /\ wire' \in {wire, [wire EXCEPT ![d] = <<>>]}
          /\ offer' = offer \/ Detach(d)
      BY <1>2 DEF Disconnect, Registry, Enroll, Decommission, fleet, agents
    <2>2. WiresFit(wire', swapped)
      BY <2>1, WireShrinks
    <2>3. OffersFit(offer')
      BY <1>0, <2>1, DetachFits
    <2> QED
      BY <1>0, <2>1, <2>2, <2>3 DEF TablesAfter
  <1>3. CASE Connect(d)
    <2>1. /\ UNCHANGED <<running, self, swapped, update, offer>>
          /\ version' = [version EXCEPT ![d] = running[d]]
          /\ wire' \in {wire, [wire EXCEPT ![d] = <<>>]}
      BY <1>3 DEF Connect
    <2>2. WiresFit(wire', swapped)
      BY <2>1, WireShrinks
    <2>3. InstalledFit(version', running', self', swapped')
      BY <1>0, <2>1 DEF InstalledFit
    <2> QED
      BY <1>0, <2>1, <2>2, <2>3 DEF TablesAfter
  <1> QED
    BY <1>1, <1>2, <1>3

\* The gateway: a late report replaces a newer offer in the row, and what it
\* says is true all the same.
LEMMA GatewaySteps ==
  ASSUME Inv, NEW d \in Devices, Gateway(d)
  PROVE  TablesAfter
  <1>0. /\ OffersFit(offer) /\ WiresFit(wire, swapped) /\ UpdatesFit(update, swapped)
        /\ InstalledFit(version, running, self, swapped)
    BY TablesFit, InstalledNow
  <1>1. /\ UNCHANGED <<running, self, swapped, offer>> /\ wire[d] # <<>>
        /\ wire' = [wire EXCEPT ![d] = Tail(wire[d])]
    BY DEF Gateway, HandleUpdateStatus, StatusFails
  <1>2. WiresFit(wire', swapped)
    BY <1>1, WireShrinks
  <1>3. CASE StatusFails(d)
    BY <1>0, <1>1, <1>2, <1>3 DEF StatusFails, fleet, TablesAfter
  <1>4. CASE HandleUpdateStatus(d)
    <2> DEFINE st == Head(wire[d])
               row == [version |-> st.version, phase |-> UpdatePhaseString(st.phase)]
    <2>1. /\ update' \in {update, [update EXCEPT ![d] = row]}
          /\ version' = IF st.phase = "APPLIED" THEN [version EXCEPT ![d] = st.version] ELSE version
      BY <1>4 DEF HandleUpdateStatus, SetDeviceUpdatePhase
    <2>2. FrameFits(st, For(d), swapped[d])
      BY <1>0, <1>1, WireEnds DEF WiresFit
    <2> HIDE DEF st
    <2>3. UpdateFits(row, For(d), swapped[d])
      <3>1. st.version \in Releases /\ st.phase \in Reports /\ st.version \in For(d)
        BY <2>2 DEF FrameFits, Frames
      <3>2. /\ UpdatePhaseString(st.phase) \in Phases
            /\ UpdatePhaseString(st.phase) = "applied" => st.phase = "APPLIED"
        BY <3>1 DEF UpdatePhaseString, Phases, Reports
      <3> QED
        BY <2>2, <3>1, <3>2 DEF UpdateFits, FrameFits
    <2> HIDE DEF row
    <2>4. UpdatesFit(update', swapped)
      BY <1>0, <2>1, <2>3 DEF UpdatesFit, UpdateFits
    <2>5. InstalledFit(version', running, self, swapped)
      BY <1>0, <2>1, <2>2 DEF InstalledFit, FrameFits, Frames
    <2> QED
      BY <1>0, <1>1, <1>2, <2>4, <2>5 DEF TablesAfter
  <1> QED
    BY <1>3, <1>4 DEF Gateway

\* The console: what is offered and pushed was found and matches the platform.
LEMMA ConsoleSteps ==
  ASSUME Inv, NEW c \in Callers, Console(c)
  PROVE  TablesAfter
  <1> DEFINE cl == client[c]
             r == cl.req.subject
  <1>0. /\ OffersFit(offer) /\ WiresFit(wire, swapped) /\ UpdatesFit(update, swapped)
        /\ InstalledFit(version, running, self, swapped)
        /\ cl \in ClientRows /\ ClientFits(cl)
    BY TablesFit, InstalledNow DEF Inv, ClientPart
  <1>1. UNCHANGED <<wire, swapped, version, running, self>>
    BY ConsoleFrame
  <1>2. CASE UNCHANGED <<update, offer>>
    BY <1>0, <1>1, <1>2 DEF TablesAfter
  <1>3. CASE CommitOffers(c)
    <2> DEFINE matched == {d \in cl.devices : Platform[d] = ReleasePlatform[r]}
               row == [version |-> r, phase |-> "offered"]
    <2>1. /\ cl.pc = "write" /\ cl.req.op = "rollout" /\ offer' = offer
          /\ update' = [d \in Devices |-> IF d \in matched THEN row ELSE update[d]]
      BY <1>3 DEF CommitOffers, OfferDeviceUpdate, agents
    <2>2. r \in Fetchable /\ r \in Releases
      BY <1>0, <2>1 DEF ClientFits, Fetchable
    <2>3. ASSUME NEW d \in Devices, d \in matched PROVE UpdateFits(row, For(d), swapped[d])
      BY <2>2, <2>3 DEF UpdateFits, Phases, For
    <2>4. row \in [version : Releases \cup {Nil}, phase : Phases]
      BY <2>2 DEF Phases
    <2> HIDE DEF row, matched
    <2>5. UpdatesFit(update', swapped)
      BY <1>0, <2>1, <2>3, <2>4 DEF UpdatesFit
    <2> QED
      BY <1>0, <1>1, <2>1, <2>5 DEF TablesAfter
  <1>4. ASSUME NEW d \in Devices, PushOffer(c, d) PROVE TablesAfter
    <2> DEFINE o == [pc |-> "got", release |-> r, hosted |-> cl.hosted, attached |-> TRUE]
    <2>1. /\ cl.pc = "push" /\ d \in cl.devices /\ update' = update
          /\ offer' = offer \/ \E h \in Offers : offer' = [offer EXCEPT ![d][h] = o]
      <3>1. IdleSlots(d) # {} => (CHOOSE h \in IdleSlots(d) : TRUE) \in Offers
        BY DEF IdleSlots
      <3> QED
        BY <1>4, <3>1 DEF PushOffer
    <2>2. /\ r \in Fetchable /\ r \in Releases /\ (cl.hosted => r \in Hosted)
          /\ Platform[d] = ReleasePlatform[r] /\ cl.hosted \in BOOLEAN
      BY <1>0, <2>1 DEF ClientFits, Fetchable, ClientRows
    <2>3. OfferFits(o, For(d), Hosted)
      BY <2>2, MassActionAssumption DEF OfferFits, OfferRows, For
    <2> HIDE DEF o
    <2>4. OffersFit(offer')
      BY <1>0, <2>1, <2>3, OneOfferChanges
    <2> QED
      BY <1>0, <1>1, <2>1, <2>4 DEF TablesAfter
  <1>5. CASE \/ Ask(c) \/ Confirm(c) \/ CommitJobs(c) \/ WriteFails(c)
             \/ \E x \in Schedules : CommitSchedule(c, x)
    <2>1. UNCHANGED <<update, offer>>
      BY <1>5 DEF Ask, Confirm, CommitJobs, WriteFails, CommitSchedule, agents
    <2> QED
      BY <1>2, <2>1
  <1> QED
    BY <1>3, <1>4, <1>5 DEF Console, Handler

\* Offers that can be fetched, reports and versions that are true.
LEMMA TablesInv == Inv /\ [Next]_vars => OfferPart' /\ SwapPart'
  <1> SUFFICES ASSUME Inv, [Next]_vars PROVE OfferPart' /\ SwapPart'
    OBVIOUS
  <1>1. TablesAfter
    <2>1. CASE UNCHANGED <<offer, wire, update, version, running, self, swapped>>
      BY <2>1, TablesFit, InstalledNow DEF TablesAfter
    <2>2. ASSUME NEW d \in Devices, Agent(d) \/ Gateway(d) \/ Registry(d) PROVE TablesAfter
      BY <2>2, OfferSteps, ProcessSteps, GatewaySteps DEF Agent
    <2> QED
      BY <2>1, <2>2, NextSteps, ConsoleSteps, CatalogFrame, TimetableFrame, TickFrame
         DEF vars, fleet, agents
  <1>2. Fetchable \subseteq Fetchable' /\ Hosted \subseteq Hosted'
    BY CatalogInv
  <1>3. \A d \in Devices : For(d) \subseteq For(d)'
    BY <1>2 DEF For
  <1>4. /\ update' \in [Devices -> [version : Releases \cup {Nil}, phase : Phases]]
        /\ offer' \in [Devices -> [Offers -> OfferRows]]
        /\ wire' \in [Devices -> Seq(Frames)]
    BY <1>1 DEF TablesAfter, OffersFit, WiresFit, UpdatesFit
  <1>5. ASSUME NEW d \in Devices
        PROVE  /\ update'[d].version \in For(d)' \cup {Nil}
               /\ update'[d].phase = "applied" => update'[d].version \in swapped'[d]
               /\ \A h \in Offers : /\ offer'[d][h].release \in For(d)' \cup {Nil}
                                    /\ offer'[d][h].pc # "idle" => offer'[d][h].release # Nil
                                    /\ offer'[d][h].hosted => offer'[d][h].release \in Hosted'
               /\ \A i \in DOMAIN wire'[d] :
                    /\ wire'[d][i].version \in For(d)'
                    /\ wire'[d][i].phase = "APPLIED" => wire'[d][i].version \in swapped'[d]
    <2>1. UpdateFits(update'[d], For(d), swapped'[d]) /\ WireFits(wire'[d], For(d), swapped'[d])
      BY <1>1 DEF TablesAfter, UpdatesFit, WiresFit
    <2>2. \A h \in Offers : OfferFits(offer'[d][h], For(d), Hosted)
      BY <1>1 DEF TablesAfter, OffersFit
    <2>3. For(d) \subseteq For(d)'
      BY <1>3
    <2> QED
      BY <1>2, <2>1, <2>2, <2>3 DEF UpdateFits, WireFits, FrameFits, OfferFits
  <1>6. OfferPart'
    BY <1>4, <1>5 DEF OfferPart
  <1>7. InstalledFit(version', running', self', swapped')
    BY <1>1 DEF TablesAfter
  <1>8. SwapPart'
    BY <1>5, <1>7 DEF SwapPart, AppliedWasSwapped, InstalledFit
  <1> QED
    BY <1>6, <1>8

-----------------------------------------------------------------------------
(* The theorems.                                                           *)

\* The invariant is inductive.
LEMMA NextInv == Inv /\ [Next]_vars => Inv'
  BY FleetInv, CatalogInv, ClientInv, ShownInv, ScheduleInv, TablesInv DEF Inv

\* The properties follow from the invariant.
LEMMA InvImplies == Inv => RolloutInv /\ MassActsWereShown /\ OfferIsServable
  <1> SUFFICES ASSUME Inv PROVE RolloutInv /\ MassActsWereShown /\ OfferIsServable
    OBVIOUS
  <1>1. TypeOK
    <2>1. \A c \in Callers : /\ client[c].pc \in {"idle", "told", "write", "push"}
                             /\ client[c].devices \subseteq Enrolled
      BY DEF Inv, ClientPart, ClientRows, ClientFits
    <2> QED
      BY <2>1 DEF TypeOK, Inv, FleetPart, CatalogPart, SchedulePart, ScheduleRows, OfferPart, SwapPart,
         Enrolled, OfferRows, Frames
  <1>2. OfferIsServable
    <2>1. ASSUME NEW r \in Releases, r \in Fetchable
          PROVE  release[r].url \/ (release[r].key /\ blob[r] = Sha256[r])
      BY <2>1 DEF Inv, CatalogPart, Fetchable, Hosted
    <2>2. ASSUME NEW r \in Releases, r \in Hosted
          PROVE  release[r].key /\ blob[r] = Sha256[r]
      BY <2>2 DEF Inv, CatalogPart, Hosted
    <2>3. ASSUME NEW d \in Devices, NEW r \in Releases,
                 r \in {update[d].version} \cup {offer[d][h].release : h \in Offers}
          PROVE  r \in Fetchable /\ ReleasePlatform[r] = Platform[d]
      <3>1. r \in For(d) \cup {Nil}
        BY <2>3 DEF Inv, OfferPart
      <3> QED
        BY <3>1, MassActionAssumption DEF For
    <2>4. ASSUME NEW d \in Devices, NEW h \in Offers, offer[d][h].hosted
          PROVE  offer[d][h].release \in Hosted
      BY <2>4 DEF Inv, OfferPart
    <2> QED
      BY <2>1, <2>2, <2>3, <2>4 DEF OfferIsServable
  <1> QED
    BY <1>1, <1>2 DEF RolloutInv, Inv, ShownPart, SwapPart

\* Every behaviour keeps the invariant.
LEMMA SpecInv == Spec => []Inv
  BY InitInv, NextInv, PTL DEF Spec

\* Whatever offers, restarts and late reports cross each other, the rollout table and the fleet
\* view name no version that the agent had not put in place, and the row's phase is one the
\* database accepts (SetDeviceUpdatePhase, TouchDevice, OfferDeviceUpdate).
THEOREM RolloutTableIsTrue == Spec => []RolloutInv
  BY SpecInv, InvImplies, PTL

\* requireBlastRadiusAck: no dispatch, deployment, rollout or schedule of more than BlastRadius
\* devices is recorded unless a 409 not older than the token's lifetime showed that number for
\* that subject and that selector, for any fleet and however it changes in between; and a
\* schedule fires over no selector but one saved in it that way, whatever it covers by then.
THEOREM NoActUnshown == Spec => []MassActsWereShown
  BY SpecInv, InvImplies, PTL

\* handleRolloutRelease with the upload handler: what is offered to a device is a release for its
\* platform that has a URL or the registered bytes under its storage key.
THEOREM OffersAreServable == Spec => []OfferIsServable
  BY SpecInv, InvImplies, PTL
=============================================================================
