------------------------- MODULE DeploymentReconcile ------------------------
(***************************************************************************)
(* Rule-based app deployment: the workers that reconcile rules             *)
(* (worker/deployments.go, store/apps.go) against what they read: the      *)
(* inventory the agents upload (api.handleAgentInventory, agent            *)
(* uploadInventory) and the install jobs, whose own life is JobLifecycle.  *)
(*                                                                         *)
(* Rows a transaction writes are seen by others when it commits; a claimed *)
(* rule is locked until then.  Times are ages in clock units: an age at    *)
(* its cap is older than anything compares with.                           *)
(***************************************************************************)
EXTENDS Naturals, FiniteSets

CONSTANTS
  Rules, Packages, Devices, Names, Tags,
  Defs,         \* package bodies: install and detection names, os
  Bodies,       \* rule bodies: package, scope, tag filter, enabled
  OS,           \* OS[d]: the platform of device d
  Workers,
  Uploads,      \* inventory uploads of all devices under way at a time (bound)
  Interval,     \* a rule is due again after this (an hour)
  Window,       \* a success counts as in flight for this long (a day)
  MaxFaults,    \* failed transactions, failed installs and lost results (bound)
  MaxEdits,     \* dashboard edits and changes on the devices (bound)
  None

ASSUME DeploymentAssumption ==
  /\ Defs \subseteq [install : (SUBSET Names) \ {{}}, detect : SUBSET Names, os : {OS[d] : d \in Devices}]
  /\ Bodies \subseteq [package : Packages, scope : SUBSET Devices,
                       tags : SUBSET Tags, match : {"any", "all"}, enabled : BOOLEAN]
  /\ Interval \in Nat \ {0} /\ Window \in Nat
  /\ MaxFaults \in Nat /\ MaxEdits \in Nat
  /\ None \notin Rules \cup Devices \cup Defs \cup [body : Bodies, age : 0 .. Interval]
  /\ \A names \in SUBSET Names : None # names

Specs == {def.install : def \in Defs}

VARIABLES
  pkg,        \* pkg[p]: [def, archived], the app_packages row
  rule,       \* rule[r]: [body, age], age since last_run_at; None without a row
  tags,       \* devices.tags
  active,     \* devices with status 'active'
  inventory,  \* inventory[d]: [names, age] of inventory_sw, names None without a row
  upload,     \* upload[u]: [device, names] collected and not yet stored
  queued,     \* queued[d][spec]: rules whose install job is pending, sent or running
  success,    \* success[d][spec]: age of the last succeeded install job
  tx,         \* tx[w]: the reconciling transaction
  faults, edits,
  installed,  \* what is on the device
  unreported  \* devices with an install the server got no result of (history)

vars == <<pkg, rule, tags, active, inventory, upload, queued, success, tx,
          faults, edits, installed, unreported>>
rowVars  == <<pkg, rule, tags, active>>
jobVars  == <<queued, success>>
invVars  == <<inventory, upload>>
realVars == <<installed, unreported>>

NoUpload == [device |-> None, names |-> {}]
NoTx     == [held |-> {}, todo |-> {}, rule |-> None, def |-> None, left |-> {}, made |-> {}]
Aged(n, cap) == IF n < cap THEN n + 1 ELSE cap

Live   == {r \in Rules : rule[r] # None}
Locked == UNION {tx[w].held : w \in Workers}

TypeOK ==
  /\ pkg \in [Packages -> [def : Defs, archived : BOOLEAN]]
  /\ rule \in [Rules -> {None} \cup [body : Bodies, age : 0 .. Interval]]
  /\ tags \in [Devices -> SUBSET Tags] /\ active \subseteq Devices
  /\ inventory \in [Devices -> [names : (SUBSET Names) \cup {None}, age : 0 .. Window]]
  /\ upload \in [Uploads -> {NoUpload} \cup [device : Devices, names : SUBSET Names]]
  /\ queued \in [Devices -> [Specs -> SUBSET Rules]]
  /\ success \in [Devices -> [Specs -> 0 .. Window]]
  /\ \A w \in Workers : /\ tx[w].held \subseteq Live
                        /\ tx[w].todo \subseteq tx[w].held
                        /\ tx[w].made \subseteq tx[w].held \X Devices \X Specs
  /\ faults \in 0 .. MaxFaults /\ edits \in 0 .. MaxEdits
  /\ installed \in [Devices -> SUBSET Names] /\ unreported \subseteq Devices

\* Devices come with software on them and without an inventory on record.
Init ==
  /\ pkg \in [Packages -> [def : Defs, archived : {FALSE}]]
  /\ rule \in [Rules -> [body : Bodies, age : {Interval}]]
  /\ tags \in [Devices -> SUBSET Tags] /\ active = Devices
  /\ inventory = [d \in Devices |-> [names |-> None, age |-> 0]]
  /\ upload = [u \in Uploads |-> NoUpload]
  /\ queued = [d \in Devices |-> [s \in Specs |-> {}]]
  /\ success = [d \in Devices |-> [s \in Specs |-> Window]]
  /\ tx = [w \in Workers |-> NoTx]
  /\ faults = 0 /\ edits = 0
  /\ installed \in [Devices -> SUBSET Names] /\ unreported = {}

-----------------------------------------------------------------------------
(* The dashboard.  An UPDATE or DELETE of a claimed rule waits.            *)

Edit == edits < MaxEdits /\ edits' = edits + 1

\* handleCreateDeploymentRule (last_run_at NULL), handleUpdateDeploymentRule.
SaveRule(r, body) ==
  /\ Edit /\ r \notin Locked
  /\ rule' = [rule EXCEPT ![r] = [body |-> body,
                                  age |-> IF r \in Live THEN rule[r].age ELSE Interval]]
  /\ UNCHANGED <<pkg, tags, active, invVars, jobVars, tx, faults, realVars>>

DeleteRule(r) ==
  /\ Edit /\ r \in Live /\ r \notin Locked
  /\ rule' = [rule EXCEPT ![r] = None]
  /\ UNCHANGED <<pkg, tags, active, invVars, jobVars, tx, faults, realVars>>

\* handleUpdateAppPackage, handleArchiveAppPackage: not of an archived package.
SavePackage(p, def, archive) ==
  /\ Edit /\ ~pkg[p].archived
  /\ pkg' = [pkg EXCEPT ![p] = [def |-> def, archived |-> archive]]
  /\ UNCHANGED <<rule, tags, active, invVars, jobVars, tx, faults, realVars>>

SetDeviceTags(d, ts) ==
  /\ Edit /\ tags[d] # ts
  /\ tags' = [tags EXCEPT ![d] = ts]
  /\ UNCHANGED <<pkg, rule, active, invVars, jobVars, tx, faults, realVars>>

DecommissionDevice(d) ==
  /\ Edit /\ d \in active
  /\ active' = active \ {d}
  /\ UNCHANGED <<pkg, rule, tags, invVars, jobVars, tx, faults, realVars>>

-----------------------------------------------------------------------------
(* The devices.                                                            *)

\* An install job ends: succeeded, failed, or done without the result ever
\* reaching the server, in which case the sweep expires the job.
EndInstall(d, spec, r, end) ==
  /\ r \in queued[d][spec]
  /\ end # "succeeded" => faults < MaxFaults
  /\ faults' = IF end = "succeeded" THEN faults ELSE faults + 1
  /\ queued' = [queued EXCEPT ![d][spec] = @ \ {r}]
  /\ success' = IF end = "succeeded" THEN [success EXCEPT ![d][spec] = 0] ELSE success
  /\ installed' = IF end = "failed" THEN installed ELSE [installed EXCEPT ![d] = @ \cup spec]
  /\ unreported' = IF end = "lost" THEN unreported \cup {d} ELSE unreported
  /\ UNCHANGED <<rowVars, invVars, tx, edits>>

\* Somebody at the device puts a package on it.
InstallByHand(d, n) ==
  /\ Edit /\ n \notin installed[d]
  /\ installed' = [installed EXCEPT ![d] = @ \cup {n}]
  /\ unreported' = unreported \cup {d}
  /\ UNCHANGED <<rowVars, invVars, jobVars, tx, faults>>

\* A user, or a package_remove job, takes the app away.
Uninstall(d, n) ==
  /\ Edit /\ n \in installed[d]
  /\ installed' = [installed EXCEPT ![d] = @ \ {n}]
  /\ UNCHANGED <<rowVars, invVars, jobVars, tx, faults, unreported>>

\* uploadInventory collects: on start, every half day and on request, each in
\* a goroutine of its own.
CollectInventory(u, d) ==
  /\ upload[u] = NoUpload
  /\ upload' = [upload EXCEPT ![u] = [device |-> d, names |-> installed[d]]]
  /\ UNCHANGED <<rowVars, inventory, jobVars, tx, faults, edits, realVars>>

\* A variant that adds to the stored list.
StoreMerges(u) ==
  /\ upload[u] # NoUpload /\ upload[u].device \in active
  /\ LET d == upload[u].device IN
     inventory' = [inventory EXCEPT ![d] =
       [names |-> upload[u].names \cup (IF @.names = None THEN {} ELSE @.names), age |-> 0]]
  /\ upload' = [upload EXCEPT ![u] = NoUpload]
  /\ UNCHANGED <<rowVars, jobVars, tx, faults, edits, realVars>>

\* handleAgentInventory: an active device's upload replaces the row, whichever
\* of two was collected later.
StoreInventory(u) ==
  /\ upload[u] # NoUpload /\ upload[u].device \in active
  /\ inventory' = [inventory EXCEPT ![upload[u].device] = [names |-> upload[u].names, age |-> 0]]
  /\ upload' = [upload EXCEPT ![u] = NoUpload]
  /\ UNCHANGED <<rowVars, jobVars, tx, faults, edits, realVars>>

\* The request is refused or lost.
UploadFails(u) ==
  /\ upload[u] # NoUpload
  /\ upload[u].device \notin active \/ faults < MaxFaults
  /\ faults' = IF upload[u].device \in active THEN faults + 1 ELSE faults
  /\ upload' = [upload EXCEPT ![u] = NoUpload]
  /\ UNCHANGED <<rowVars, inventory, jobVars, tx, edits, realVars>>

-----------------------------------------------------------------------------
(* The workers.                                                            *)

DueRules == {r \in Live : /\ rule[r].body.enabled
                          /\ ~pkg[rule[r].body.package].archived
                          /\ rule[r].age = Interval}

\* A variant that takes rules other workers have claimed.
ClaimLocked(w) ==
  /\ tx[w] = NoTx /\ DueRules # {}
  /\ tx' = [tx EXCEPT ![w] = [NoTx EXCEPT !.held = DueRules, !.todo = DueRules]]
  /\ UNCHANGED <<rowVars, invVars, jobVars, faults, edits, realVars>>

\* ClaimDueDeploymentRules, SKIP LOCKED (the limit of 100 is not reached).
ClaimDueDeploymentRules(w) ==
  /\ tx[w] = NoTx /\ DueRules \ Locked # {}
  /\ tx' = [tx EXCEPT ![w] = [NoTx EXCEPT !.held = DueRules \ Locked, !.todo = DueRules \ Locked]]
  /\ UNCHANGED <<rowVars, invVars, jobVars, faults, edits, realVars>>

TagsMatch(have, want, match) ==
  IF match = "all" THEN want \subseteq have ELSE want \cap have # {}

\* deviceMatchesRule.
DeviceMatchesRule(d, body, def) ==
  /\ OS[d] = def.os
  /\ body.tags # {} => TagsMatch(tags[d], body.tags, body.match)

\* reconcileRule up to its loop: an archived package ends it, otherwise the
\* active devices in scope are read once.
ReconcileRule(w, r) ==
  LET body == rule[r].body
      def  == pkg[body.package].def IN
  /\ r \in tx[w].todo /\ tx[w].left = {}
  /\ tx' = [tx EXCEPT ![w].todo = @ \ {r}, ![w].rule = r, ![w].def = def,
       ![w].left = IF pkg[body.package].archived THEN {}
                   ELSE {d \in body.scope \cap active : DeviceMatchesRule(d, body, def)}]
  /\ UNCHANGED <<rowVars, invVars, jobVars, faults, edits, realVars>>

DetectNames(def) == IF def.detect = {} THEN def.install ELSE def.detect

\* deviceHasApp: every detection name is in the inventory on record.
DeviceHasApp(d, def) ==
  inventory[d].names # None /\ DetectNames(def) \subseteq inventory[d].names

\* A variant that forgets the window of a recent success.
InFlightNow(w, d, spec) ==
  \E s \in Specs : /\ s \cap spec # {}
                   /\ \/ queued[d][s] # {}
                      \/ \E r \in tx[w].held : <<r, d, s>> \in tx[w].made

\* DeviceHasInstallInFlight: committed jobs and this transaction's own that
\* share a package name, queued or succeeded within the window.
DeviceHasInstallInFlight(w, d, spec) ==
  \E s \in Specs : /\ s \cap spec # {}
                   /\ \/ queued[d][s] # {}
                      \/ success[d][s] < Window
                      \/ \E r \in tx[w].held : <<r, d, s>> \in tx[w].made

\* One turn of the loop over the devices: CreatePackageJob unless the app is
\* there or on its way.
CheckDevice(w, d) ==
  LET spec == tx[w].def.install IN
  /\ d \in tx[w].left
  /\ tx' = [tx EXCEPT ![w].left = @ \ {d},
       ![w].made = IF DeviceHasApp(d, tx[w].def) \/ DeviceHasInstallInFlight(w, d, spec)
                   THEN @ ELSE @ \cup {<<tx[w].rule, d, spec>>}]
  /\ UNCHANGED <<rowVars, invVars, jobVars, faults, edits, realVars>>

\* The transaction commits: last_run_at and the jobs together.
CommitRules(w) ==
  /\ tx[w] # NoTx /\ tx[w].todo = {} /\ tx[w].left = {}
  /\ rule' = [r \in Rules |-> IF r \in tx[w].held THEN [rule[r] EXCEPT !.age = 0] ELSE rule[r]]
  /\ queued' = [d \in Devices |-> [s \in Specs |->
                  queued[d][s] \cup {r \in tx[w].held : <<r, d, s>> \in tx[w].made}]]
  /\ tx' = [tx EXCEPT ![w] = NoTx]
  /\ UNCHANGED <<pkg, tags, active, invVars, success, faults, edits, realVars>>

ReconcileFails(w) ==
  /\ tx[w] # NoTx /\ faults < MaxFaults
  /\ faults' = faults + 1
  /\ tx' = [tx EXCEPT ![w] = NoTx]
  /\ UNCHANGED <<rowVars, invVars, jobVars, edits, realVars>>

\* Time passes, for devices that are offline or whose uploads fail too.  No
\* transaction lasts a clock unit, nor does an upload: the database ends a
\* statement, or an idle transaction, after 15 seconds, and the agent's HTTP
\* client gives up after 30.
Tick ==
  /\ \A w \in Workers : tx[w] = NoTx
  /\ \A u \in Uploads : upload[u] = NoUpload
  /\ rule' = [r \in Rules |-> IF r \in Live THEN [rule[r] EXCEPT !.age = Aged(@, Interval)] ELSE None]
  /\ inventory' = [d \in Devices |-> [inventory[d] EXCEPT !.age = Aged(@, Window)]]
  /\ success' = [d \in Devices |-> [s \in Specs |-> Aged(success[d][s], Window)]]
  /\ UNCHANGED <<pkg, tags, active, upload, queued, tx, faults, edits, realVars>>

-----------------------------------------------------------------------------
WorkerStep(w) == \/ ClaimDueDeploymentRules(w)
                 \/ \E r \in tx[w].todo : ReconcileRule(w, r)
                 \/ \E d \in tx[w].left : CheckDevice(w, d)
                 \/ CommitRules(w)

AgentInstalls(d) ==
  d \in active /\ \E s \in Specs, r \in Rules : EndInstall(d, s, r, "succeeded")

Next ==
  \/ \E r \in Rules : DeleteRule(r) \/ \E body \in Bodies : SaveRule(r, body)
  \/ \E p \in Packages, def \in Defs, a \in BOOLEAN : SavePackage(p, def, a)
  \/ \E d \in Devices : \/ DecommissionDevice(d)
                        \/ \E ts \in SUBSET Tags : SetDeviceTags(d, ts)
                        \/ \E n \in Names : InstallByHand(d, n) \/ Uninstall(d, n)
                        \/ \E u \in Uploads : CollectInventory(u, d)
  \/ \E d \in Devices, s \in Specs, r \in Rules, end \in {"succeeded", "failed", "lost"} :
       EndInstall(d, s, r, end)
  \/ \E u \in Uploads : StoreInventory(u) \/ UploadFails(u)
  \/ \E w \in Workers : WorkerStep(w) \/ ReconcileFails(w)
  \/ Tick

Spec == Init /\ [][Next]_vars

\* Workers run, agents run their installs and upload, time passes; nobody owes
\* an edit, and only boundedly many steps fail.
FairSpec ==
  /\ Spec /\ SF_vars(Tick)
  /\ \A w \in Workers : WF_vars(WorkerStep(w))
  /\ \A u \in Uploads : WF_vars(StoreInventory(u))
  /\ \A d \in Devices : WF_vars(AgentInstalls(d)) /\ WF_vars(\E u \in Uploads : CollectInventory(u, d))

-----------------------------------------------------------------------------
(* Properties.                                                             *)

\* Nothing makes a package's detection names be among the names it installs.
DetectsItsOwn(def) == DetectNames(def) \subseteq def.install

Wants(r, d) ==
  /\ r \in Live /\ rule[r].body.enabled /\ ~pkg[rule[r].body.package].archived
  /\ d \in rule[r].body.scope \cap active
  /\ DeviceMatchesRule(d, rule[r].body, pkg[rule[r].body.package].def)

\* One rule never has two installs that share a package on their way to a
\* device, however often it is reconciled and whatever its package becomes.
NoPileOn ==
  \A d \in Devices, r \in Rules : \A s, t \in Specs :
    (r \in queued[d][s] /\ r \in queued[d][t]) => (s = t \/ s \cap t = {})

\* An install is queued for an app that is on an active device, if the app is
\* detected by what it installs, only where the server cannot know: it got no
\* result of an install there, or has no inventory younger than the window in
\* which a success counts.  Two workers, an upload that overtakes an install
\* and one that is stored late make no difference.
NoNeedlessInstall ==
  [][\A w \in Workers : \A m \in tx'[w].made \ tx[w].made :
       (/\ m[2] \in active /\ DetectsItsOwn(tx[w].def)
        /\ DetectNames(tx[w].def) \subseteq installed[m[2]])
         => \/ m[2] \in unreported
            \/ inventory[m[2]].names = None
            \/ inventory[m[2]].age >= Window]_vars

\* An app a rule wants on a device, detected by what it installs, gets there,
\* or the rule stops wanting it.
Converges ==
  \A r \in Rules, d \in Devices :
    Wants(r, d) ~> \/ ~Wants(r, d)
                   \/ ~DetectsItsOwn(pkg[rule[r].body.package].def)
                   \/ DetectNames(pkg[rule[r].body.package].def) \subseteq installed[d]

\* What the claims of ClaimDueDeploymentRules keep: a claimed rule stays until
\* the commit, and no rule piles installs on a device.
DeploymentInv == TypeOK /\ NoPileOn
=============================================================================
