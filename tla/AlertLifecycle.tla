--------------------------- MODULE AlertLifecycle ---------------------------
(***************************************************************************)
(* The alerts of one tenant: the workers that evaluate policies            *)
(* (worker.evaluateAlerts, store/alerts.go) against each other, against    *)
(* the telemetry the agents upload and against the dashboard requests on   *)
(* policies, channels, alerts and devices.                                 *)
(*                                                                         *)
(* One evaluation is one transaction at READ COMMITTED: policies and       *)
(* telemetry are read when it begins, the firing alerts of a device when   *)
(* its turn comes, and what it writes is seen by others when it commits.   *)
(* An INSERT that meets an uncommitted row of the unique index             *)
(* alerts_dedup_firing, and an UPDATE of a locked row, wait and are served *)
(* first when the other transaction ends; a wait of more than lock_timeout *)
(* ends the transaction, and the worker tries again at its next tick, by   *)
(* when the transactions it met have ended: a tick comes every 30 seconds  *)
(* and the database ends a statement or an idle transaction after 15.      *)
(*                                                                         *)
(* Alert ids that no firing alert and no transaction refers to are used    *)
(* again.                                                                  *)
(***************************************************************************)
EXTENDS PolicyRules, Sequences, SequencesExt

CONSTANTS
  NIds,        \* rows of alerts kept (bound)
  NPolicies,   \* policies at a time (bound)
  Channels,
  Devices,     \* Place[d]: its [id, site, customer, tags]
  Place,
  Bodies,      \* policy bodies a request may carry
  Telemetry,   \* what the agents may report
  Workers,
  MaxEdits,    \* requests and changes of telemetry (bound)
  MaxFaults    \* evaluations that fail by themselves (bound)

ASSUME AlertAssumption ==
  /\ NIds \in Nat \ {0} /\ NPolicies \in Nat \ {0}
  /\ MaxEdits \in Nat /\ MaxFaults \in Nat
  /\ \A b \in Bodies : b.channels \subseteq Channels

Ids == 1 .. NIds
Policies == 1 .. NPolicies

VARIABLES
  alert,     \* alert[i]: the row of alerts, NoAlert if unused
  policies,  \* the policies by created_at
  channel,   \* ids in notification_channels
  tele,      \* tele[d]: the telemetry on record
  active,    \* devices with status 'active'
  notices,   \* notices[i][c, event]: rows of notification_deliveries
  tx,        \* tx[w]: the evaluation of worker w
  edits, faults

vars == <<alert, policies, channel, tele, active, notices, tx, edits, faults>>
tableVars == <<policies, channel, tele, active>>

Events   == {"fired", "resolved"}
NoAlert  == [key |-> Null, channels |-> {}, policy |-> Null, firing |-> FALSE, acked |-> FALSE]
NoNotice == [e \in Channels \X Events |-> 0]
\* The row of policies that a request body makes.
PolicyRow(id, body) ==
  [id |-> id, scope |-> body.scope, enabled |-> body.enabled, rules |-> body.rules,
   channels |-> body.channels]
NoTx     == [at |-> "idle", policies |-> <<>>, seen |-> <<>>, todo |-> {},
             configured |-> {}, evaluated |-> {}, found |-> {}, open |-> {}, left |-> {},
             inserted |-> <<>>, closed |-> {}, sent |-> {}, wait |-> Null, met |-> {}]

Firing      == {i \in Ids : alert[i].firing}
KeyOf(i)    == alert[i].key
TypeOf(key) == key[2]
\* Ids inserted or resolved by the uncommitted evaluation of w.
Inserted(w) == DOMAIN tx[w].inserted
Others(w)   == Workers \ {w}
\* The evaluation of v holds the key: by its insert, or by its resolve of the
\* alert that has it.
HoldsKey(v, key) == \/ \E i \in Inserted(v) : tx[v].inserted[i].key = key
                  \/ \E i \in tx[v].closed : KeyOf(i) = key
IsHeld(w, key) == \E v \in Others(w) : HoldsKey(v, key)
\* w gets the key: nobody holds it, and nobody waits for it longer.
Gets(w, key) ==
  /\ tx[w].wait \in {Null, key} /\ ~IsHeld(w, key)
  /\ tx[w].wait = Null => \A v \in Others(w) : tx[v].wait # key
Used == Firing \cup UNION {Inserted(w) \cup tx[w].left \cup tx[w].closed : w \in Workers}

TypeOK ==
  /\ \A i \in Ids : alert[i] = NoAlert \/ alert[i].channels \subseteq Channels
  /\ \A i \in DOMAIN policies : policies[i].id \in Policies
  /\ channel \subseteq Channels
  /\ tele \in [Devices -> Telemetry] /\ active \subseteq Devices
  /\ notices \in [Ids -> [Channels \X Events -> 0 .. 2]]
  /\ \A w \in Workers : /\ tx[w].at \in {"idle", "begun", "collected"}
                        /\ tx[w].closed \subseteq Firing
                        /\ Inserted(w) \cap Firing = {}
  /\ edits \in 0 .. MaxEdits /\ faults \in 0 .. MaxFaults

Init ==
  /\ alert = [i \in Ids |-> NoAlert]
  /\ \E b \in Bodies : ValidPolicy(b) /\ policies = <<PolicyRow(1, b)>>
  /\ channel = Channels
  /\ tele \in [Devices -> Telemetry] /\ active = Devices
  /\ notices = [i \in Ids |-> NoNotice]
  /\ tx = [w \in Workers |-> NoTx]
  /\ edits = 0 /\ faults = 0

-----------------------------------------------------------------------------
(* The dashboard and the agents.                                           *)

Edit == edits < MaxEdits /\ edits' = edits + 1

\* handleCreatePolicy.
CreatePolicy(body) ==
  LET IdsIn(ps) == {ps[i].id : i \in DOMAIN ps}
      free == Policies \ (IdsIn(policies) \cup UNION {IdsIn(tx[w].policies) : w \in Workers}) IN
  /\ Edit /\ ValidPolicy(body) /\ free # {}
  /\ policies' = Append(policies, PolicyRow(Min(free), body))
  /\ UNCHANGED <<alert, channel, tele, active, notices, tx, faults>>

\* handleUpdatePolicy: the row keeps its created_at.
UpdatePolicy(n, body) ==
  /\ Edit /\ ValidPolicy(body)
  /\ policies' = [policies EXCEPT ![n] = PolicyRow(@.id, body)]
  /\ UNCHANGED <<alert, channel, tele, active, notices, tx, faults>>

\* handleDeletePolicy waits for uncommitted alerts that reference the policy,
\* and sets the policy_id of the others to NULL.
DeletePolicy(n) ==
  LET p == policies[n].id IN
  /\ Edit
  /\ \A w \in Workers : \A i \in Inserted(w) : tx[w].inserted[i].policy # p
  /\ policies' = RemoveAt(policies, n)
  /\ alert' = [i \in Ids |-> IF alert[i].policy = p THEN [alert[i] EXCEPT !.policy = Null] ELSE alert[i]]
  /\ UNCHANGED <<channel, tele, active, notices, tx, faults>>

\* handleDeleteChannel waits for uncommitted deliveries to the channel and
\* takes the others along.
DeleteChannel(c) ==
  /\ Edit /\ c \in channel
  /\ \A w \in Workers : \A n \in tx[w].sent : n[2] # c
  /\ channel' = channel \ {c}
  /\ notices' = [i \in Ids |-> [e \in Channels \X Events |-> IF e[1] = c THEN 0 ELSE notices[i][e]]]
  /\ UNCHANGED <<alert, policies, tele, active, tx, faults>>

\* handleAckAlert, AckAlert; it waits for a row that an evaluation resolves.
AckAlert(i) ==
  /\ Edit /\ i \in Firing /\ ~alert[i].acked
  /\ \A w \in Workers : i \notin tx[w].closed
  /\ alert' = [alert EXCEPT ![i].acked = TRUE]
  /\ UNCHANGED <<tableVars, notices, tx, faults>>

DecommissionDevice(d) ==
  /\ Edit /\ d \in active
  /\ active' = active \ {d}
  /\ UNCHANGED <<alert, policies, channel, tele, notices, tx, faults>>

\* handleAgentStats, TouchDevice, or the passing of time over the last report.
Report(d, t) ==
  /\ Edit /\ tele[d] # t
  /\ tele' = [tele EXCEPT ![d] = t]
  /\ UNCHANGED <<alert, policies, channel, active, notices, tx, faults>>

-----------------------------------------------------------------------------
(* One evaluation.                                                         *)

\* ResolveAlertsForDecommissioned, then ListPolicies.
BeginEvaluation(w) ==
  LET gone == {i \in Firing : KeyOf(i)[1] \notin active} IN
  /\ tx[w].at = "idle" /\ tx[w].met = {}
  /\ \A i \in gone : ~IsHeld(w, KeyOf(i))
  /\ tx' = [tx EXCEPT ![w] = [NoTx EXCEPT !.at = "begun", !.policies = policies, !.closed = gone]]
  /\ UNCHANGED <<alert, tableVars, notices, edits, faults>>

CollectEvalDevices(w) ==
  /\ tx[w].at = "begun"
  /\ tx' = [tx EXCEPT ![w].at = "collected", ![w].todo = active, ![w].seen = [d \in active |-> tele[d]]]
  /\ UNCHANGED <<alert, tableVars, notices, edits, faults>>

DeviceDone(w) == tx[w].found = {} /\ tx[w].left = {}

\* The turn of device d: evaluate it and ListFiringAlertsForDevice.
EvaluateDevice(w, d) ==
  LET eff == EffectiveFor(tx[w].policies, Place[d])
      st  == EvalState(tx[w].seen[d])
      fs  == Evaluate(eff, d, st)
      mine == {i \in Firing \ tx[w].closed : KeyOf(i)[1] = d} IN
  /\ tx[w].at = "collected" /\ DeviceDone(w) /\ d \in tx[w].todo
  /\ tx' = [tx EXCEPT ![w].todo = @ \ {d}, ![w].configured = {rt \in RuleTypes : eff[rt] # Null},
       ![w].evaluated = Evaluated(eff, st),
       ![w].found = {f \in fs : f.key \notin {KeyOf(i) : i \in mine}},
       ![w].open = {f.key : f \in fs}, ![w].left = mine]
  /\ UNCHANGED <<alert, tableVars, notices, edits, faults>>

\* EnqueueDeliveries: channels that are gone are skipped.
EnqueueDeliveries(i, chans, event) ==
  {<<i, c, event>> : c \in chans \cap channel}

\* The row that OpenAlert inserts for the finding f.
NewAlert(f) ==
  [key |-> f.key, channels |-> f.channels, policy |-> f.policy, firing |-> TRUE, acked |-> FALSE]

\* A variant without the unique index.
OpenAlertTwice(w, f) ==
  LET i == Min(Ids \ Used) IN
  /\ f \in tx[w].found
  /\ \E n \in DOMAIN policies : policies[n].id = f.policy
  /\ Ids # Used
  /\ tx' = [tx EXCEPT ![w].found = @ \ {f},
               ![w].inserted = [j \in Inserted(w) \cup {i} |->
                                  IF j = i THEN NewAlert(f) ELSE tx[w].inserted[j]],
               ![w].sent = @ \cup EnqueueDeliveries(i, f.channels, "fired")]
  /\ UNCHANGED <<alert, tableVars, notices, edits, faults>>

\* OpenAlert for a finding that was not in the list; nothing happens if another
\* evaluation has opened it since.
OpenAlert(w, f) ==
  LET i == Min(Ids \ Used) IN
  /\ f \in tx[w].found /\ Gets(w, f.key)
  /\ \E n \in DOMAIN policies : policies[n].id = f.policy
  /\ Ids # Used
  /\ tx' = IF \E j \in Firing : KeyOf(j) = f.key
           THEN [tx EXCEPT ![w].found = @ \ {f}, ![w].wait = Null]
           ELSE [tx EXCEPT ![w].found = @ \ {f}, ![w].wait = Null,
               ![w].inserted = [j \in Inserted(w) \cup {i} |->
                                  IF j = i THEN NewAlert(f) ELSE tx[w].inserted[j]],
               ![w].sent = @ \cup EnqueueDeliveries(i, f.channels, "fired")]
  /\ UNCHANGED <<alert, tableVars, notices, edits, faults>>

\* A variant that leaves alerts of removed rules alone.
VerdictKeepsRemoved(w, i) ==
  IF KeyOf(i) \in tx[w].open \/ TypeOf(KeyOf(i)) \notin tx[w].evaluated THEN "keep" ELSE "announce"

\* What the loop over the listed alerts does with alert i: keep it, close it
\* silently because its rule is gone, or close and announce it.
Verdict(w, i) ==
  IF KeyOf(i) \in tx[w].open THEN "keep"
  ELSE IF TypeOf(KeyOf(i)) \notin tx[w].configured THEN "close"
  ELSE IF TypeOf(KeyOf(i)) \in tx[w].evaluated THEN "announce"
  ELSE "keep"

\* A variant that announces an alert that somebody else resolved.
ResolveAnyway(w, i) ==
  /\ tx[w].found = {} /\ i \in tx[w].left
  /\ Verdict(w, i) # "keep" => Gets(w, KeyOf(i))
  /\ tx' = [tx EXCEPT ![w].left = @ \ {i}, ![w].wait = Null,
       ![w].closed = IF Verdict(w, i) = "keep" \/ i \notin Firing THEN @ ELSE @ \cup {i},
       ![w].sent = IF Verdict(w, i) = "announce"
                   THEN @ \cup EnqueueDeliveries(i, alert[i].channels, "resolved") ELSE @]
  /\ UNCHANGED <<alert, tableVars, notices, edits, faults>>

\* One turn of that loop, with ResolveAlert.
ResolveAlert(w, i) ==
  /\ tx[w].found = {} /\ i \in tx[w].left
  /\ Verdict(w, i) # "keep" => i \in Firing /\ Gets(w, KeyOf(i))
  /\ tx' = [tx EXCEPT ![w].left = @ \ {i}, ![w].wait = Null,
       ![w].closed = IF Verdict(w, i) = "keep" THEN @ ELSE @ \cup {i},
       ![w].sent = IF Verdict(w, i) = "announce"
                   THEN @ \cup EnqueueDeliveries(i, alert[i].channels, "resolved") ELSE @]
  /\ UNCHANGED <<alert, tableVars, notices, edits, faults>>

\* A statement waits for a key that another evaluation holds.
AwaitKey(w, key) ==
  /\ tx[w].wait = Null /\ IsHeld(w, key)
  /\ \/ \E f \in tx[w].found : f.key = key
     \/ tx[w].found = {} /\ \E i \in tx[w].left : KeyOf(i) = key /\ Verdict(w, i) # "keep"
  /\ tx' = [tx EXCEPT ![w].wait = key]
  /\ UNCHANGED <<alert, tableVars, notices, edits, faults>>

\* The transaction of w ends; after a failure w lets those it met end first.
EndTx(w, met) ==
  tx' = [v \in Workers |-> IF v = w THEN [NoTx EXCEPT !.met = met] ELSE [tx[v] EXCEPT !.met = @ \ {w}]]

\* Alerts and deliveries commit together.
CommitEvaluation(w) ==
  /\ tx[w].at = "collected" /\ DeviceDone(w) /\ tx[w].todo = {}
  /\ alert' = [i \in Ids |-> IF i \in Inserted(w) THEN tx[w].inserted[i]
                             ELSE IF i \in tx[w].closed THEN [alert[i] EXCEPT !.firing = FALSE]
                             ELSE alert[i]]
  /\ notices' = [i \in Ids |-> [e \in Channels \X Events |->
       (IF i \in Inserted(w) THEN 0 ELSE notices[i][e]) + (IF <<i, e[1], e[2]>> \in tx[w].sent THEN 1 ELSE 0)]]
  /\ EndTx(w, {})
  /\ UNCHANGED <<tableVars, edits, faults>>

\* The transaction cannot go on: a key is held for too long, the alert to resolve
\* is no longer firing (ErrNotFound), or the policy of the alert to open is gone.
Doomed(w) ==
  \/ tx[w].wait # Null /\ IsHeld(w, tx[w].wait)
  \/ \E i \in tx[w].left : Verdict(w, i) # "keep" /\ i \notin Firing
  \/ \E f \in tx[w].found : \A n \in DOMAIN policies : policies[n].id # f.policy

EvaluationFails(w) ==
  /\ tx[w].at # "idle"
  /\ Doomed(w) \/ faults < MaxFaults
  /\ faults' = IF Doomed(w) THEN faults ELSE faults + 1
  /\ EndTx(w, {v \in Others(w) : tx[v].at # "idle"})
  /\ UNCHANGED <<alert, tableVars, notices, edits>>

-----------------------------------------------------------------------------
WorkerStep(w) ==
  \/ BeginEvaluation(w) \/ CollectEvalDevices(w) \/ CommitEvaluation(w)
  \/ \E d \in tx[w].todo : EvaluateDevice(w, d)
  \/ \E f \in tx[w].found : OpenAlert(w, f)
  \/ \E i \in tx[w].left : ResolveAlert(w, i) \/ AwaitKey(w, KeyOf(i))
  \/ \E f \in tx[w].found : AwaitKey(w, f.key)

DashboardStep ==
  \/ \E b \in Bodies : CreatePolicy(b)
  \/ \E n \in DOMAIN policies : DeletePolicy(n) \/ \E b \in Bodies : UpdatePolicy(n, b)
  \/ \E c \in Channels : DeleteChannel(c)
  \/ \E i \in Ids : AckAlert(i)
  \/ \E d \in Devices : DecommissionDevice(d)

Next ==
  \/ DashboardStep
  \/ \E d \in Devices, t \in Telemetry : Report(d, t)
  \/ \E w \in Workers : WorkerStep(w) \/ EvaluationFails(w)

Spec == Init /\ [][Next]_vars

\* Workers tick; a transaction that cannot go on is ended by the database.
FairSpec ==
  Spec /\ \A w \in Workers : WF_vars(WorkerStep(w) \/ (Doomed(w) /\ EvaluationFails(w)))

-----------------------------------------------------------------------------
(* Properties.                                                             *)

\* However evaluations overlap, a condition has one firing alert.
OneFiringAlert == \A i, j \in Firing : KeyOf(i) = KeyOf(j) => i = j

\* A channel hears of an alert at most once that it fired and at most once that
\* it is resolved, of the latter only if the alert is, and only a channel that
\* heard of the former: the channels are those captured when it fired.
NoticesPair ==
  \A i \in Ids, c \in Channels :
    /\ notices[i][<<c, "resolved">>] <= notices[i][<<c, "fired">>]
    /\ notices[i][<<c, "fired">>] <= 1
    /\ notices[i][<<c, "resolved">>] = 1 => i \notin Firing

\* Of the policies that apply to a device and define a rule the one of the
\* nearest scope is used, and of those the newest.
NearestPolicyWins ==
  \A d \in Devices, rt \in RuleTypes :
    LET Rank(n) == ScopeRank(policies[n].scope.type)
        cs   == {n \in Applicable(policies, Place[d]) : Defines(policies[n], rt)}
        best == {n \in cs : \A m \in cs : Rank(m) <= Rank(n)}
        won  == EffectiveFor(policies, Place[d])[rt] IN
    IF cs = {} THEN won = Null ELSE won = policies[Max(best)]

\* The firing alerts of d are its conditions that hold and those that its
\* telemetry is too old to tell of; a device that is gone has none.
AlertsMatch(d) ==
  LET eff  == EffectiveFor(policies, Place[d])
      st   == EvalState(tele[d])
      now  == IF d \in active THEN {f.key : f \in Evaluate(eff, d, st)} ELSE {}
      unknown == {rt \in RuleTypes : d \in active /\ eff[rt] # Null} \ Evaluated(eff, st)
      have == {k \in {KeyOf(i) : i \in Firing} : k[1] = d} IN
  now \subseteq have /\ \A k \in have \ now : TypeOf(k) \in unknown

\* Once requests and reports stop, the alerts settle to what the conditions are,
\* whichever evaluations were rolled back on the way or worked on old telemetry.
AlertsSettle == <>[](\A d \in Devices : AlertsMatch(d))

\* The rules shown for a device are the rules its alerts are evaluated with: the
\* two copies of the merge agree, as long as no policy has a null rule, which
\* the display counts and the evaluation skips.  (inventory_handlers.go:
\* "effectiveRulesJSON mirrors the worker's merge for display".)
DisplayMirrorsMerge ==
  \A d \in Devices :
    (\A n \in Applicable(policies, Place[d]) :
       \A rt \in DOMAIN policies[n].rules : policies[n].rules[rt] # Null)
      => EffectiveRulesJSON(policies, Place[d]) = EffectiveFor(policies, Place[d])

\* What the partial unique index and the row locks keep under concurrent
\* evaluations: no alert is resolved by two of them, none opened twice.
AlertInv == TypeOK /\ OneFiringAlert

\* Both copies of the merge, the alerts' and the dashboard's, give every rule to
\* the policy it belongs to.
MergeIsRight == NearestPolicyWins /\ DisplayMirrorsMerge
=============================================================================
