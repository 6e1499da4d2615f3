---------------------- MODULE DeploymentReconcileProofs ---------------------
(***************************************************************************)
(* Theorems about DeploymentReconcile, for any number of rules, packages,  *)
(* devices and workers, any bodies of rules and packages, and every bound. *)
(***************************************************************************)
EXTENDS DeploymentReconcile, TLAPS

\* The tables, without the transactions.
TablePart ==
  /\ pkg \in [Packages -> [def : Defs, archived : BOOLEAN]]
  /\ rule \in [Rules -> {None} \cup [body : Bodies, age : 0 .. Interval]]
  /\ tags \in [Devices -> SUBSET Tags] /\ active \subseteq Devices
  /\ inventory \in [Devices -> [names : (SUBSET Names) \cup {None}, age : 0 .. Window]]
  /\ upload \in [Uploads -> {NoUpload} \cup [device : Devices, names : SUBSET Names]]
  /\ queued \in [Devices -> [Specs -> SUBSET Rules]]
  /\ success \in [Devices -> [Specs -> 0 .. Window]]
  /\ faults \in 0 .. MaxFaults /\ edits \in 0 .. MaxEdits
  /\ installed \in [Devices -> SUBSET Names] /\ unreported \subseteq Devices

Txs == [held : SUBSET Rules, todo : SUBSET Rules, rule : Rules \cup {None},
        def : Defs \cup {None}, left : SUBSET Devices,
        made : SUBSET (Rules \X Devices \X Specs)]

\* The transaction t of a worker, when the rules that exist are live: what it
\* works on is claimed, and in the loop over the devices it has a rule and a
\* package body.
TxFits(t, live) ==
  /\ t.held \subseteq live /\ t.todo \subseteq t.held
  /\ t.made \subseteq t.held \X Devices \X Specs
  /\ t.left # {} => t.rule \in t.held /\ t.def \in Defs

\* No rule is claimed twice.
ClaimPart ==
  /\ tx \in [Workers -> Txs]
  /\ \A w \in Workers : TxFits(tx[w], Live)
  /\ \A v, w \in Workers : v # w => tx[v].held \cap tx[w].held = {}

\* Two sets of packages that are different and share one.
Clash(s, t) == s # t /\ s \cap t # {}

\* A job that t will add clashes with none of its rule for the device, neither
\* of the jobs on record nor of those it will add as well.
AddsClear(t, jobs) ==
  \A r \in Rules, d \in Devices, s, u \in Specs :
    <<r, d, s>> \in t.made /\ Clash(s, u) => r \notin jobs[d][u] /\ <<r, d, u>> \notin t.made

\* The inductive invariant.
PilePart == NoPileOn /\ \A w \in Workers : AddsClear(tx[w], queued)
Inv == TablePart /\ ClaimPart /\ PilePart

-----------------------------------------------------------------------------
\* The sets a package body installs are sets of names, none of them empty.
LEMMA SpecsAreNames == \A s \in Specs : s \subseteq Names /\ s # {}
  BY DeploymentAssumption DEF Specs

\* An idle worker holds nothing.
LEMMA NoTxFits ==
  /\ NoTx \in Txs
  /\ \A live : TxFits(NoTx, live)
  /\ \A jobs : AddsClear(NoTx, jobs)
  BY DEF NoTx, Txs, TxFits, AddsClear

\* The first state satisfies the invariant.
LEMMA InitInv == Init => Inv
  <1> SUFFICES ASSUME Init PROVE Inv
    OBVIOUS
  <1> USE DeploymentAssumption
  <1>1. TablePart
    <2>1. pkg \in [Packages -> [def : Defs, archived : BOOLEAN]]
      BY DEF Init
    <2>2. rule \in [Rules -> {None} \cup [body : Bodies, age : 0 .. Interval]]
      <3>1. rule \in [Rules -> [body : Bodies, age : {Interval}]]
        BY DEF Init
      <3>2. [body : Bodies, age : {Interval}] \subseteq [body : Bodies, age : 0 .. Interval]
        OBVIOUS
      <3> QED
        BY <3>1, <3>2
    <2>3. inventory \in [Devices -> [names : (SUBSET Names) \cup {None}, age : 0 .. Window]]
      BY DEF Init
    <2>4. success \in [Devices -> [Specs -> 0 .. Window]]
      BY DEF Init
    <2> QED
      BY <2>1, <2>2, <2>3, <2>4 DEF Init, TablePart
  <1>2. ClaimPart
    BY NoTxFits DEF Init, ClaimPart, NoTx
  <1>3. PilePart
    BY NoTxFits DEF Init, PilePart, NoPileOn
  <1> QED
    BY <1>1, <1>2, <1>3 DEF Inv

-----------------------------------------------------------------------------
(* Steps outside the transactions.                                         *)

\* Transactions stay in order while what they have claimed stays.
LEMMA ClaimFrame ==
  ASSUME ClaimPart, UNCHANGED tx, Locked \cap Live \subseteq Live'
  PROVE  ClaimPart'
  BY DEF ClaimPart, TxFits, Locked

\* Jobs that end make room.
LEMMA PileFrame ==
  ASSUME PilePart, UNCHANGED tx,
         \A d \in Devices, s \in Specs : queued'[d][s] \subseteq queued[d][s]
  PROVE  PilePart'
  BY DEF PilePart, NoPileOn, AddsClear

\* The dashboard: rules, packages, tags and devices.
LEMMA DashboardInv ==
  ASSUME Inv,
         \/ \E r \in Rules : DeleteRule(r) \/ \E body \in Bodies : SaveRule(r, body)
         \/ \E p \in Packages, def \in Defs, a \in BOOLEAN : SavePackage(p, def, a)
         \/ \E d \in Devices : DecommissionDevice(d) \/ \E ts \in SUBSET Tags : SetDeviceTags(d, ts)
  PROVE  Inv'
  <1> USE DeploymentAssumption DEF Inv
  <1>0. /\ edits' \in 0 .. MaxEdits
        /\ UNCHANGED <<inventory, upload, queued, success, tx, faults, installed, unreported>>
    BY DEF DeleteRule, SaveRule, SavePackage, DecommissionDevice, SetDeviceTags, Edit, TablePart,
           invVars, jobVars, realVars
  <1>1. PilePart'
    BY <1>0, PileFrame
  <1>2. CASE \E r \in Rules : DeleteRule(r)
    <2> PICK r \in Rules : DeleteRule(r)
      BY <1>2
    <2>1. TablePart'
      BY <1>0 DEF DeleteRule, TablePart
    <2>2. Live \ {r} \subseteq Live' /\ r \notin Locked
      BY DEF DeleteRule, Live, TablePart
    <2> QED
      BY <1>0, <1>1, <2>1, <2>2, ClaimFrame
  <1>3. CASE \E r \in Rules : \E body \in Bodies : SaveRule(r, body)
    <2> PICK r \in Rules, body \in Bodies : SaveRule(r, body)
      BY <1>3
    <2>1. /\ rule' = [rule EXCEPT ![r] = [body |-> body, age |-> IF r \in Live THEN rule[r].age ELSE Interval]]
          /\ (IF r \in Live THEN rule[r].age ELSE Interval) \in 0 .. Interval
          /\ UNCHANGED <<pkg, tags, active>>
      BY DEF SaveRule, TablePart, Live
    <2>2. TablePart'
      BY <1>0, <2>1 DEF TablePart
    <2>3. Live \subseteq Live'
      BY <2>1 DEF Live, TablePart
    <2> QED
      BY <1>0, <1>1, <2>2, <2>3, ClaimFrame
  <1>4. CASE \E p \in Packages, def \in Defs, a \in BOOLEAN : SavePackage(p, def, a)
    <2>1. TablePart' /\ UNCHANGED rule
      BY <1>0, <1>4 DEF SavePackage, TablePart
    <2> QED
      BY <1>0, <1>1, <2>1, ClaimFrame DEF Live
  <1>5. CASE \E d \in Devices : DecommissionDevice(d)
    <2>1. TablePart' /\ UNCHANGED rule
      BY <1>0, <1>5 DEF DecommissionDevice, TablePart
    <2> QED
      BY <1>0, <1>1, <2>1, ClaimFrame DEF Live
  <1>6. CASE \E d \in Devices : \E ts \in SUBSET Tags : SetDeviceTags(d, ts)
    <2> PICK d \in Devices, ts \in SUBSET Tags : SetDeviceTags(d, ts)
      BY <1>6
    <2>1. tags' \in [Devices -> SUBSET Tags] /\ UNCHANGED <<pkg, rule, active>>
      BY DEF SetDeviceTags, TablePart
    <2>2. TablePart'
      BY <1>0, <2>1 DEF TablePart
    <2> QED
      BY <1>0, <1>1, <2>1, <2>2, ClaimFrame DEF Live
  <1> QED
    BY <1>2, <1>3, <1>4, <1>5, <1>6

\* The devices: installs, removals and uploads.
LEMMA DeviceInv ==
  ASSUME Inv,
         \/ \E d \in Devices : \/ \E n \in Names : InstallByHand(d, n) \/ Uninstall(d, n)
                               \/ \E u \in Uploads : CollectInventory(u, d)
         \/ \E d \in Devices, s \in Specs, r \in Rules, end \in {"succeeded", "failed", "lost"} :
              EndInstall(d, s, r, end)
         \/ \E u \in Uploads : StoreInventory(u) \/ UploadFails(u)
  PROVE  Inv'
  <1> USE DeploymentAssumption DEF Inv
  <1>0. UNCHANGED <<pkg, rule, tags, active, tx>> /\ Live' = Live
    BY DEF InstallByHand, Uninstall, CollectInventory, EndInstall, StoreInventory, UploadFails, rowVars, Live
  <1>1. ClaimPart'
    BY <1>0, ClaimFrame
  <1>2. CASE \E d \in Devices : \E n \in Names : InstallByHand(d, n) \/ Uninstall(d, n)
    <2>0. PICK d \in Devices, n \in Names : InstallByHand(d, n) \/ Uninstall(d, n)
      BY <1>2
    <2>2. installed' \in [Devices -> SUBSET Names]
      <3>1. \/ installed' = [installed EXCEPT ![d] = @ \cup {n}]
            \/ installed' = [installed EXCEPT ![d] = @ \ {n}]
        BY <2>0 DEF InstallByHand, Uninstall
      <3>2. installed[d] \cup {n} \subseteq Names /\ installed[d] \ {n} \subseteq Names
        BY DEF TablePart
      <3> QED
        BY <3>1, <3>2 DEF TablePart
    <2>1. TablePart' /\ UNCHANGED queued
      BY <1>0, <2>0, <2>2 DEF InstallByHand, Uninstall, Edit, TablePart, invVars, jobVars
    <2> QED
      BY <1>0, <1>1, <2>1, PileFrame
  <1>3. CASE \E d \in Devices : \E u \in Uploads : CollectInventory(u, d)
    <2>1. TablePart' /\ UNCHANGED queued
      BY <1>0, <1>3 DEF CollectInventory, TablePart, jobVars, realVars
    <2> QED
      BY <1>0, <1>1, <2>1, PileFrame
  <1>4. CASE \E u \in Uploads : StoreInventory(u) \/ UploadFails(u)
    <2> PICK u \in Uploads : StoreInventory(u) \/ UploadFails(u)
      BY <1>4
    <2>1. /\ upload[u] \in [device : Devices, names : SUBSET Names]
          /\ upload' = [upload EXCEPT ![u] = NoUpload]
          /\ UNCHANGED <<queued, success, edits, installed, unreported>>
      BY DEF StoreInventory, UploadFails, TablePart, jobVars, realVars
    <2>2. inventory' \in [Devices -> [names : (SUBSET Names) \cup {None}, age : 0 .. Window]]
      <3>1. CASE UploadFails(u)
        BY <3>1 DEF UploadFails, TablePart
      <3>2. CASE StoreInventory(u)
        <4>1. [names |-> upload[u].names, age |-> 0]
                \in [names : (SUBSET Names) \cup {None}, age : 0 .. Window]
          BY <2>1
        <4> QED
          BY <3>2, <4>1 DEF StoreInventory, TablePart
      <3> QED
        BY <3>1, <3>2
    <2>3. faults' \in 0 .. MaxFaults
      BY DEF StoreInventory, UploadFails, TablePart
    <2>4. TablePart'
      BY <1>0, <2>1, <2>2, <2>3 DEF TablePart
    <2> QED
      BY <1>0, <1>1, <2>1, <2>4, PileFrame
  <1>5. CASE \E d \in Devices, s \in Specs, r \in Rules, end \in {"succeeded", "failed", "lost"} :
               EndInstall(d, s, r, end)
    <2> PICK d \in Devices, s \in Specs, r \in Rules, end \in {"succeeded", "failed", "lost"} :
               EndInstall(d, s, r, end)
      BY <1>5
    <2>1. queued' \in [Devices -> [Specs -> SUBSET Rules]]
      BY DEF EndInstall, TablePart
    <2>2. success' \in [Devices -> [Specs -> 0 .. Window]]
      BY DEF EndInstall, TablePart
    <2>3. installed' \in [Devices -> SUBSET Names]
      BY SpecsAreNames DEF EndInstall, TablePart
    <2>4. TablePart'
      BY <1>0, <2>1, <2>2, <2>3 DEF EndInstall, TablePart, invVars
    <2>5. \A e \in Devices, t \in Specs : queued'[e][t] \subseteq queued[e][t]
      BY DEF EndInstall, TablePart
    <2> QED
      BY <1>0, <1>1, <2>4, <2>5, PileFrame
  <1> QED
    BY <1>2, <1>3, <1>4, <1>5

-----------------------------------------------------------------------------
(* Steps of the transactions.                                              *)

\* A worker's transaction moves on to t and nothing is written.
LEMMA WorkerMoves ==
  ASSUME Inv, NEW w \in Workers, NEW t \in Txs, tx' = [tx EXCEPT ![w] = t],
         UNCHANGED <<rowVars, invVars, jobVars, edits, realVars>>, faults' \in 0 .. MaxFaults,
         TxFits(t, Live), AddsClear(t, queued),
         \A v \in Workers \ {w} : t.held \cap tx[v].held = {}
  PROVE  Inv'
  <1> USE DEF Inv
  <1>1. TablePart' /\ Live' = Live
    BY DEF TablePart, rowVars, invVars, jobVars, realVars, Live
  <1>2. \A v \in Workers : tx'[v] = IF v = w THEN t ELSE tx[v]
    BY DEF ClaimPart
  <1>3. ClaimPart'
    <2>1. tx' \in [Workers -> Txs]
      BY DEF ClaimPart
    <2>2. \A v \in Workers : TxFits(tx'[v], Live')
      BY <1>1, <1>2 DEF ClaimPart
    <2>3. \A v, u \in Workers : v # u => tx'[v].held \cap tx'[u].held = {}
      BY <1>2 DEF ClaimPart
    <2> QED
      BY <2>1, <2>2, <2>3 DEF ClaimPart
  <1>4. UNCHANGED queued
    BY DEF jobVars
  <1>5. PilePart'
    BY <1>2, <1>4 DEF PilePart, NoPileOn
  <1> QED
    BY <1>1, <1>3, <1>5

\* ClaimDueDeploymentRules skips what others have locked.
LEMMA ClaimInv ==
  ASSUME Inv, NEW w \in Workers, ClaimDueDeploymentRules(w)
  PROVE  Inv'
  <1> DEFINE t == [NoTx EXCEPT !.held = DueRules \ Locked, !.todo = DueRules \ Locked]
  <1>1. /\ t.held = DueRules \ Locked /\ t.todo = DueRules \ Locked /\ t.left = {} /\ t.made = {}
        /\ DueRules \subseteq Rules => t \in Txs
    BY NoTxFits DEF NoTx, Txs, DueRules
  <1>2. DueRules \subseteq Live /\ Live \subseteq Rules
    BY DEF DueRules, Live
  <1>3. t \in Txs /\ TxFits(t, Live) /\ AddsClear(t, queued)
    BY <1>1, <1>2 DEF Txs, TxFits, AddsClear
  <1>4. \A v \in Workers \ {w} : t.held \cap tx[v].held = {}
    BY <1>1 DEF Locked
  <1>5. /\ tx' = [tx EXCEPT ![w] = t]
        /\ UNCHANGED <<rowVars, invVars, jobVars, edits, realVars>> /\ faults' \in 0 .. MaxFaults
    BY DEF ClaimDueDeploymentRules, Inv, TablePart
  <1> HIDE DEF t
  <1> QED
    BY <1>3, <1>4, <1>5, WorkerMoves

\* ReconcileRule takes a claimed rule, its package body and its devices.
LEMMA ReconcileInv ==
  ASSUME Inv, NEW w \in Workers, NEW r \in tx[w].todo, ReconcileRule(w, r)
  PROVE  Inv'
  <1> DEFINE body == rule[r].body
             def  == pkg[body.package].def
             left == IF pkg[body.package].archived THEN {}
                     ELSE {d \in body.scope \cap active : DeviceMatchesRule(d, body, def)}
             t == [tx[w] EXCEPT !.todo = @ \ {r}, !.rule = r, !.def = def, !.left = left]
  <1>0. /\ tx[w] \in Txs /\ TxFits(tx[w], Live) /\ AddsClear(tx[w], queued)
        /\ \A v \in Workers \ {w} : tx[w].held \cap tx[v].held = {}
    BY DEF Inv, ClaimPart, PilePart
  <1>1. r \in tx[w].held /\ r \in Live
    BY <1>0 DEF TxFits
  <1>2. body \in Bodies /\ body.package \in Packages /\ def \in Defs
    BY <1>1, DeploymentAssumption DEF Inv, TablePart, Live
  <1>3. left \subseteq Devices
    BY DEF Inv, TablePart
  <1> HIDE DEF def, left
  <1>4. /\ t.held = tx[w].held /\ t.todo = tx[w].todo \ {r} /\ t.rule = r /\ t.def = def
        /\ t.left = left /\ t.made = tx[w].made
    BY <1>0 DEF Txs
  <1>5. r \in Rules
    BY <1>1 DEF Live
  <1>6. tx' = [tx EXCEPT ![w] = t]
    BY <1>0 DEF ReconcileRule, Inv, ClaimPart, Txs, def, left
  <1>a. t \in Txs
    BY <1>0, <1>2, <1>3, <1>5 DEF Txs
  <1> HIDE DEF t
  <1>7. TxFits(t, Live)
    BY <1>0, <1>1, <1>2, <1>3, <1>4, <1>5 DEF TxFits
  <1>8. AddsClear(t, queued) /\ \A v \in Workers \ {w} : t.held \cap tx[v].held = {}
    BY <1>0, <1>4 DEF AddsClear
  <1>9. UNCHANGED <<rowVars, invVars, jobVars, edits, realVars>> /\ faults' \in 0 .. MaxFaults
    BY DEF ReconcileRule, Inv, TablePart
  <1> QED
    BY <1>6, <1>7, <1>8, <1>9, <1>a, WorkerMoves

\* CheckDevice adds a job only where none that shares a package is on its way.
LEMMA CheckInv ==
  ASSUME Inv, NEW w \in Workers, NEW d \in tx[w].left, CheckDevice(w, d)
  PROVE  Inv'
  <1> DEFINE spec == tx[w].def.install
             here == DeviceHasApp(d, tx[w].def) \/ DeviceHasInstallInFlight(w, d, spec)
             made == IF here THEN tx[w].made ELSE tx[w].made \cup {<<tx[w].rule, d, spec>>}
             t    == [tx[w] EXCEPT !.left = @ \ {d}, !.made = made]
  <1>0. /\ tx[w] \in Txs /\ TxFits(tx[w], Live) /\ AddsClear(tx[w], queued)
        /\ \A v \in Workers \ {w} : tx[w].held \cap tx[v].held = {}
    BY DEF Inv, ClaimPart, PilePart
  <1>1. tx[w].rule \in tx[w].held /\ tx[w].rule \in Rules /\ spec \in Specs /\ d \in Devices
    BY <1>0 DEF TxFits, Txs, Specs
  <1>3. tx' = [tx EXCEPT ![w] = t]
    BY <1>0 DEF CheckDevice, Inv, ClaimPart, Txs
  <1> HIDE DEF made
  <1>2. /\ t.held = tx[w].held /\ t.todo = tx[w].todo /\ t.rule = tx[w].rule /\ t.def = tx[w].def
        /\ t.left = tx[w].left \ {d} /\ t.made = made
    BY <1>0 DEF Txs
  <1>4. /\ made \subseteq tx[w].held \X Devices \X Specs
        /\ made \subseteq Rules \X Devices \X Specs
    BY <1>0, <1>1 DEF TxFits, Txs, made
  <1>5. ASSUME ~here, NEW u \in Specs, u \cap spec # {}
        PROVE  queued[d][u] = {} /\ \A r \in Rules : <<r, d, u>> \notin tx[w].made
    <2>1. \A r \in tx[w].held : <<r, d, u>> \notin tx[w].made
      BY <1>5 DEF DeviceHasInstallInFlight
    <2>2. \A r \in Rules : <<r, d, u>> \in tx[w].made => r \in tx[w].held
      BY <1>0 DEF TxFits
    <2> QED
      BY <1>5, <2>1, <2>2 DEF DeviceHasInstallInFlight
  <1> HIDE DEF spec, here
  <1> USE DEF made
  <1>6. ASSUME NEW r \in Rules, NEW e \in Devices, NEW s \in Specs, NEW u \in Specs,
               <<r, e, s>> \in made, Clash(s, u)
        PROVE  r \notin queued[e][u] /\ <<r, e, u>> \notin made
    <2>1. CASE here
      BY <1>0, <1>6, <2>1 DEF AddsClear
    <2>2. CASE ~here /\ <<r, e, s>> \in tx[w].made
      <3>1. r \notin queued[e][u] /\ <<r, e, u>> \notin tx[w].made
        BY <1>0, <1>6, <2>2 DEF AddsClear
      <3>2. <<r, e, u>> # <<tx[w].rule, d, spec>>
        <4> SUFFICES ASSUME e = d, u = spec PROVE FALSE
          OBVIOUS
        <4>1. s \cap spec # {}
          BY <1>6 DEF Clash
        <4> QED
          BY <1>5, <2>2, <4>1
      <3> QED
        BY <2>2, <3>1, <3>2
    <2>3. CASE ~here /\ <<r, e, s>> = <<tx[w].rule, d, spec>>
      <3>1. e = d /\ s = spec /\ u # spec /\ u \cap spec # {}
        BY <1>6, <2>3 DEF Clash
      <3> QED
        BY <1>5, <2>3, <3>1
    <2> QED
      BY <1>6, <2>1, <2>2, <2>3
  <1> HIDE DEF made
  <1>a. t \in Txs
    BY <1>0, <1>4 DEF Txs
  <1> HIDE DEF t
  <1>7. TxFits(t, Live)
    BY <1>0, <1>1, <1>2, <1>4 DEF TxFits
  <1>8. AddsClear(t, queued) /\ \A v \in Workers \ {w} : t.held \cap tx[v].held = {}
    BY <1>0, <1>2, <1>6 DEF AddsClear
  <1>9. UNCHANGED <<rowVars, invVars, jobVars, edits, realVars>> /\ faults' \in 0 .. MaxFaults
    BY DEF CheckDevice, Inv, TablePart
  <1> QED
    BY <1>3, <1>7, <1>8, <1>9, <1>a, WorkerMoves

\* A rollback leaves no trace.
LEMMA FailsInv ==
  ASSUME Inv, NEW w \in Workers, ReconcileFails(w)
  PROVE  Inv'
  <1>1. faults' \in 0 .. MaxFaults /\ tx' = [tx EXCEPT ![w] = NoTx]
    BY DeploymentAssumption DEF ReconcileFails, Inv, TablePart
  <1>2. NoTx.held = {}
    BY DEF NoTx
  <1> QED
    BY <1>1, <1>2, NoTxFits, WorkerMoves DEF ReconcileFails

\* A row with another age is a row: of a rule, of the inventory.
RuleRows == [body : Bodies, age : 0 .. Interval]
StockRows == [names : (SUBSET Names) \cup {None}, age : 0 .. Window]
UploadRows == [device : Devices, names : SUBSET Names]
LEMMA AgeFits ==
  /\ \A x \in RuleRows, n \in 0 .. Interval :
       [x EXCEPT !.age = n] \in RuleRows /\ [x EXCEPT !.age = n].body = x.body
  /\ \A x \in StockRows, n \in 0 .. Window :
       /\ [x EXCEPT !.age = n] \in StockRows
       /\ [x EXCEPT !.age = n].names = x.names /\ [x EXCEPT !.age = n].age = n
  BY DEF RuleRows, StockRows

\* An age within its cap stays within, and the older stays the older.
LEMMA AgedFits ==
  ASSUME NEW cap \in Nat, NEW n \in 0 .. cap
  PROVE  Aged(n, cap) \in 0 .. cap /\ \A m \in 0 .. cap : m <= n => Aged(m, cap) <= Aged(n, cap)
  BY DEF Aged

\* The commit: the jobs of a transaction are of the rules it has claimed, so they
\* meet neither each other nor those of another transaction.
LEMMA CommitInv ==
  ASSUME Inv, NEW w \in Workers, CommitRules(w)
  PROVE  Inv'
  <1>0. /\ \A v \in Workers : tx[v] \in Txs /\ TxFits(tx[v], Live) /\ AddsClear(tx[v], queued)
        /\ \A v \in Workers \ {w} : tx[w].held \cap tx[v].held = {}
        /\ tx[w].held \subseteq Live /\ Live \subseteq Rules /\ NoPileOn
    BY DEF Inv, ClaimPart, PilePart, TxFits, Live
  <1>1. \A v \in Workers : tx'[v] = IF v = w THEN NoTx ELSE tx[v]
    BY DEF CommitRules, Inv, ClaimPart
  <1>2. ASSUME NEW d \in Devices, NEW s \in Specs, NEW r \in Rules
        PROVE  r \in queued'[d][s] <=> r \in queued[d][s] \/ <<r, d, s>> \in tx[w].made
    <2>1. queued'[d][s] = queued[d][s] \cup {q \in tx[w].held : <<q, d, s>> \in tx[w].made}
      BY DEF CommitRules
    <2>2. <<r, d, s>> \in tx[w].made => r \in tx[w].held
      BY <1>0 DEF TxFits
    <2> QED
      BY <2>1, <2>2
  <1>3. queued' \in [Devices -> [Specs -> SUBSET Rules]]
    BY <1>0 DEF CommitRules, Inv, TablePart
  <1>4. rule' \in [Rules -> {None} \cup [body : Bodies, age : 0 .. Interval]] /\ Live' = Live
    <2>1. ASSUME NEW r \in tx[w].held PROVE [rule[r] EXCEPT !.age = 0] \in RuleRows
      <3>1. rule[r] \in RuleRows
        BY <1>0 DEF Inv, TablePart, Live, RuleRows
      <3>2. 0 \in 0 .. Interval
        BY DeploymentAssumption
      <3> QED
        BY <3>1, <3>2, AgeFits
    <2>2. rule' \in [Rules -> {None} \cup [body : Bodies, age : 0 .. Interval]]
      BY <2>1 DEF CommitRules, Inv, TablePart, RuleRows
    <2>3. \A r \in Rules : rule'[r] # None <=> rule[r] # None
      BY <1>0, <2>1, DeploymentAssumption DEF CommitRules, Live, RuleRows
    <2> QED
      BY <2>2, <2>3 DEF Live
  <1>5. TablePart'
    BY <1>3, <1>4 DEF CommitRules, Inv, TablePart, invVars, realVars
  <1>6. ClaimPart'
    <2>1. tx' \in [Workers -> Txs]
      BY NoTxFits DEF CommitRules, Inv, ClaimPart
    <2>2. \A v \in Workers : TxFits(tx'[v], Live')
      BY <1>0, <1>1, <1>4, NoTxFits
    <2>3. \A v, u \in Workers : v # u => tx'[v].held \cap tx'[u].held = {}
      BY <1>1 DEF Inv, ClaimPart, NoTx
    <2> QED
      BY <2>1, <2>2, <2>3 DEF ClaimPart
  <1>7. NoPileOn'
    <2> SUFFICES ASSUME NEW d \in Devices, NEW r \in Rules, NEW s \in Specs, NEW t \in Specs,
                        r \in queued'[d][s], r \in queued'[d][t], Clash(s, t)
                 PROVE  FALSE
      BY DEF NoPileOn, Clash
    <2>1. Clash(t, s)
      BY DEF Clash
    <2>2. CASE <<r, d, s>> \in tx[w].made
      BY <1>0, <1>2, <2>2 DEF AddsClear
    <2>3. CASE <<r, d, t>> \in tx[w].made
      BY <1>0, <1>2, <2>1, <2>3 DEF AddsClear
    <2>4. CASE r \in queued[d][s] /\ r \in queued[d][t]
      BY <1>0, <2>4 DEF NoPileOn, Clash
    <2> QED
      BY <1>2, <2>2, <2>3, <2>4
  <1>8. ASSUME NEW v \in Workers PROVE AddsClear(tx'[v], queued')
    <2>1. CASE v = w
      BY <1>1, <2>1, NoTxFits
    <2>2. CASE v # w
      <3>1. ASSUME NEW r \in Rules, NEW d \in Devices, NEW s \in Specs, <<r, d, s>> \in tx[v].made
            PROVE  \A t \in Specs : r \in queued'[d][t] => r \in queued[d][t]
        <4>1. r \in tx[v].held
          BY <1>0, <3>1 DEF TxFits
        <4> QED
          <5>1. \A t \in Specs : <<r, d, t>> \in tx[w].made => r \in tx[w].held
            BY <1>0 DEF TxFits
          <5> QED
            BY <1>0, <1>2, <2>2, <4>1, <5>1
      <3> QED
        BY <1>0, <1>1, <2>2, <3>1 DEF AddsClear
    <2> QED
      BY <2>1, <2>2
  <1> QED
    BY <1>5, <1>6, <1>7, <1>8 DEF Inv, PilePart

\* Time passes only between transactions.
LEMMA TickInv ==
  ASSUME Inv, Tick
  PROVE  Inv'
  <1> USE DeploymentAssumption DEF Inv
  <1>1. rule' \in [Rules -> {None} \cup [body : Bodies, age : 0 .. Interval]] /\ Live' = Live
    <2>1. ASSUME NEW r \in Live
          PROVE  [rule[r] EXCEPT !.age = Aged(rule[r].age, Interval)] \in RuleRows
      <3>1. rule[r] \in RuleRows /\ rule[r].age \in 0 .. Interval
        BY DEF TablePart, Live, RuleRows
      <3>2. Aged(rule[r].age, Interval) \in 0 .. Interval
        BY <3>1, AgedFits
      <3> QED
        BY <3>1, <3>2, AgeFits
    <2>2. \A r \in Rules : rule'[r] # None <=> rule[r] # None
      BY <2>1 DEF Tick, Live, RuleRows
    <2> QED
      BY <2>1, <2>2 DEF Tick, Live, RuleRows
  <1>2. inventory' \in [Devices -> [names : (SUBSET Names) \cup {None}, age : 0 .. Window]]
    <2>1. ASSUME NEW d \in Devices
          PROVE  [inventory[d] EXCEPT !.age = Aged(inventory[d].age, Window)] \in StockRows
      <3>1. inventory[d] \in StockRows /\ inventory[d].age \in 0 .. Window
        BY DEF TablePart, StockRows
      <3>2. Aged(inventory[d].age, Window) \in 0 .. Window
        BY <3>1, AgedFits
      <3> QED
        BY <3>1, <3>2, AgeFits
    <2> QED
      BY <2>1 DEF Tick, StockRows
  <1>4. success' \in [Devices -> [Specs -> 0 .. Window]]
    BY DEF Tick, TablePart, Aged
  <1>5. TablePart'
    BY <1>1, <1>2, <1>4 DEF Tick, TablePart, realVars
  <1> QED
    BY <1>1, <1>5, ClaimFrame, PileFrame DEF Tick

\* Every step preserves the invariant.
LEMMA NextInv == Inv /\ [Next]_vars => Inv'
  <1> SUFFICES ASSUME Inv, [Next]_vars PROVE Inv'
    OBVIOUS
  <1>1. CASE UNCHANGED vars
    <2>1. TablePart' /\ Live' = Live
      BY <1>1 DEF vars, Inv, TablePart, Live
    <2> QED
      BY <1>1, <2>1, ClaimFrame, PileFrame DEF vars, Inv
  <1>2. ASSUME NEW w \in Workers, WorkerStep(w) \/ ReconcileFails(w) PROVE Inv'
    BY <1>2, ClaimInv, ReconcileInv, CheckInv, CommitInv, FailsInv DEF WorkerStep
  <1> QED
    BY <1>1, <1>2, DashboardInv, DeviceInv, TickInv DEF Next

\* The invariant of every state.
LEMMA SpecInv == Spec => []Inv
  BY InitInv, NextInv, PTL DEF Spec

\* However often workers reconcile a rule and whatever its package becomes, it never has two
\* installs that share a package on their way to a device (DeviceHasInstallInFlight
\* under the row locks of ClaimDueDeploymentRules).
THEOREM RulesDoNotPileUp == Spec => []DeploymentInv
  <1>1. Inv => DeploymentInv
    BY DEF Inv, TablePart, ClaimPart, PilePart, TxFits, DeploymentInv, TypeOK
  <1> QED
    BY <1>1, SpecInv, PTL

-----------------------------------------------------------------------------
(* No install of what is there.                                            *)

\* Every name on device d is in the list of names, which was collected age
\* units ago, or an install of it has been reported since.
Covers(d, names, age) ==
  \A n \in installed[d] : n \in names \/ \E s \in Specs : n \in s /\ success[d][s] <= age

\* What a device has beyond its inventory, or beyond an upload that is on its
\* way and may replace it, was installed after that was collected.
FreshPart ==
  \A d \in active \ unreported :
    /\ inventory[d].names # None => Covers(d, inventory[d].names, inventory[d].age)
    /\ \A u \in Uploads : upload[u].device = d => Covers(d, upload[u].names, 0)

\* Steps that touch neither the lists nor the successes.
LEMMA FreshFrame ==
  ASSUME Inv, FreshPart, UNCHANGED <<inventory, upload, success>>, active' \subseteq active,
         unreported \subseteq unreported', \A d \in active' \ unreported' : installed'[d] \subseteq installed[d]
  PROVE  FreshPart'
  <1> SUFFICES ASSUME NEW e \in active' \ unreported'
               PROVE  /\ inventory'[e].names # None => Covers(e, inventory[e].names, inventory[e].age)'
                      /\ \A v \in Uploads : upload'[v].device = e => Covers(e, upload[v].names, 0)'
    BY DEF FreshPart
  <1>1. /\ inventory[e].names # None => Covers(e, inventory[e].names, inventory[e].age)
        /\ \A v \in Uploads : upload[v].device = e => Covers(e, upload[v].names, 0)
    BY DEF FreshPart
  <1> QED
    BY <1>1 DEF Covers

\* Nothing is on record, or on its way, in the first state.
LEMMA InitFresh == Init => FreshPart
  BY DeploymentAssumption DEF Init, FreshPart, NoUpload

\* CollectInventory reads what is on the device.
LEMMA CollectFresh ==
  ASSUME Inv, FreshPart, NEW d \in Devices, NEW u \in Uploads, CollectInventory(u, d)
  PROVE  FreshPart'
  <1>1. /\ upload' = [upload EXCEPT ![u] = [device |-> d, names |-> installed[d]]]
        /\ UNCHANGED <<inventory, success, active, installed, unreported>>
    BY DEF CollectInventory, rowVars, jobVars, realVars
  <1>2. /\ upload'[u].device = d /\ upload'[u].names = installed[d]
        /\ \A v \in Uploads \ {u} : upload'[v] = upload[v]
    BY <1>1 DEF Inv, TablePart
  <1> SUFFICES ASSUME NEW e \in active' \ unreported'
               PROVE  /\ inventory'[e].names # None => Covers(e, inventory[e].names, inventory[e].age)'
                      /\ \A v \in Uploads : upload'[v].device = e => Covers(e, upload[v].names, 0)'
    BY DEF FreshPart
  <1>3. inventory'[e].names # None => Covers(e, inventory[e].names, inventory[e].age)'
    BY <1>1 DEF FreshPart, Covers
  <1>4. ASSUME NEW v \in Uploads, upload'[v].device = e PROVE Covers(e, upload[v].names, 0)'
    <2>1. CASE v = u
      BY <1>1, <1>2, <1>4, <2>1 DEF Covers
    <2>2. CASE v # u
      BY <1>1, <1>2, <1>4, <2>2 DEF FreshPart, Covers
    <2> QED
      BY <2>1, <2>2
  <1> QED
    BY <1>3, <1>4

\* An upload that is stored becomes the inventory; it covered its device before.
LEMMA StoreFresh ==
  ASSUME Inv, FreshPart, NEW u \in Uploads, StoreInventory(u) \/ UploadFails(u)
  PROVE  FreshPart'
  <1> USE DeploymentAssumption
  <1>1. /\ upload' = [upload EXCEPT ![u] = NoUpload] /\ upload[u] \in UploadRows
        /\ UNCHANGED <<success, active, installed, unreported>>
    BY DEF StoreInventory, UploadFails, rowVars, jobVars, realVars, Inv, TablePart, UploadRows
  <1>2. \A v \in Uploads : upload'[v] = IF v = u THEN NoUpload ELSE upload[v]
    BY <1>1 DEF Inv, TablePart
  <1> SUFFICES ASSUME NEW e \in active' \ unreported'
               PROVE  /\ inventory'[e].names # None => Covers(e, inventory[e].names, inventory[e].age)'
                      /\ \A v \in Uploads : upload'[v].device = e => Covers(e, upload[v].names, 0)'
    BY DEF FreshPart
  <1>3. e \in Devices /\ e \in active \ unreported
    BY <1>1 DEF Inv, TablePart
  <1>4. inventory'[e].names # None => Covers(e, inventory[e].names, inventory[e].age)'
    <2>1. CASE inventory'[e] = inventory[e]
      BY <1>1, <1>3, <2>1 DEF FreshPart, Covers
    <2>2. CASE inventory'[e] # inventory[e]
      <3>1. e = upload[u].device /\ inventory'[e] = [names |-> upload[u].names, age |-> 0]
        BY <1>3, <2>2 DEF StoreInventory, UploadFails, Inv, TablePart
      <3>2. inventory'[e].names = upload[u].names /\ inventory'[e].age = 0
        BY <3>1
      <3> QED
        BY <1>1, <1>3, <3>1, <3>2 DEF FreshPart, Covers
    <2> QED
      BY <2>1, <2>2
  <1>5. ASSUME NEW v \in Uploads, upload'[v].device = e PROVE Covers(e, upload[v].names, 0)'
    <2>1. v # u
      BY <1>2, <1>3, <1>5 DEF NoUpload
    <2> QED
      BY <1>1, <1>2, <1>3, <1>5, <2>1 DEF FreshPart, Covers
  <1> QED
    BY <1>4, <1>5

\* A device that was changed by hand is left out.
LEMMA HandFresh ==
  ASSUME Inv, FreshPart, NEW d \in Devices, NEW n \in Names, InstallByHand(d, n)
  PROVE  FreshPart'
  <1>1. /\ UNCHANGED <<inventory, upload, success, active>> /\ unreported' = unreported \cup {d}
        /\ \A e \in Devices \ {d} : installed'[e] = installed[e]
    BY DEF InstallByHand, rowVars, invVars, jobVars, Inv, TablePart
  <1>2. active \subseteq Devices
    BY DEF Inv, TablePart
  <1> QED
    BY <1>1, <1>2, FreshFrame

\* A reported install is younger than every list; a device with an unreported
\* one is left out.
LEMMA InstallFresh ==
  ASSUME Inv, FreshPart, NEW d \in Devices, NEW s \in Specs, NEW r \in Rules,
         NEW end \in {"succeeded", "failed", "lost"}, EndInstall(d, s, r, end)
  PROVE  FreshPart'
  <1> USE DeploymentAssumption
  <1>0. UNCHANGED <<active, inventory, upload>> /\ unreported \subseteq unreported'
    BY DEF EndInstall, rowVars, invVars
  <1>1. /\ success \in [Devices -> [Specs -> 0 .. Window]] /\ installed \in [Devices -> SUBSET Names]
        /\ \A e \in Devices : inventory[e].age \in Nat
    BY DEF Inv, TablePart
  <1>2. ASSUME NEW e \in Devices \ unreported', NEW names, NEW age \in Nat, Covers(e, names, age)
        PROVE  Covers(e, names, age)'
    <2>1. CASE end = "failed" \/ (end = "lost" /\ e # d)
      <3>1. installed'[e] = installed[e] /\ UNCHANGED success
        BY <1>1, <2>1 DEF EndInstall
      <3> QED
        BY <1>2, <3>1 DEF Covers
    <2>2. CASE end = "lost" /\ e = d
      BY <1>2, <2>2 DEF EndInstall
    <2>3. CASE end = "succeeded"
      <3>1. /\ installed' = [installed EXCEPT ![d] = @ \cup s]
            /\ success' = [success EXCEPT ![d][s] = 0]
        BY <2>3 DEF EndInstall
      <3>2. success'[d][s] = 0
        BY <1>1, <3>1
      <3>3. \A t \in Specs : success'[e][t] <= success[e][t]
        <4>1. \A t \in Specs : success'[e][t] = IF e = d /\ t = s THEN 0 ELSE success[e][t]
          BY <1>1, <3>1
        <4> QED
          BY <1>1, <4>1
      <3>4. \A t \in Specs : success[e][t] \in Nat /\ success'[e][t] \in Nat
        <4>1. \A t \in Specs : success'[e][t] = IF e = d /\ t = s THEN 0 ELSE success[e][t]
          BY <1>1, <3>1
        <4> QED
          BY <1>1, <4>1
      <3>5. ASSUME NEW n \in installed'[e]
            PROVE  n \in names \/ \E t \in Specs : n \in t /\ success'[e][t] <= age
        <4>1. CASE n \in installed[e]
          <5>1. CASE n \in names
            BY <5>1
          <5>2. CASE \E t \in Specs : n \in t /\ success[e][t] <= age
            <6> PICK t \in Specs : n \in t /\ success[e][t] <= age
              BY <5>2
            <6>1. success'[e][t] <= age
              BY <3>3, <3>4
            <6> QED
              BY <6>1
          <5> QED
            BY <1>2, <4>1, <5>1, <5>2 DEF Covers
        <4>2. CASE n \notin installed[e]
          <5>1. e = d /\ n \in s
            BY <1>1, <3>1, <3>5, <4>2
          <5> QED
            BY <3>2, <5>1
        <4> QED
          BY <4>1, <4>2
      <3> QED
        BY <3>5 DEF Covers
    <2> QED
      BY <2>1, <2>2, <2>3
  <1> SUFFICES ASSUME NEW e \in active' \ unreported'
               PROVE  /\ inventory'[e].names # None => Covers(e, inventory[e].names, inventory[e].age)'
                      /\ \A v \in Uploads : upload'[v].device = e => Covers(e, upload[v].names, 0)'
    BY DEF FreshPart
  <1>3. e \in Devices \ unreported' /\ e \in active \ unreported
    BY <1>0 DEF Inv, TablePart
  <1>4. ASSUME inventory'[e].names # None
        PROVE  Covers(e, inventory[e].names, inventory[e].age)'
    <2> DEFINE names == inventory[e].names
               age == inventory[e].age
    <2>2. Covers(e, names, age) /\ age \in Nat
      BY <1>0, <1>1, <1>3, <1>4 DEF FreshPart
    <2> HIDE DEF names, age
    <2>3. \A n \in installed'[e] : n \in names \/ \E t \in Specs : n \in t /\ success'[e][t] <= age
      BY <1>2, <1>3, <2>2 DEF Covers
    <2> QED
      BY <1>0, <2>3 DEF Covers, names, age
  <1>5. ASSUME NEW v \in Uploads, upload'[v].device = e PROVE Covers(e, upload[v].names, 0)'
    <2> DEFINE names == upload[v].names
    <2>1. Covers(e, names, 0)
      BY <1>0, <1>3, <1>5 DEF FreshPart
    <2> HIDE DEF names
    <2>2. \A n \in installed'[e] : n \in names \/ \E t \in Specs : n \in t /\ success'[e][t] <= 0
      BY <1>2, <1>3, <2>1 DEF Covers
    <2> QED
      BY <1>0, <2>2 DEF Covers, names
  <1> QED
    BY <1>4, <1>5

\* Time makes the lists and the successes older alike.
LEMMA TickFresh ==
  ASSUME Inv, FreshPart, Tick
  PROVE  FreshPart'
  <1> USE DeploymentAssumption
  <1>0. UNCHANGED <<active, installed, unreported, upload>> /\ \A u \in Uploads : upload[u] = NoUpload
    BY DEF Tick, realVars
  <1> SUFFICES ASSUME NEW e \in active' \ unreported'
               PROVE  /\ inventory'[e].names # None => Covers(e, inventory[e].names, inventory[e].age)'
                      /\ \A v \in Uploads : upload'[v].device = e => Covers(e, upload[v].names, 0)'
    BY DEF FreshPart
  <1>2. e \in Devices /\ e \in active \ unreported
    BY <1>0 DEF Inv, TablePart
  <1>3. \A v \in Uploads : upload'[v].device # e
    BY <1>0, <1>2 DEF NoUpload
  <1> SUFFICES ASSUME inventory'[e].names # None
               PROVE  Covers(e, inventory[e].names, inventory[e].age)'
    BY <1>3
  <1> DEFINE names == inventory[e].names
             age == inventory[e].age
  <1>4. inventory[e] \in StockRows /\ age \in 0 .. Window /\ Aged(age, Window) \in 0 .. Window
    BY <1>2, AgedFits DEF Inv, TablePart, StockRows
  <1>5. inventory'[e] = [inventory[e] EXCEPT !.age = Aged(age, Window)]
    BY <1>2 DEF Tick
  <1>6. inventory'[e].names = names /\ inventory'[e].age = Aged(age, Window)
    BY <1>4, <1>5, AgeFits
  <1>7. Covers(e, names, age)
    BY <1>2, <1>6 DEF FreshPart
  <1> HIDE DEF names, age
  <1>8. ASSUME NEW t \in Specs, success[e][t] <= age PROVE success'[e][t] <= Aged(age, Window)
    <2>1. success[e][t] \in 0 .. Window
      BY <1>2 DEF Inv, TablePart
    <2>2. success'[e][t] = Aged(success[e][t], Window)
      BY <1>2 DEF Tick
    <2> QED
      BY <1>4, <1>8, <2>1, <2>2, AgedFits
  <1>9. \A n \in installed[e] : n \in names \/ \E t \in Specs : n \in t /\ success'[e][t] <= Aged(age, Window)
    BY <1>7, <1>8 DEF Covers
  <1> QED
    BY <1>0, <1>6, <1>9 DEF Covers

\* Every step preserves it.
LEMMA NextFresh == Inv /\ FreshPart /\ [Next]_vars => FreshPart'
  <1> SUFFICES ASSUME Inv, FreshPart, [Next]_vars PROVE FreshPart'
    OBVIOUS
  <1>1. CASE UNCHANGED vars
    BY <1>1, FreshFrame DEF vars
  <1>2. ASSUME NEW r \in Rules, DeleteRule(r) \/ \E body \in Bodies : SaveRule(r, body)
        PROVE  FreshPart'
    BY <1>2, FreshFrame DEF DeleteRule, SaveRule, invVars, jobVars, realVars
  <1>3. ASSUME NEW p \in Packages, NEW def \in Defs, NEW a \in BOOLEAN, SavePackage(p, def, a)
        PROVE  FreshPart'
    BY <1>3, FreshFrame DEF SavePackage, invVars, jobVars, realVars
  <1>4. ASSUME NEW d \in Devices, DecommissionDevice(d) \/ \E ts \in SUBSET Tags : SetDeviceTags(d, ts)
        PROVE  FreshPart'
    BY <1>4, FreshFrame DEF DecommissionDevice, SetDeviceTags, invVars, jobVars, realVars
  <1>5. ASSUME NEW d \in Devices, NEW n \in Names, Uninstall(d, n) PROVE FreshPart'
    <2>1. /\ UNCHANGED <<inventory, upload, success, active, unreported>> /\ active \subseteq Devices
          /\ \A e \in Devices : installed'[e] \subseteq installed[e]
      BY <1>5 DEF Uninstall, rowVars, invVars, jobVars, Inv, TablePart
    <2> QED
      BY <2>1, FreshFrame
  <1>7. ASSUME NEW d \in Devices, NEW n \in Names, InstallByHand(d, n) PROVE FreshPart'
    BY <1>7, HandFresh
  <1>6. ASSUME NEW w \in Workers, WorkerStep(w) \/ ReconcileFails(w) PROVE FreshPart'
    <2>1. UNCHANGED <<inventory, upload, success, active, installed, unreported>>
      BY <1>6 DEF WorkerStep, ClaimDueDeploymentRules, ReconcileRule, CheckDevice, CommitRules,
                  ReconcileFails, rowVars, invVars, jobVars, realVars
    <2> QED
      BY <2>1, FreshFrame
  <1> QED
    BY <1>1, <1>2, <1>3, <1>4, <1>5, <1>6, <1>7, CollectFresh, StoreFresh, InstallFresh, TickFresh DEF Next

\* Jobs are added by CheckDevice alone, where the app is neither on record nor
\* on its way.
LEMMA MadeStep ==
  ASSUME Inv, [Next]_vars, NEW w \in Workers, NEW m \in tx'[w].made \ tx[w].made
  PROVE  \E d \in tx[w].left : /\ m = <<tx[w].rule, d, tx[w].def.install>>
                               /\ ~DeviceHasApp(d, tx[w].def)
                               /\ ~DeviceHasInstallInFlight(w, d, tx[w].def.install)
  <1>0. tx \in [Workers -> Txs]
    BY DEF Inv, ClaimPart
  <1>1. tx'[w] # tx[w]
    OBVIOUS
  <1>2. PICK v \in Workers : WorkerStep(v) \/ ReconcileFails(v)
    BY <1>1 DEF Next, vars, DeleteRule, SaveRule, SavePackage, DecommissionDevice, SetDeviceTags,
       InstallByHand, Uninstall, CollectInventory, EndInstall, StoreInventory, UploadFails, Tick
  <1>3. CASE ClaimDueDeploymentRules(v)
    <2>1. tx'[v].made = {} /\ \A u \in Workers \ {v} : tx'[u] = tx[u]
      BY <1>0, <1>3 DEF ClaimDueDeploymentRules, NoTx
    <2> QED
      BY <1>1, <2>1
  <1>4. CASE CommitRules(v) \/ ReconcileFails(v)
    <2>1. tx'[v].made = {} /\ \A u \in Workers \ {v} : tx'[u] = tx[u]
      BY <1>0, <1>4 DEF CommitRules, ReconcileFails, NoTx
    <2> QED
      BY <1>1, <2>1
  <1>5. ASSUME NEW r \in tx[v].todo, ReconcileRule(v, r) PROVE FALSE
    <2>1. tx'[v].made = tx[v].made /\ \A u \in Workers \ {v} : tx'[u] = tx[u]
      BY <1>0, <1>5 DEF ReconcileRule, Txs
    <2> QED
      BY <1>1, <2>1
  <1>6. ASSUME NEW d \in tx[v].left, CheckDevice(v, d)
        PROVE  /\ m = <<tx[w].rule, d, tx[w].def.install>> /\ d \in tx[w].left
               /\ ~DeviceHasApp(d, tx[w].def)
               /\ ~DeviceHasInstallInFlight(w, d, tx[w].def.install)
    <2> DEFINE here == DeviceHasApp(d, tx[v].def) \/ DeviceHasInstallInFlight(v, d, tx[v].def.install)
               job == <<tx[v].rule, d, tx[v].def.install>>
    <2>1. /\ tx'[v].made = IF here THEN tx[v].made ELSE tx[v].made \cup {job}
          /\ \A u \in Workers \ {v} : tx'[u] = tx[u]
      BY <1>0, <1>6 DEF CheckDevice, Txs
    <2>2. v = w
      BY <1>1, <2>1
    <2> HIDE DEF here, job
    <2>3. ~here /\ m = job
      BY <2>1, <2>2
    <2> QED
      BY <1>6, <2>2, <2>3 DEF here, job
  <1> QED
    BY <1>2, <1>3, <1>4, <1>5, <1>6 DEF WorkerStep

\* Where an app is detected by what it installs, no install of it is queued for an
\* active device that has it, unless the server got no result of an install there
\* or has no inventory younger than the window of a success: for any number of
\* uploads under way, devices that are offline and software that was there before.
THEOREM NoInstallInVain == Spec => NoNeedlessInstall
  <1>1. ASSUME Inv, FreshPart, [Next]_vars,
               NEW w \in Workers, NEW m \in tx'[w].made \ tx[w].made,
               m[2] \in active, DetectsItsOwn(tx[w].def),
               DetectNames(tx[w].def) \subseteq installed[m[2]],
               m[2] \notin unreported, inventory[m[2]].names # None, ~(inventory[m[2]].age >= Window)
        PROVE  FALSE
    <2> USE DeploymentAssumption
    <2>1. PICK d \in tx[w].left : /\ m = <<tx[w].rule, d, tx[w].def.install>>
                                  /\ ~DeviceHasApp(d, tx[w].def)
                                  /\ ~DeviceHasInstallInFlight(w, d, tx[w].def.install)
      BY <1>1, MadeStep
    <2> DEFINE def == tx[w].def
    <2>2. def \in Defs /\ d \in Devices /\ d \in active \ unreported /\ m[2] = d
      BY <1>1, <2>1 DEF Inv, ClaimPart, Txs, TxFits
    <2>3. DetectNames(def) \subseteq def.install /\ def.install \in Specs
      BY <1>1, <2>2 DEF DetectsItsOwn, Specs
    <2>4. PICK n \in DetectNames(def) : n \notin inventory[d].names
      BY <1>1, <2>1, <2>2 DEF DeviceHasApp
    <2>5. PICK s \in Specs : n \in s /\ success[d][s] <= inventory[d].age
      BY <1>1, <2>2, <2>4 DEF FreshPart, Covers
    <2>6. success[d][s] < Window
      BY <1>1, <2>2, <2>5 DEF Inv, TablePart
    <2> QED
      BY <2>1, <2>3, <2>4, <2>5, <2>6 DEF DeviceHasInstallInFlight
  <1>2. Inv /\ FreshPart /\ [Next]_vars =>
          [\A w \in Workers : \A m \in tx'[w].made \ tx[w].made :
             (/\ m[2] \in active /\ DetectsItsOwn(tx[w].def)
              /\ DetectNames(tx[w].def) \subseteq installed[m[2]])
               => \/ m[2] \in unreported
                  \/ inventory[m[2]].names = None
                  \/ inventory[m[2]].age >= Window]_vars
    BY <1>1
  <1> QED
    BY <1>2, SpecInv, InitFresh, NextFresh, PTL DEF Spec, NoNeedlessInstall
=============================================================================
