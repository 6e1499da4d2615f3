------------------------ MODULE AlertLifecycleProofs ------------------------
(***************************************************************************)
(* Theorems about AlertLifecycle, for any number of alerts, policies,      *)
(* channels, devices and workers, any policy bodies and telemetry, and     *)
(* every bound.  The last part is about NotificationOutbox, where the      *)
(* notices of these alerts go.                                             *)
(***************************************************************************)
EXTENDS AlertLifecycle, NotificationOutbox, FiniteSetTheorems, WellFoundedInduction, TLAPS

\* What a rule finds in some telemetry.
Details ==
  UNION {Extras(x[1], x[2].rules[x[1]], EvalState(x[3])) :
         x \in {y \in RuleTypes \X Bodies \X Telemetry : Defines(y[2], y[1])}}
Keys       == Devices \X RuleTypes \X Details
PolicyRows == {PolicyRow(x[1], x[2]) : x \in Policies \X {b \in Bodies : ValidPolicy(b)}}
Findings   == [key : Keys, policy : Policies, channels : SUBSET Channels]
AlertRows  == [key : Keys \cup {Null}, channels : SUBSET Channels, policy : Policies \cup {Null},
               firing : BOOLEAN, acked : BOOLEAN]
NewRows    == [key : Keys, channels : SUBSET Channels, policy : Policies,
               firing : {TRUE}, acked : {FALSE}]
Notes      == Ids \X Channels \X Events
Txs ==
  [at : {"idle", "begun", "collected"}, policies : Seq(PolicyRows),
   seen : UNION {[ds -> Telemetry] : ds \in SUBSET Devices}, todo : SUBSET Devices,
   configured : SUBSET RuleTypes, evaluated : SUBSET RuleTypes, found : SUBSET Findings,
   open : SUBSET Keys, left : SUBSET Ids, inserted : UNION {[is -> NewRows] : is \in SUBSET Ids},
   closed : SUBSET Ids, sent : SUBSET Notes, wait : Keys \cup {Null}, met : SUBSET Workers]

\* The tables, without the transactions.
TablePart ==
  /\ alert \in [Ids -> AlertRows]
  /\ policies \in Seq(PolicyRows)
  /\ channel \subseteq Channels
  /\ tele \in [Devices -> Telemetry] /\ active \subseteq Devices
  /\ notices \in [Ids -> [Channels \X Events -> Nat]]
  /\ edits \in 0 .. MaxEdits /\ faults \in 0 .. MaxFaults

\* A transaction by itself: what it has yet to evaluate, what it found for the
\* device whose turn it is and what it has inserted are about different keys.
TxFits(t) ==
  /\ t.at = "collected" => t.todo \subseteq DOMAIN t.seen
  /\ t.at # "collected" => t.found = {} /\ t.left = {} /\ DOMAIN t.inserted = {} /\ t.sent = {}
  /\ \A f \in t.found : /\ f.key[1] \notin t.todo
                        /\ \A g \in t.found : f.key = g.key => f = g
                        /\ \A i \in DOMAIN t.inserted : t.inserted[i].key # f.key
  /\ \A i \in DOMAIN t.inserted :
       /\ t.inserted[i].key[1] \notin t.todo
       /\ \A j \in DOMAIN t.inserted : t.inserted[i].key = t.inserted[j].key => i = j

TxPart == tx \in [Workers -> Txs] /\ \A w \in Workers : TxFits(tx[w])

\* What the index and the row locks keep: a row or a key belongs to one of the
\* firing alerts and the uncommitted inserts, and one transaction closes a row.
LocksFit(w, t) ==
  /\ t.closed \subseteq Firing
  /\ \A i \in DOMAIN t.inserted, j \in Firing : i # j /\ t.inserted[i].key # KeyOf(j)
  /\ \A v \in Others(w) :
       /\ t.closed \cap tx[v].closed = {}
       /\ \A i \in DOMAIN t.inserted, j \in Inserted(v) :
            i # j /\ t.inserted[i].key # tx[v].inserted[j].key

LockPart == OneFiringAlert /\ \A w \in Workers : LocksFit(w, tx[w])

\* A transaction announces what it does, to the channels that are there.
NotesFit(t) ==
  /\ \A i \in DOMAIN t.inserted : \A c \in t.inserted[i].channels \cap channel :
       <<i, c, "fired">> \in t.sent
  /\ \A i \in Ids, c \in Channels :
       /\ <<i, c, "fired">> \in t.sent => i \in DOMAIN t.inserted
       /\ <<i, c, "resolved">> \in t.sent => i \in t.closed /\ c \in alert[i].channels \cap channel

\* Whoever is to hear that an alert is resolved has heard that it fired.
NoticePart ==
  /\ NoticesPair
  /\ \A i \in Firing : \A c \in alert[i].channels \cap channel : notices[i][<<c, "fired">>] = 1
  /\ \A w \in Workers : NotesFit(tx[w])

\* The inductive invariant.
Inv == TablePart /\ TxPart /\ LockPart /\ NoticePart

-----------------------------------------------------------------------------
(* Least and greatest numbers of a set.                                    *)

LEMMA LeastIn ==
  ASSUME NEW S, S \subseteq Nat, S # {}
  PROVE  Min(S) \in S /\ \A y \in S : Min(S) <= y
  <1>1. PICK x \in S : \A y \in S : ~(<<y, x>> \in OpToRel(<, Nat))
    BY NatLessThanWellFounded, WFMin
  <1>2. ASSUME NEW y \in S PROVE x <= y
    <2>1. x \in Nat /\ y \in Nat
      OBVIOUS
    <2>2. ~(y < x)
      BY <1>1, <2>1 DEF OpToRel
    <2> QED
      BY <2>1, <2>2
  <1> QED
    BY <1>2 DEF Min

LEMMA GreatestIn ==
  ASSUME NEW b \in Nat, NEW S, S \subseteq 0 .. b, S # {}
  PROVE  Max(S) \in S /\ \A y \in S : y <= Max(S)
  <1> DEFINE T == {b - x : x \in S}
  <1>1. T \subseteq Nat /\ T # {}
    <2>1. ASSUME NEW x \in S PROVE b - x \in Nat
      <3>1. x \in 0 .. b
        OBVIOUS
      <3> QED
        BY <3>1
    <2> QED
      BY <2>1
  <1>2. Min(T) \in T /\ \A y \in T : Min(T) <= y
    BY <1>1, LeastIn
  <1>3. PICK x \in S : Min(T) = b - x
    BY <1>2
  <1>5. ASSUME NEW y \in S PROVE y <= x
    <2>1. y \in 0 .. b /\ x \in 0 .. b
      OBVIOUS
    <2>2. b - y \in T
      OBVIOUS
    <2>3. b - x <= b - y
      BY <1>2, <1>3, <2>2
    <2> QED
      BY <2>1, <2>3
  <1>6. \A y \in S : x >= y
    <2>1. ASSUME NEW y \in S PROVE x >= y
      <3>1. y \in 0 .. b /\ x \in 0 .. b
        OBVIOUS
      <3> QED
        BY <1>5, <3>1
    <2> QED
      BY <2>1
  <1> QED
    <2>1. Max(S) \in S /\ \A y \in S : Max(S) >= y
      BY <1>6 DEF Max
    <2>2. ASSUME NEW y \in S PROVE y <= Max(S)
      <3>1. y \in 0 .. b /\ Max(S) \in 0 .. b
        BY <2>1
      <3> QED
        BY <2>1, <3>1
    <2> QED
      BY <2>1, <2>2

-----------------------------------------------------------------------------
(* The merge of the policies, and what it makes of a device's telemetry.   *)

\* A row of policies has the form the request was checked for.
LEMMA RowsAreValid ==
  ASSUME NEW p \in PolicyRows
  PROVE  /\ p.id \in Policies /\ p.channels \subseteq Channels
         /\ p.scope.type \in ScopeTypes /\ ScopeRank(p.scope.type) \in 0 .. 4
         /\ \E b \in Bodies : p.rules = b.rules
  <1>1. PICK x \in Policies \X {b \in Bodies : ValidPolicy(b)} : p = PolicyRow(x[1], x[2])
    BY DEF PolicyRows
  <1>2. /\ p.id = x[1] /\ p.channels = x[2].channels /\ p.scope = x[2].scope /\ p.rules = x[2].rules
        /\ x[1] \in Policies /\ x[2] \in Bodies /\ ValidPolicy(x[2])
    BY <1>1 DEF PolicyRow
  <1>3. p.scope.type \in ScopeTypes
    BY <1>2 DEF ValidPolicy
  <1>4. ScopeRank(p.scope.type) \in 0 .. 4
    BY <1>3 DEF ScopeRank, ScopeTypes
  <1> QED
    BY <1>2, <1>3, <1>4, AlertAssumption

\* Those of the policies at cs with the highest rank; won is the last of them.
Best(ps, cs) == {n \in cs : \A m \in cs : ScopeRank(ps[m].scope.type) <= ScopeRank(ps[n].scope.type)}
IsPick(ps, cs, won) ==
  IF cs = {} THEN won = Null ELSE Max(Best(ps, cs)) \in Best(ps, cs) /\ won = ps[Max(Best(ps, cs))]

\* The rounds leave a rule to the last policy of the highest rank that has it.
LEMMA RoundsPick ==
  ASSUME NEW ps \in Seq(PolicyRows), NEW ns \in SUBSET DOMAIN ps, NEW has, NEW rt \in RuleTypes
  PROVE  IsPick(ps, {n \in ns : rt \in has[n]}, Rounds(ps, ns, has)[rt])
  <1> DEFINE Rank(n) == ScopeRank(ps[n].scope.type)
             cs == {n \in ns : rt \in has[n]}
             best == Best(ps, cs)
             won  == Rounds(ps, ns, has)[rt]
             At(r) == {n \in ns : ScopeRank(ps[n].scope.type) = r /\ rt \in has[n]}
  <1>1. \A r, was : Round(ps, ns, has, r, was)[rt] = IF At(r) = {} THEN was[rt] ELSE ps[Max(At(r))]
    BY DEF Round
  <1>2. won = IF At(4) # {} THEN ps[Max(At(4))] ELSE IF At(3) # {} THEN ps[Max(At(3))]
              ELSE IF At(2) # {} THEN ps[Max(At(2))] ELSE IF At(1) # {} THEN ps[Max(At(1))]
              ELSE IF At(0) # {} THEN ps[Max(At(0))] ELSE Null
    <2> HIDE DEF At
    <2> QED
      BY <1>1 DEF Rounds
  <1>3. \A n \in ns : Rank(n) \in 0 .. 4
    BY RowsAreValid
  <1>4. \A r \in 0 .. 4 : At(r) = {n \in cs : Rank(n) = r}
    OBVIOUS
  <1>5. best # {} => Max(best) \in best
    <2>1. best \subseteq 0 .. Len(ps) /\ Len(ps) \in Nat
      BY DEF Best
    <2> HIDE DEF best
    <2> QED
      BY <2>1, GreatestIn
  <1>6. \A n \in cs : n \in ns
    OBVIOUS
  <1>7. \A n : n \in best <=> n \in cs /\ \A m \in cs : Rank(m) <= Rank(n)
    BY DEF Best
  <1> HIDE DEF won, At, best, Rank, cs
  <1>8. cs = {} => won = Null
    BY <1>2, <1>4
  <1>9. ASSUME cs # {} PROVE Max(best) \in best /\ won = ps[Max(best)]
    <2>1. PICK r \in 0 .. 4 : At(r) # {} /\ \A q \in 0 .. 4 : At(q) # {} => q <= r
      <3>1. PICK n \in cs : TRUE
        BY <1>9
      <3>2. At(Rank(n)) # {} /\ Rank(n) \in 0 .. 4
        BY <1>3, <1>4, <1>6, <3>1
      <3> QED
        BY <3>2
    <2>2. won = ps[Max(At(r))]
      BY <1>2, <2>1
    <2>3. best = At(r)
      <3>1. ASSUME NEW n \in cs PROVE Rank(n) \in 0 .. 4 /\ At(Rank(n)) # {} /\ Rank(n) <= r
        BY <1>3, <1>4, <1>6, <2>1
      <3>2. PICK m \in cs : Rank(m) = r
        BY <1>4, <2>1
      <3>3. ASSUME NEW n \in cs PROVE n \in best <=> Rank(n) = r
        BY <1>7, <3>1, <3>2
      <3> QED
        BY <1>4, <1>7, <3>3
    <2> QED
      BY <1>5, <2>1, <2>2, <2>3
  <1> QED
    BY <1>8, <1>9 DEF won, best, cs, IsPick

\* It matters only which rules the merged policies have.
LEMMA RoundsSame ==
  ASSUME NEW ps, NEW ns, NEW has, NEW has2,
         \A n \in ns : \A rt \in RuleTypes : rt \in has[n] <=> rt \in has2[n]
  PROVE  Rounds(ps, ns, has) = Rounds(ps, ns, has2)
  <1>1. ASSUME NEW rank, NEW was
        PROVE  Round(ps, ns, has, rank, was) = Round(ps, ns, has2, rank, was)
    <2>1. \A rt \in RuleTypes : {n \in ns : ScopeRank(ps[n].scope.type) = rank /\ rt \in has[n]}
                               = {n \in ns : ScopeRank(ps[n].scope.type) = rank /\ rt \in has2[n]}
      OBVIOUS
    <2> QED
      BY <2>1 DEF Round
  <1> QED
    BY <1>1 DEF Rounds

\* Merge takes a rule from the policy it belongs to.
LEMMA MergePick ==
  ASSUME NEW ps \in Seq(PolicyRows), NEW dev, NEW rt \in RuleTypes
  PROVE  IsPick(ps, {n \in Applicable(ps, dev) : Defines(ps[n], rt)}, EffectiveFor(ps, dev)[rt])
  <1> DEFINE ns == Applicable(ps, dev)
             has == [n \in ns |-> {t \in RuleTypes : Defines(ps[n], t)}]
  <1>1. {n \in ns : rt \in has[n]} = {n \in ns : Defines(ps[n], rt)}
    OBVIOUS
  <1>2. ns \in SUBSET DOMAIN ps
    BY DEF Applicable
  <1>3. EffectiveFor(ps, dev) = Rounds(ps, ns, has)
    BY DEF EffectiveFor, Merge
  <1> HIDE DEF ns, has
  <1> QED
    BY <1>1, <1>2, <1>3, RoundsPick DEF ns

\* The copy of the merge that is displayed.
LEMMA DisplaySame ==
  ASSUME NEW ps, NEW dev,
         \A n \in Applicable(ps, dev) : \A rt \in DOMAIN ps[n].rules : ps[n].rules[rt] # Null
  PROVE  EffectiveRulesJSON(ps, dev) = EffectiveFor(ps, dev)
  <1> DEFINE ns == Applicable(ps, dev)
             has == [n \in ns |-> {t \in RuleTypes : Defines(ps[n], t)}]
             has2 == [n \in DOMAIN ps |-> DOMAIN ps[n].rules]
  <1>1. \A n \in ns : n \in DOMAIN ps
    BY DEF Applicable
  <1>2. \A n \in ns : \A rt \in RuleTypes : rt \in has[n] <=> rt \in has2[n]
    BY <1>1 DEF Defines
  <1>3. EffectiveFor(ps, dev) = Rounds(ps, ns, has) /\ EffectiveRulesJSON(ps, dev) = Rounds(ps, ns, has2)
    BY DEF EffectiveFor, Merge, EffectiveRulesJSON
  <1> HIDE DEF ns, has, has2
  <1> QED
    BY <1>2, <1>3, RoundsSame

\* A device's rules come from policies on record.
LEMMA EffectiveRow ==
  ASSUME NEW ps \in Seq(PolicyRows), NEW dev, NEW rt \in RuleTypes, EffectiveFor(ps, dev)[rt] # Null
  PROVE  EffectiveFor(ps, dev)[rt] \in PolicyRows /\ Defines(EffectiveFor(ps, dev)[rt], rt)
  <1> DEFINE won == EffectiveFor(ps, dev)[rt]
  <1>1. PICK n \in Applicable(ps, dev) : Defines(ps[n], rt) /\ won = ps[n]
    <2> DEFINE cs == {n \in Applicable(ps, dev) : Defines(ps[n], rt)}
    <2>1. IsPick(ps, cs, won)
      BY MergePick
    <2>2. \A n \in Best(ps, cs) : n \in Applicable(ps, dev) /\ Defines(ps[n], rt)
      BY DEF Best
    <2> HIDE DEF cs, won
    <2>3. won # Null
      BY DEF won
    <2> QED
      BY <2>1, <2>2, <2>3 DEF IsPick
  <1>2. n \in DOMAIN ps
    BY DEF Applicable
  <1> QED
    BY <1>1, <1>2

\* What an evaluation finds for a device: conditions of that device, each once.
LEMMA FindingsFit ==
  ASSUME NEW ps \in Seq(PolicyRows), NEW d \in Devices, NEW t \in Telemetry
  PROVE  LET fs == Evaluate(EffectiveFor(ps, Place[d]), d, EvalState(t)) IN
         /\ fs \subseteq Findings
         /\ \A f \in fs : f.key[1] = d
         /\ \A f, g \in fs : f.key = g.key => f = g
  <1> DEFINE eff == EffectiveFor(ps, Place[d])
             st == EvalState(t)
             fs == Evaluate(eff, d, st)
             Made(rt, x) == [key |-> <<d, rt, x>>, policy |-> eff[rt].id, channels |-> eff[rt].channels]
  <1>1. ASSUME NEW f \in fs
        PROVE  \E rt \in RuleTypes, x \in Details : f = Made(rt, x) /\ f \in Findings
    <2>0. PICK rt \in Evaluated(eff, st) : \E x \in Extras(rt, eff[rt].rules[rt], st) : f = Made(rt, x)
      BY DEF Evaluate
    <2>1. PICK x \in Extras(rt, eff[rt].rules[rt], st) : f = Made(rt, x)
      BY <2>0
    <2>2. rt \in RuleTypes /\ eff[rt] # Null
      BY DEF Evaluated
    <2>3. eff[rt] \in PolicyRows /\ Defines(eff[rt], rt)
      BY <2>2, EffectiveRow
    <2>4. PICK b \in Bodies : eff[rt].rules = b.rules
      BY <2>3, RowsAreValid
    <2> HIDE DEF eff
    <2>5. x \in Details
      <3> DEFINE y == <<rt, b, t>>
      <3>1. Defines(b, rt)
        BY <2>3, <2>4 DEF Defines
      <3>2. y \in {z \in RuleTypes \X Bodies \X Telemetry : Defines(z[2], z[1])}
        BY <2>2, <3>1
      <3>3. x \in Extras(y[1], y[2].rules[y[1]], EvalState(y[3]))
        BY <2>4
      <3> HIDE DEF y
      <3> QED
        BY <3>2, <3>3 DEF Details
    <2>6. Made(rt, x) \in Findings
      BY <2>2, <2>3, <2>5, RowsAreValid DEF Findings, Keys
    <2> QED
      BY <2>1, <2>2, <2>5, <2>6
  <1>2. \A rt, x, rt2, x2 : Made(rt, x).key = Made(rt2, x2).key => rt = rt2 /\ x = x2
    OBVIOUS
  <1>3. \A rt, x : Made(rt, x).key[1] = d
    OBVIOUS
  <1> HIDE DEF fs, Made
  <1> QED
    BY <1>1, <1>2, <1>3 DEF fs

-----------------------------------------------------------------------------
\* An idle worker has no part in anything.
LEMMA NoTxFits ==
  /\ NoTx \in Txs /\ TxFits(NoTx) /\ NotesFit(NoTx) /\ \A w : LocksFit(w, NoTx)
  /\ DOMAIN NoTx.inserted = {} /\ NoTx.closed = {} /\ NoTx.sent = {} /\ NoTx.found = {} /\ NoTx.left = {}
  <1>1. /\ DOMAIN NoTx.inserted = {} /\ NoTx.closed = {} /\ NoTx.sent = {} /\ NoTx.found = {}
        /\ NoTx.left = {} /\ NoTx.at = "idle"
    BY DEF NoTx
  <1>2. NoTx \in Txs
    <2>1. <<>> \in UNION {[is -> NewRows] : is \in SUBSET Ids}
      <3>1. <<>> \in [{} -> NewRows]
        OBVIOUS
      <3> QED
        BY <3>1
    <2>2. <<>> \in UNION {[ds -> Telemetry] : ds \in SUBSET Devices}
      <3>1. <<>> \in [{} -> Telemetry]
        OBVIOUS
      <3> QED
        BY <3>1
    <2>3. <<>> \in Seq(PolicyRows)
      OBVIOUS
    <2> QED
      BY <2>1, <2>2, <2>3 DEF NoTx, Txs
  <1> QED
    BY <1>1, <1>2 DEF TxFits, NotesFit, LocksFit

\* The first state satisfies the invariant.
LEMMA InitInv == Init => Inv
  <1> SUFFICES ASSUME Init PROVE Inv
    OBVIOUS
  <1> USE AlertAssumption
  <1>0. Firing = {} /\ \A w \in Workers : tx[w] = NoTx
    BY DEF Init, Firing, NoAlert
  <1>1. TablePart
    <2>1. policies \in Seq(PolicyRows)
      <3>1. PICK b \in Bodies : ValidPolicy(b) /\ policies = <<PolicyRow(1, b)>>
        BY DEF Init
      <3>2. <<1, b>> \in Policies \X {c \in Bodies : ValidPolicy(c)}
        BY <3>1 DEF Policies
      <3>3. PolicyRow(1, b) \in PolicyRows
        BY <3>2 DEF PolicyRows
      <3> QED
        BY <3>1, <3>3
    <2>2. notices \in [Ids -> [Channels \X Events -> Nat]]
      BY DEF Init, NoNotice
    <2>3. alert \in [Ids -> AlertRows]
      BY DEF Init, AlertRows, NoAlert
    <2>4. edits \in 0 .. MaxEdits /\ faults \in 0 .. MaxFaults
      BY DEF Init
    <2>5. channel \subseteq Channels /\ tele \in [Devices -> Telemetry] /\ active \subseteq Devices
      BY DEF Init
    <2> QED
      BY <2>1, <2>2, <2>3, <2>4, <2>5 DEF TablePart
  <1>2. TxPart
    BY <1>0, NoTxFits DEF Init, TxPart
  <1>3. LockPart
    BY <1>0, NoTxFits DEF LockPart, OneFiringAlert
  <1>4. NoticePart
    <2>1. NoticesPair
      BY DEF Init, NoNotice, NoticesPair, Events
    <2> QED
      BY <1>0, <2>1, NoTxFits DEF NoticePart
  <1> QED
    BY <1>1, <1>2, <1>3, <1>4 DEF Inv

\* The parts of a transaction that its effects depend on.
SameWork(t, u) ==
  /\ t.at = u.at /\ t.todo = u.todo /\ t.seen = u.seen /\ t.found = u.found /\ t.left = u.left
  /\ t.inserted = u.inserted /\ t.closed = u.closed /\ t.sent = u.sent

\* A worker's transaction becomes t and nothing is written.
LEMMA WorkerMoves ==
  ASSUME Inv, NEW w \in Workers, NEW t \in Txs, TxFits(t), LocksFit(w, t), NotesFit(t),
         tx' \in [Workers -> Txs], tx'[w] = t, \A v \in Others(w) : SameWork(tx[v], tx'[v]),
         UNCHANGED <<alert, tableVars, notices, edits>>, faults' \in 0 .. MaxFaults
  PROVE  Inv'
  <1>1. TablePart' /\ Firing' = Firing /\ \A i : KeyOf(i)' = KeyOf(i)
    BY DEF Inv, TablePart, tableVars, Firing, KeyOf
  <1>2. UNCHANGED <<alert, channel, notices>>
    BY DEF tableVars
  <1>3. \A v \in Workers : v = w \/ v \in Others(w)
    BY DEF Others
  <1>4. TxPart'
    <2>1. \A v \in Workers : TxFits(tx'[v])
      BY <1>3 DEF Inv, TxPart, TxFits, SameWork
    <2> QED
      BY <2>1 DEF TxPart
  <1>5. LockPart'
    <2>1. OneFiringAlert'
      BY <1>1 DEF Inv, LockPart, OneFiringAlert
    <2>2. LocksFit(w, tx[w])'
      BY <1>1 DEF LocksFit, Inserted, Others, SameWork
    <2>3. ASSUME NEW v \in Others(w) PROVE LocksFit(v, tx[v])'
      <3>1. v \in Workers /\ w \in Others(v) /\ \A u \in Others(v) : u = w \/ u \in Others(w)
        BY DEF Others
      <3>2. LocksFit(v, tx[v])
        BY <3>1 DEF Inv, LockPart
      <3>3. SameWork(tx[v], tx'[v])
        OBVIOUS
      <3>4. /\ tx'[v].closed \subseteq Firing'
            /\ \A i \in DOMAIN tx'[v].inserted, j \in Firing' : i # j /\ tx'[v].inserted[i].key # KeyOf(j)'
        BY <1>1, <3>2, <3>3 DEF LocksFit, SameWork
      <3>5. ASSUME NEW u \in Others(v)
            PROVE  /\ tx'[v].closed \cap tx'[u].closed = {}
                   /\ \A i \in DOMAIN tx'[v].inserted, j \in DOMAIN tx'[u].inserted :
                        i # j /\ tx'[v].inserted[i].key # tx'[u].inserted[j].key
        <4>1. CASE u = w
          BY <3>3, <4>1 DEF LocksFit, Inserted, SameWork
        <4>2. CASE u \in Others(w)
          BY <3>2, <3>3, <4>2 DEF LocksFit, Inserted, SameWork
        <4> QED
          BY <3>1, <4>1, <4>2
      <3> QED
        BY <3>4, <3>5 DEF LocksFit, Inserted, Others
    <2> QED
      BY <1>3, <2>1, <2>2, <2>3 DEF LockPart
  <1>6. NoticePart'
    <2>1. \A v \in Workers : NotesFit(tx[v])'
      <3>1. NotesFit(tx[w])'
        BY <1>2 DEF NotesFit
      <3>2. ASSUME NEW v \in Others(w) PROVE NotesFit(tx[v])'
        <4>1. v \in Workers /\ NotesFit(tx[v]) /\ SameWork(tx[v], tx'[v])
          BY DEF Others, Inv, NoticePart
        <4> QED
          BY <1>2, <4>1 DEF NotesFit, SameWork
      <3> QED
        BY <1>3, <3>1, <3>2
    <2> QED
      BY <1>1, <1>2, <2>1 DEF Inv, NoticePart, NoticesPair
  <1> QED
    BY <1>1, <1>4, <1>5, <1>6 DEF Inv

\* The same, when the other transactions stay as they are.
LEMMA OneMoves ==
  ASSUME Inv, NEW w \in Workers, NEW t \in Txs, TxFits(t), LocksFit(w, t), NotesFit(t),
         tx' = [tx EXCEPT ![w] = t], UNCHANGED <<alert, tableVars, notices, edits, faults>>
  PROVE  Inv'
  <1>1. tx' \in [Workers -> Txs] /\ tx'[w] = t /\ \A v \in Others(w) : tx'[v] = tx[v]
    BY DEF Inv, TxPart, Others
  <1>2. \A v \in Others(w) : SameWork(tx[v], tx'[v])
    BY <1>1 DEF SameWork
  <1>3. faults' \in 0 .. MaxFaults
    BY DEF Inv, TablePart
  <1> QED
    BY <1>1, <1>2, <1>3, WorkerMoves

\* What the invariant says of one transaction.
LEMMA OneTx ==
  ASSUME Inv, NEW w \in Workers
  PROVE  tx[w] \in Txs /\ TxFits(tx[w]) /\ LocksFit(w, tx[w]) /\ NotesFit(tx[w])
  BY DEF Inv, TxPart, LockPart, NoticePart

\* A key that w gets is held by no other transaction.
LEMMA NotHeld ==
  ASSUME NEW w \in Workers, NEW key, ~IsHeld(w, key), NEW v \in Others(w)
  PROVE  /\ \A i \in tx[v].closed : KeyOf(i) # key
         /\ \A i \in Inserted(v) : tx[v].inserted[i].key # key
  BY DEF IsHeld, HoldsKey

\* ResolveAlertsForDecommissioned waits for rows that others resolve.
LEMMA BeginInv ==
  ASSUME Inv, NEW w \in Workers, BeginEvaluation(w)
  PROVE  Inv'
  <1> DEFINE gone == {i \in Firing : KeyOf(i)[1] \notin active}
             t == [NoTx EXCEPT !.at = "begun", !.policies = policies, !.closed = gone]
  <1>1. tx' = [tx EXCEPT ![w] = t] /\ UNCHANGED <<alert, tableVars, notices, edits, faults>>
    BY DEF BeginEvaluation
  <1>2. gone \subseteq Firing /\ gone \subseteq Ids /\ \A i \in gone : ~IsHeld(w, KeyOf(i))
    BY DEF BeginEvaluation, Firing
  <1> HIDE DEF gone
  <1>3. /\ t.at = "begun" /\ t.closed = gone /\ t.found = {} /\ t.left = {} /\ t.sent = {}
        /\ DOMAIN t.inserted = {}
    BY NoTxFits DEF NoTx
  <1>4. t \in Txs
    BY <1>2, NoTxFits DEF Inv, TablePart, Txs
  <1> HIDE DEF t
  <1>5. TxFits(t) /\ NotesFit(t)
    BY <1>3 DEF TxFits, NotesFit
  <1>6. LocksFit(w, t)
    <2>1. \A v \in Others(w) : gone \cap tx[v].closed = {}
      BY <1>2, NotHeld
    <2> QED
      BY <1>2, <1>3, <2>1 DEF LocksFit
  <1> QED
    BY <1>1, <1>4, <1>5, <1>6, OneMoves

\* CollectEvalDevices.
LEMMA CollectInv ==
  ASSUME Inv, NEW w \in Workers, CollectEvalDevices(w)
  PROVE  Inv'
  <1> DEFINE seen == [d \in active |-> tele[d]]
             t == [tx[w] EXCEPT !.at = "collected", !.todo = active, !.seen = seen]
  <1>0. tx[w] \in Txs /\ TxFits(tx[w]) /\ LocksFit(w, tx[w]) /\ NotesFit(tx[w])
    BY OneTx
  <1>1. tx' = [tx EXCEPT ![w] = t] /\ UNCHANGED <<alert, tableVars, notices, edits, faults>>
    BY <1>0 DEF CollectEvalDevices, Inv, TxPart, Txs
  <1>2. DOMAIN seen = active /\ active \subseteq Devices /\ seen \in [active -> Telemetry]
    BY DEF Inv, TablePart
  <1> HIDE DEF seen
  <1>3. seen \in UNION {[ds -> Telemetry] : ds \in SUBSET Devices}
    BY <1>2
  <1>4. /\ t.at = "collected" /\ t.todo = active /\ t.seen = seen /\ t.closed = tx[w].closed
        /\ t.found = tx[w].found /\ t.left = tx[w].left /\ t.sent = tx[w].sent
        /\ t.inserted = tx[w].inserted
    BY <1>0 DEF Txs
  <1>5. t \in Txs
    BY <1>0, <1>2, <1>3 DEF Txs
  <1>6. tx[w].found = {} /\ tx[w].left = {} /\ DOMAIN tx[w].inserted = {} /\ tx[w].sent = {}
    BY <1>0 DEF TxFits, CollectEvalDevices
  <1> HIDE DEF t
  <1>7. TxFits(t) /\ NotesFit(t) /\ LocksFit(w, t)
    BY <1>0, <1>2, <1>4, <1>6 DEF TxFits, NotesFit, LocksFit
  <1> QED
    BY <1>1, <1>5, <1>7, OneMoves

\* EvaluateDevice: the findings are about a device whose turn had not come.
LEMMA EvaluateInv ==
  ASSUME Inv, NEW w \in Workers, NEW d \in tx[w].todo, EvaluateDevice(w, d)
  PROVE  Inv'
  <1> DEFINE eff == EffectiveFor(tx[w].policies, Place[d])
             st  == EvalState(tx[w].seen[d])
             fs  == Evaluate(eff, d, st)
             mine == {i \in Firing \ tx[w].closed : KeyOf(i)[1] = d}
             conf == {rt \in RuleTypes : eff[rt] # Null}
             found == {f \in fs : f.key \notin {KeyOf(i) : i \in mine}}
             open == {f.key : f \in fs}
             done == Evaluated(eff, st)
             t == [tx[w] EXCEPT !.todo = @ \ {d}, !.configured = conf, !.evaluated = done,
                     !.found = found, !.open = open, !.left = mine]
  <1>0. tx[w] \in Txs /\ TxFits(tx[w]) /\ LocksFit(w, tx[w]) /\ NotesFit(tx[w])
    BY OneTx
  <1>1. tx' = [tx EXCEPT ![w] = t] /\ UNCHANGED <<alert, tableVars, notices, edits, faults>>
    BY <1>0 DEF EvaluateDevice, Inv, TxPart, Txs
  <1>2. fs \subseteq Findings /\ (\A f \in fs : f.key[1] = d) /\ (\A f, g \in fs : f.key = g.key => f = g)
    <2>1. tx[w].at = "collected" /\ d \in DOMAIN tx[w].seen /\ d \in Devices
      BY <1>0 DEF EvaluateDevice, TxFits, Txs
    <2>2. tx[w].seen[d] \in Telemetry /\ tx[w].policies \in Seq(PolicyRows)
      BY <1>0, <2>1 DEF Txs
    <2> QED
      BY <2>1, <2>2, FindingsFit
  <1> HIDE DEF fs, eff, st
  <1>3. /\ mine \subseteq Ids /\ conf \subseteq RuleTypes /\ done \subseteq RuleTypes
        /\ found \subseteq fs /\ found \subseteq Findings /\ open \subseteq Keys
    BY <1>2 DEF Firing, Evaluated, Findings
  <1> HIDE DEF mine, conf, found, open, done
  <1>4. /\ t.at = tx[w].at /\ t.todo = tx[w].todo \ {d} /\ t.seen = tx[w].seen /\ t.closed = tx[w].closed
        /\ t.found = found /\ t.left = mine /\ t.sent = tx[w].sent /\ t.inserted = tx[w].inserted
    BY <1>0 DEF Txs
  <1>5. t \in Txs
    BY <1>0, <1>3 DEF Txs
  <1>6. tx[w].at = "collected"
    BY DEF EvaluateDevice
  <1> HIDE DEF t
  <1>7. NotesFit(t) /\ LocksFit(w, t)
    BY <1>0, <1>4 DEF NotesFit, LocksFit
  <1>8. TxFits(t)
    <2>1. \A f \in found : \A i \in DOMAIN tx[w].inserted : tx[w].inserted[i].key # f.key
      BY <1>0, <1>2, <1>3 DEF TxFits
    <2> QED
      BY <1>0, <1>2, <1>3, <1>4, <1>6, <2>1 DEF TxFits
  <1> QED
    BY <1>1, <1>5, <1>7, <1>8, OneMoves

\* A new alert takes a row that is not in use.
LEMMA FreshId ==
  ASSUME Inv, Ids # Used
  PROVE  LET i == Min(Ids \ Used) IN
         i \in Ids /\ i \notin Firing /\ \A v \in Workers : i \notin Inserted(v)
  <1>1. \A v \in Workers : Inserted(v) \cup tx[v].left \cup tx[v].closed \subseteq Ids
    <2>1. ASSUME NEW v \in Workers PROVE tx[v] \in Txs
      BY OneTx
    <2> QED
      BY <2>1 DEF Txs, Inserted
  <1>2. Used \subseteq Ids
    BY <1>1 DEF Used, Firing
  <1>3. Ids \subseteq Nat
    BY AlertAssumption DEF Ids
  <1>4. Ids \ Used \subseteq Nat /\ Ids \ Used # {}
    BY <1>2, <1>3
  <1>5. Min(Ids \ Used) \in Ids \ Used
    BY <1>4, LeastIn
  <1>6. Firing \subseteq Used /\ \A v \in Workers : Inserted(v) \subseteq Used
    BY DEF Used
  <1> QED
    BY <1>5, <1>6

\* OpenAlert inserts a row under a key that nobody has, or nothing.
LEMMA OpenInv ==
  ASSUME Inv, NEW w \in Workers, NEW f \in tx[w].found, OpenAlert(w, f)
  PROVE  Inv'
  <1> DEFINE id == Min(Ids \ Used)
             ins == [j \in Inserted(w) \cup {id} |-> IF j = id THEN NewAlert(f) ELSE tx[w].inserted[j]]
             notes == EnqueueDeliveries(id, f.channels, "fired")
             s == [tx[w] EXCEPT !.found = @ \ {f}, !.wait = Null]
             t == [tx[w] EXCEPT !.found = @ \ {f}, !.wait = Null, !.inserted = ins, !.sent = @ \cup notes]
  <1>0. tx[w] \in Txs /\ TxFits(tx[w]) /\ LocksFit(w, tx[w]) /\ NotesFit(tx[w])
    BY OneTx
  <1>1. id \in Ids /\ id \notin Firing /\ \A v \in Workers : id \notin Inserted(v)
    BY FreshId DEF OpenAlert
  <1>2. UNCHANGED <<alert, tableVars, notices, edits, faults>> /\ ~IsHeld(w, f.key)
    BY DEF OpenAlert, Gets
  <1>3. f \in Findings /\ NewAlert(f) \in NewRows /\ tx[w].at = "collected"
    BY <1>0 DEF Txs, TxFits, Findings, NewRows, NewAlert
  <1> HIDE DEF id
  <1>4. CASE \E j \in Firing : KeyOf(j) = f.key
    <2>1. tx' = [tx EXCEPT ![w] = s]
      BY <1>0, <1>4 DEF OpenAlert, Inv, TxPart, Txs
    <2>2. s \in Txs
      BY <1>0 DEF Txs
    <2>3. /\ s.at = tx[w].at /\ s.todo = tx[w].todo /\ s.seen = tx[w].seen /\ s.closed = tx[w].closed
          /\ s.found = tx[w].found \ {f} /\ s.left = tx[w].left /\ s.sent = tx[w].sent
          /\ s.inserted = tx[w].inserted
      BY <1>0 DEF Txs
    <2> HIDE DEF s
    <2>4. TxFits(s) /\ NotesFit(s) /\ LocksFit(w, s)
      BY <1>0, <2>3 DEF TxFits, NotesFit, LocksFit
    <2> QED
      BY <1>2, <2>1, <2>2, <2>4, OneMoves
  <1>5. CASE ~\E j \in Firing : KeyOf(j) = f.key
    <2>1. tx' = [tx EXCEPT ![w] = t]
      BY <1>0, <1>5 DEF OpenAlert, Inv, TxPart, Txs, id
    <2>2. /\ DOMAIN ins = Inserted(w) \cup {id} /\ ins[id] = NewAlert(f)
          /\ \A j \in Inserted(w) : ins[j] = tx[w].inserted[j]
      BY <1>1
    <2>3. ins \in UNION {[is -> NewRows] : is \in SUBSET Ids}
      <3>1. Inserted(w) \subseteq Ids /\ tx[w].inserted \in [Inserted(w) -> NewRows]
        BY <1>0 DEF Txs, Inserted
      <3>2. ins \in [Inserted(w) \cup {id} -> NewRows]
        BY <1>3, <3>1
      <3> QED
        BY <1>1, <3>1, <3>2
    <2>4. \A n : n \in notes <=> \E c \in f.channels \cap channel : n = <<id, c, "fired">>
      BY DEF EnqueueDeliveries
    <2>5. notes \subseteq Notes
      BY <1>1, <1>3, <2>4 DEF Notes, Events, Findings
    <2> HIDE DEF ins, notes
    <2>6. t \in Txs
      BY <1>0, <2>3, <2>5 DEF Txs
    <2>7. /\ t.at = tx[w].at /\ t.todo = tx[w].todo /\ t.seen = tx[w].seen /\ t.closed = tx[w].closed
          /\ t.found = tx[w].found \ {f} /\ t.left = tx[w].left /\ t.sent = tx[w].sent \cup notes
          /\ t.inserted = ins
      BY <1>0 DEF Txs
    <2>8. NewAlert(f).key = f.key /\ NewAlert(f).channels = f.channels
      BY DEF NewAlert
    <2> HIDE DEF t
    <2>9. TxFits(t)
      BY <1>0, <1>1, <1>3, <2>2, <2>7, <2>8 DEF TxFits, Inserted
    <2>10. LocksFit(w, t)
      <3>1. /\ t.closed \subseteq Firing
            /\ \A i \in DOMAIN t.inserted, j \in Firing : i # j /\ t.inserted[i].key # KeyOf(j)
        BY <1>0, <1>1, <1>5, <2>2, <2>7, <2>8 DEF LocksFit, Inserted
      <3>2. ASSUME NEW v \in Others(w)
            PROVE  /\ t.closed \cap tx[v].closed = {}
                   /\ \A i \in DOMAIN t.inserted, j \in Inserted(v) :
                        i # j /\ t.inserted[i].key # tx[v].inserted[j].key
        <4>1. id \notin Inserted(v) /\ \A j \in Inserted(v) : tx[v].inserted[j].key # f.key
          BY <1>1, <1>2, NotHeld DEF Others
        <4> QED
          BY <1>0, <2>2, <2>7, <2>8, <4>1 DEF LocksFit, Inserted
      <3> QED
        BY <3>1, <3>2 DEF LocksFit
    <2>11. NotesFit(t)
      BY <1>0, <1>1, <2>2, <2>4, <2>7, <2>8 DEF NotesFit, Inserted
    <2> QED
      BY <1>2, <2>1, <2>6, <2>9, <2>10, <2>11, OneMoves
  <1> QED
    BY <1>4, <1>5

\* ResolveAlert closes a firing alert that no other transaction closes.
LEMMA ResolveInv ==
  ASSUME Inv, NEW w \in Workers, NEW id \in tx[w].left, ResolveAlert(w, id)
  PROVE  Inv'
  <1> DEFINE closed == IF Verdict(w, id) = "keep" THEN tx[w].closed ELSE tx[w].closed \cup {id}
             sent == IF Verdict(w, id) = "announce"
                     THEN tx[w].sent \cup EnqueueDeliveries(id, alert[id].channels, "resolved") ELSE tx[w].sent
             t == [tx[w] EXCEPT !.left = @ \ {id}, !.wait = Null, !.closed = closed, !.sent = sent]
  <1>0. tx[w] \in Txs /\ TxFits(tx[w]) /\ LocksFit(w, tx[w]) /\ NotesFit(tx[w])
    BY OneTx
  <1>1. tx' = [tx EXCEPT ![w] = t] /\ UNCHANGED <<alert, tableVars, notices, edits, faults>>
    BY <1>0 DEF ResolveAlert, Inv, TxPart, Txs
  <1>2. id \in Ids /\ tx[w].at = "collected"
    BY <1>0 DEF Txs, TxFits
  <1>3. Verdict(w, id) # "keep" => id \in Firing /\ ~IsHeld(w, KeyOf(id))
    BY DEF ResolveAlert, Gets
  <1>4. id \in Firing => alert[id].channels \subseteq Channels
    BY <1>2 DEF Inv, TablePart, Firing, AlertRows
  <1>5. /\ tx[w].closed \subseteq closed /\ closed \subseteq tx[w].closed \cup {id}
        /\ (id \in closed /\ id \notin tx[w].closed => id \in Firing /\ ~IsHeld(w, KeyOf(id)))
        /\ tx[w].sent \subseteq sent
        /\ \A n \in sent : \/ n \in tx[w].sent
                          \/ /\ \E c \in alert[id].channels \cap channel : n = <<id, c, "resolved">>
                             /\ id \in closed /\ id \in Firing
    BY <1>3 DEF EnqueueDeliveries
  <1> HIDE DEF closed, sent
  <1>6. t \in Txs
    <2>1. closed \subseteq Ids
      BY <1>0, <1>2, <1>5 DEF Txs
    <2>2. sent \subseteq Notes
      BY <1>0, <1>2, <1>4, <1>5 DEF Txs, Notes, Events
    <2> QED
      BY <1>0, <2>1, <2>2 DEF Txs
  <1>7. /\ t.at = tx[w].at /\ t.todo = tx[w].todo /\ t.seen = tx[w].seen /\ t.closed = closed
        /\ t.found = tx[w].found /\ t.left = tx[w].left \ {id} /\ t.sent = sent
        /\ t.inserted = tx[w].inserted
    BY <1>0 DEF Txs
  <1> HIDE DEF t
  <1>8. TxFits(t)
    BY <1>0, <1>2, <1>7 DEF TxFits
  <1>9. LocksFit(w, t)
    <2>1. \A v \in Others(w) : closed \cap tx[v].closed = {}
      BY <1>0, <1>5, NotHeld DEF LocksFit
    <2> QED
      BY <1>0, <1>5, <1>7, <2>1 DEF LocksFit
  <1>10. NotesFit(t)
    BY <1>0, <1>5, <1>7 DEF NotesFit
  <1> QED
    BY <1>1, <1>6, <1>8, <1>9, <1>10, OneMoves

\* A statement waits.
LEMMA AwaitInv ==
  ASSUME Inv, NEW w \in Workers, NEW key \in Keys \cup {Null}, AwaitKey(w, key)
  PROVE  Inv'
  <1> DEFINE t == [tx[w] EXCEPT !.wait = key]
  <1>0. tx[w] \in Txs /\ TxFits(tx[w]) /\ LocksFit(w, tx[w]) /\ NotesFit(tx[w])
    BY OneTx
  <1>1. tx' = [tx EXCEPT ![w] = t] /\ UNCHANGED <<alert, tableVars, notices, edits, faults>>
    BY <1>0 DEF AwaitKey, Inv, TxPart, Txs
  <1>2. t \in Txs
    BY <1>0 DEF Txs
  <1>3. SameWork(tx[w], t)
    BY <1>0 DEF Txs, SameWork
  <1> HIDE DEF t
  <1>4. TxFits(t) /\ NotesFit(t) /\ LocksFit(w, t)
    BY <1>0, <1>3 DEF TxFits, NotesFit, LocksFit, SameWork
  <1> QED
    BY <1>1, <1>2, <1>4, OneMoves

\* The end of a transaction touches nothing of the others but whom they met.
LEMMA EndTxFits ==
  ASSUME Inv, NEW w \in Workers, NEW met \in SUBSET Workers, EndTx(w, met)
  PROVE  /\ tx' \in [Workers -> Txs] /\ \A v \in Others(w) : SameWork(tx[v], tx'[v])
         /\ SameWork(NoTx, tx'[w])
  <1>1. ASSUME NEW v \in Workers
        PROVE  /\ tx[v] \in Txs /\ [tx[v] EXCEPT !.met = @ \ {w}] \in Txs
               /\ SameWork(tx[v], [tx[v] EXCEPT !.met = @ \ {w}])
    <2>1. tx[v] \in Txs
      BY OneTx
    <2> QED
      BY <2>1 DEF Txs, SameWork
  <1>2. [NoTx EXCEPT !.met = met] \in Txs /\ SameWork(NoTx, [NoTx EXCEPT !.met = met])
    BY NoTxFits DEF Txs, SameWork
  <1>3. tx' = [v \in Workers |-> IF v = w THEN [NoTx EXCEPT !.met = met] ELSE [tx[v] EXCEPT !.met = @ \ {w}]]
    BY DEF EndTx
  <1>4. \A v \in Others(w) : v \in Workers /\ v # w
    BY DEF Others
  <1> QED
    BY <1>1, <1>2, <1>3, <1>4

\* A transaction that is rolled back leaves no trace.
LEMMA FailsInv ==
  ASSUME Inv, NEW w \in Workers, EvaluationFails(w)
  PROVE  Inv'
  <1>1. EndTx(w, {v \in Others(w) : tx[v].at # "idle"}) /\ UNCHANGED <<alert, tableVars, notices, edits>>
    BY DEF EvaluationFails
  <1>2. faults' \in 0 .. MaxFaults
    BY AlertAssumption DEF EvaluationFails, Inv, TablePart
  <1>3. {v \in Others(w) : tx[v].at # "idle"} \in SUBSET Workers
    BY DEF Others
  <1>4. /\ tx' \in [Workers -> Txs] /\ \A v \in Others(w) : SameWork(tx[v], tx'[v])
        /\ SameWork(NoTx, tx'[w])
    BY <1>1, <1>3, EndTxFits
  <1>5. tx'[w] \in Txs /\ TxFits(tx'[w])
    BY <1>4, NoTxFits DEF TxFits, SameWork
  <1>6. LocksFit(w, tx'[w]) /\ NotesFit(tx'[w])
    BY <1>4, NoTxFits DEF LocksFit, NotesFit, SameWork
  <1> QED
    BY <1>1, <1>2, <1>4, <1>5, <1>6, WorkerMoves

\* What a commit makes of the alerts: the inserted rows fire, the closed ones
\* do not, and every other row stays as it is.
LEMMA CommitRows ==
  ASSUME Inv, NEW w \in Workers, CommitEvaluation(w)
  PROVE  /\ alert' \in [Ids -> AlertRows]
         /\ Inserted(w) \subseteq Ids /\ Inserted(w) \cap Firing = {} /\ tx[w].closed \subseteq Firing
         /\ Firing' = (Firing \ tx[w].closed) \cup Inserted(w)
         /\ \A i \in Inserted(w) : alert'[i] = tx[w].inserted[i]
         /\ \A i \in Ids \ Inserted(w) : alert'[i].key = alert[i].key /\ alert'[i].channels = alert[i].channels
  <1>0. tx[w] \in Txs /\ LocksFit(w, tx[w])
    BY OneTx
  <1>1. Inserted(w) \subseteq Ids /\ \A i \in Inserted(w) : tx[w].inserted[i] \in NewRows
    BY <1>0 DEF Txs, Inserted
  <1>2. Inserted(w) \cap Firing = {} /\ tx[w].closed \subseteq Firing /\ Firing \subseteq Ids
    BY <1>0 DEF LocksFit, Inserted, Firing
  <1>3. NewRows \subseteq AlertRows /\ \A r \in NewRows : r.firing
    BY DEF NewRows, AlertRows
  <1>4. \A i \in Ids : alert[i] \in AlertRows
    BY DEF Inv, TablePart
  <1>5. ASSUME NEW r \in AlertRows
        PROVE  /\ [r EXCEPT !.firing = FALSE] \in AlertRows
               /\ [r EXCEPT !.firing = FALSE].key = r.key /\ [r EXCEPT !.firing = FALSE].channels = r.channels
               /\ ~[r EXCEPT !.firing = FALSE].firing
    BY DEF AlertRows
  <1>6. \A i \in Firing : alert[i] \in AlertRows
    BY <1>4 DEF Firing
  <1>7. alert' = [i \in Ids |-> IF i \in Inserted(w) THEN tx[w].inserted[i]
                               ELSE IF i \in tx[w].closed THEN [alert[i] EXCEPT !.firing = FALSE]
                               ELSE alert[i]]
    BY DEF CommitEvaluation
  <1>8. \A i \in Inserted(w) : alert'[i] = tx[w].inserted[i]
    BY <1>1, <1>7
  <1>9. \A i \in tx[w].closed : alert'[i] = [alert[i] EXCEPT !.firing = FALSE]
    BY <1>2, <1>7
  <1>10. \A i \in Ids : i \notin Inserted(w) /\ i \notin tx[w].closed => alert'[i] = alert[i]
    BY <1>7
  <1>11. alert' \in [Ids -> AlertRows]
    <2>1. ASSUME NEW i \in Ids PROVE alert'[i] \in AlertRows
      <3>1. CASE i \in Inserted(w)
        BY <1>1, <1>3, <1>8, <3>1
      <3>2. CASE i \notin Inserted(w) /\ i \in tx[w].closed
        BY <1>2, <1>5, <1>6, <1>9, <3>2
      <3>3. CASE i \notin Inserted(w) /\ i \notin tx[w].closed
        BY <1>4, <1>10, <3>3
      <3> QED
        BY <3>1, <3>2, <3>3
    <2> QED
      BY <1>7, <2>1
  <1>12. \A i \in Ids \ Inserted(w) : alert'[i].key = alert[i].key /\ alert'[i].channels = alert[i].channels
    BY <1>2, <1>5, <1>6, <1>9, <1>10
  <1>13. Firing' = (Firing \ tx[w].closed) \cup Inserted(w)
    <2>1. ASSUME NEW i \in Ids
          PROVE  alert'[i].firing <=> (i \in Firing /\ i \notin tx[w].closed) \/ i \in Inserted(w)
      <3>1. CASE i \in Inserted(w)
        BY <1>1, <1>3, <1>8, <3>1
      <3>2. CASE i \notin Inserted(w) /\ i \in tx[w].closed
        BY <1>2, <1>5, <1>6, <1>9, <3>2
      <3>3. CASE i \notin Inserted(w) /\ i \notin tx[w].closed
        BY <1>10, <3>3 DEF Firing
      <3> QED
        BY <3>1, <3>2, <3>3
    <2> QED
      BY <1>1, <1>2, <2>1 DEF Firing
  <1> QED
    BY <1>1, <1>2, <1>8, <1>11, <1>12, <1>13

\* CommitEvaluation: the rows and the notices of a transaction appear together.
LEMMA CommitInv ==
  ASSUME Inv, NEW w \in Workers, CommitEvaluation(w)
  PROVE  Inv'
  <1>0. tx[w] \in Txs /\ TxFits(tx[w]) /\ LocksFit(w, tx[w]) /\ NotesFit(tx[w])
    BY OneTx
  <1>1. /\ alert' \in [Ids -> AlertRows]
        /\ Inserted(w) \subseteq Ids /\ Inserted(w) \cap Firing = {} /\ tx[w].closed \subseteq Firing
        /\ Firing' = (Firing \ tx[w].closed) \cup Inserted(w)
        /\ \A i \in Inserted(w) : alert'[i] = tx[w].inserted[i]
        /\ \A i \in Ids \ Inserted(w) : alert'[i].key = alert[i].key /\ alert'[i].channels = alert[i].channels
    BY CommitRows
  <1>2. UNCHANGED <<policies, channel, tele, active, edits, faults>> /\ EndTx(w, {})
    BY DEF CommitEvaluation, tableVars
  <1>3. /\ tx' \in [Workers -> Txs] /\ \A v \in Others(w) : SameWork(tx[v], tx'[v])
        /\ SameWork(NoTx, tx'[w])
    BY <1>2, EndTxFits
  <1>4. \A v \in Workers : v = w \/ v \in Others(w)
    BY DEF Others
  <1>5. Firing \subseteq Ids /\ \A i \in Firing : i \notin Inserted(w)
    BY <1>1 DEF Firing
  <1>6. \A i \in Ids, c \in Channels, e \in Events :
          notices'[i][<<c, e>>] = (IF i \in Inserted(w) THEN 0 ELSE notices[i][<<c, e>>])
                                   + (IF <<i, c, e>> \in tx[w].sent THEN 1 ELSE 0)
    BY DEF CommitEvaluation
  <1>7. TablePart'
    <2>1. notices' \in [Ids -> [Channels \X Events -> Nat]]
      <3>1. ASSUME NEW i \in Ids, NEW e \in Channels \X Events
            PROVE  (IF i \in Inserted(w) THEN 0 ELSE notices[i][e])
                     + (IF <<i, e[1], e[2]>> \in tx[w].sent THEN 1 ELSE 0) \in Nat
        <4>1. notices[i][e] \in Nat
          BY DEF Inv, TablePart
        <4> QED
          BY <4>1
      <3> QED
        BY <3>1 DEF CommitEvaluation
    <2> QED
      BY <1>1, <1>2, <2>1 DEF Inv, TablePart
  <1>8. TxPart'
    <2>1. ASSUME NEW v \in Workers PROVE TxFits(tx'[v])
      <3>1. CASE v = w
        BY <1>3, <3>1, NoTxFits DEF TxFits, SameWork
      <3>2. CASE v \in Others(w)
        <4>1. TxFits(tx[v]) /\ SameWork(tx[v], tx'[v])
          BY <1>3, <3>2, OneTx
        <4> QED
          BY <4>1 DEF TxFits, SameWork
      <3> QED
        BY <1>4, <3>1, <3>2
    <2> QED
      BY <1>3, <2>1 DEF TxPart
  <1>9. LockPart'
    <2>1. OneFiringAlert'
      <3>1. ASSUME NEW i \in Firing', NEW j \in Firing', alert'[i].key = alert'[j].key PROVE i = j
        <4>1. CASE i \in Inserted(w) /\ j \in Inserted(w)
          BY <1>0, <1>1, <3>1, <4>1 DEF TxFits, Inserted
        <4>2. CASE i \in Firing /\ j \in Inserted(w)
          BY <1>0, <1>1, <1>5, <3>1, <4>2 DEF LocksFit, Inserted, KeyOf
        <4>3. CASE i \in Inserted(w) /\ j \in Firing
          BY <1>0, <1>1, <1>5, <3>1, <4>3 DEF LocksFit, Inserted, KeyOf
        <4>4. CASE i \in Firing /\ j \in Firing
          BY <1>1, <1>5, <3>1, <4>4 DEF Inv, LockPart, OneFiringAlert, KeyOf
        <4> QED
          BY <1>1, <4>1, <4>2, <4>3, <4>4
      <3> QED
        BY <3>1 DEF OneFiringAlert, KeyOf
    <2>2. ASSUME NEW v \in Others(w) PROVE LocksFit(v, tx[v])'
      <3>1. v \in Workers /\ w \in Others(v) /\ \A u \in Others(v) : u = w \/ u \in Others(w)
        BY DEF Others
      <3>2. LocksFit(v, tx[v]) /\ SameWork(tx[v], tx'[v])
        BY <1>3, <3>1 DEF Inv, LockPart
      <3>3. tx[v].closed \subseteq Firing /\ tx[v].closed \cap tx[w].closed = {}
        BY <3>1, <3>2 DEF LocksFit
      <3>4. tx'[v].closed \subseteq Firing'
        BY <1>1, <3>2, <3>3 DEF SameWork
      <3>5. ASSUME NEW i \in Inserted(v), NEW j \in Firing'
            PROVE  i # j /\ tx[v].inserted[i].key # alert'[j].key
        <4>1. CASE j \in Inserted(w)
          BY <1>1, <3>1, <3>2, <4>1 DEF LocksFit, Inserted
        <4>2. CASE j \in Firing
          BY <1>1, <1>5, <3>2, <4>2 DEF LocksFit, Inserted, KeyOf
        <4> QED
          BY <1>1, <4>1, <4>2
      <3>6. ASSUME NEW u \in Others(v)
            PROVE  /\ tx'[v].closed \cap tx'[u].closed = {}
                   /\ \A i \in DOMAIN tx'[v].inserted, j \in DOMAIN tx'[u].inserted :
                        i # j /\ tx'[v].inserted[i].key # tx'[u].inserted[j].key
        <4>1. CASE u = w
          BY <1>3, <4>1, NoTxFits DEF SameWork
        <4>2. CASE u \in Others(w)
          BY <1>3, <3>2, <4>2 DEF LocksFit, Inserted, SameWork
        <4> QED
          BY <3>1, <4>1, <4>2
      <3> QED
        BY <3>2, <3>4, <3>5, <3>6 DEF LocksFit, Inserted, Others, KeyOf, SameWork
    <2>3. LocksFit(w, tx[w])'
      BY <1>3, NoTxFits DEF LocksFit, SameWork
    <2> QED
      BY <1>4, <2>1, <2>2, <2>3 DEF LockPart
  <1>10. NoticePart'
    <2>0. ASSUME NEW i \in Ids, NEW c \in Channels
          PROVE  /\ notices[i][<<c, "fired">>] \in Nat /\ notices[i][<<c, "resolved">>] \in Nat
                 /\ notices'[i][<<c, "fired">>] = (IF i \in Inserted(w) THEN 0 ELSE notices[i][<<c, "fired">>])
                                   + (IF <<i, c, "fired">> \in tx[w].sent THEN 1 ELSE 0)
                 /\ notices'[i][<<c, "resolved">>] = (IF i \in Inserted(w) THEN 0 ELSE notices[i][<<c, "resolved">>])
                                   + (IF <<i, c, "resolved">> \in tx[w].sent THEN 1 ELSE 0)
      BY <1>6 DEF Inv, TablePart, Events
    <2>1. ASSUME NEW i \in Ids, NEW c \in Channels
          PROVE  /\ notices'[i][<<c, "resolved">>] <= notices'[i][<<c, "fired">>]
                 /\ notices'[i][<<c, "fired">>] <= 1
                 /\ notices'[i][<<c, "resolved">>] = 1 => i \notin Firing'
      <3>1. /\ notices[i][<<c, "resolved">>] <= notices[i][<<c, "fired">>]
            /\ notices[i][<<c, "fired">>] <= 1
            /\ notices[i][<<c, "resolved">>] = 1 => i \notin Firing
        BY DEF Inv, NoticePart, NoticesPair
      <3>2. /\ <<i, c, "fired">> \in tx[w].sent => i \in Inserted(w)
            /\ <<i, c, "resolved">> \in tx[w].sent => i \in tx[w].closed /\ c \in alert[i].channels \cap channel
        BY <1>0 DEF NotesFit, Inserted
      <3>3. CASE i \in Inserted(w)
        BY <1>1, <2>0, <3>2, <3>3
      <3>4. CASE i \notin Inserted(w) /\ i \in tx[w].closed
        <4>1. <<i, c, "resolved">> \in tx[w].sent => notices[i][<<c, "fired">>] = 1
          BY <1>1, <3>2 DEF Inv, NoticePart
        <4>2. /\ notices[i][<<c, "fired">>] \in Nat /\ notices[i][<<c, "resolved">>] \in Nat
              /\ notices'[i][<<c, "fired">>] = notices[i][<<c, "fired">>]
              /\ notices'[i][<<c, "resolved">>] = notices[i][<<c, "resolved">>]
                                   + (IF <<i, c, "resolved">> \in tx[w].sent THEN 1 ELSE 0)
          BY <2>0, <3>2, <3>4
        <4>3. i \in Firing /\ i \notin Firing'
          BY <1>1, <3>4
        <4>4. notices[i][<<c, "resolved">>] = 0
          BY <3>1, <4>2, <4>3
        <4> QED
          BY <3>1, <4>1, <4>2, <4>3, <4>4
      <3>5. CASE i \notin Inserted(w) /\ i \notin tx[w].closed
        BY <1>1, <2>0, <3>1, <3>2, <3>5
      <3> QED
        BY <3>3, <3>4, <3>5
    <2>2. ASSUME NEW i \in Firing', NEW c \in alert'[i].channels \cap channel
          PROVE  notices'[i][<<c, "fired">>] = 1
      <3>0. i \in Ids /\ c \in Channels
        BY <1>1, <1>5 DEF Inv, TablePart
      <3>1. CASE i \in Inserted(w)
        <4>1. <<i, c, "fired">> \in tx[w].sent
          BY <1>0, <1>1, <3>1 DEF NotesFit, Inserted
        <4>2. notices'[i][<<c, "fired">>] = 0 + 1
          BY <2>0, <3>0, <3>1, <4>1
        <4> QED
          BY <4>2
      <3>2. CASE i \notin Inserted(w)
        <4>1. i \in Firing /\ notices[i][<<c, "fired">>] = 1
          BY <1>1, <3>0, <3>2 DEF Inv, NoticePart
        <4>2. <<i, c, "fired">> \notin tx[w].sent
          BY <1>0, <3>0, <3>2 DEF NotesFit, Inserted
        <4>3. notices'[i][<<c, "fired">>] = notices[i][<<c, "fired">>] + 0
          BY <2>0, <3>0, <3>2, <4>2
        <4> QED
          BY <4>1, <4>3
      <3> QED
        BY <3>1, <3>2
    <2>3. ASSUME NEW v \in Workers PROVE NotesFit(tx[v])'
      <3>1. CASE v = w
        BY <1>3, <3>1, NoTxFits DEF NotesFit, SameWork
      <3>2. CASE v \in Others(w)
        <4>1. NotesFit(tx[v]) /\ SameWork(tx[v], tx'[v]) /\ tx[v].closed \subseteq Firing
          BY <1>3, <3>2, OneTx DEF LocksFit
        <4>2. \A i \in tx[v].closed : alert'[i].channels = alert[i].channels
          BY <1>1, <1>5, <4>1
        <4> QED
          BY <1>2, <4>1, <4>2 DEF NotesFit, SameWork
      <3> QED
        BY <1>4, <3>1, <3>2
    <2> QED
      BY <1>2, <2>1, <2>2, <2>3 DEF NoticePart, NoticesPair
  <1> QED
    BY <1>7, <1>8, <1>9, <1>10 DEF Inv

-----------------------------------------------------------------------------
(* The dashboard and the agents.                                           *)

\* A request leaves the keys, the channels and the state of the alerts alone.
LEMMA RowsKeep ==
  ASSUME Inv, TablePart', UNCHANGED <<channel, notices, tx>>,
         \A i \in Ids : /\ alert'[i].key = alert[i].key /\ alert'[i].channels = alert[i].channels
                        /\ alert'[i].firing = alert[i].firing
  PROVE  Inv'
  <1>1. Firing' = Firing /\ Firing \subseteq Ids
    BY DEF Firing
  <1>2. TxPart'
    BY DEF Inv, TxPart
  <1>3. LockPart'
    <2>1. OneFiringAlert'
      BY <1>1 DEF Inv, LockPart, OneFiringAlert, KeyOf
    <2>2. ASSUME NEW w \in Workers PROVE LocksFit(w, tx[w])'
      BY <1>1 DEF Inv, LockPart, LocksFit, KeyOf, Inserted, Others
    <2> QED
      BY <2>1, <2>2 DEF LockPart
  <1>4. NoticePart'
    <2>1. ASSUME NEW w \in Workers PROVE NotesFit(tx[w])'
      BY DEF Inv, NoticePart, NotesFit
    <2>2. ASSUME NEW i \in Firing, NEW c \in alert'[i].channels \cap channel
          PROVE  notices[i][<<c, "fired">>] = 1
      BY <1>1 DEF Inv, NoticePart
    <2> QED
      BY <1>1, <2>1, <2>2 DEF Inv, NoticePart, NoticesPair
  <1> QED
    BY <1>2, <1>3, <1>4 DEF Inv

\* Requests and reports are counted.
LEMMA EditFits ==
  ASSUME Inv, Edit
  PROVE  edits' \in 0 .. MaxEdits
  BY AlertAssumption DEF Inv, TablePart, Edit

\* Creating and changing a policy.
LEMMA PoliciesInv ==
  ASSUME Inv, NEW b \in Bodies, CreatePolicy(b) \/ \E n \in DOMAIN policies : UpdatePolicy(n, b)
  PROVE  Inv'
  <1>1. /\ UNCHANGED <<alert, channel, tele, active, notices, tx, faults>> /\ ValidPolicy(b)
        /\ edits' \in 0 .. MaxEdits
    BY EditFits DEF CreatePolicy, UpdatePolicy
  <1>2. \A id \in Policies : PolicyRow(id, b) \in PolicyRows
    <2>1. ASSUME NEW id \in Policies PROVE PolicyRow(id, b) \in PolicyRows
      <3>1. <<id, b>> \in Policies \X {c \in Bodies : ValidPolicy(c)}
        BY <1>1
      <3> QED
        BY <3>1 DEF PolicyRows
    <2> QED
      BY <2>1
  <1>3. policies' \in Seq(PolicyRows)
    <2>1. CASE CreatePolicy(b)
      <3> DEFINE IdsIn(ps) == {ps[i].id : i \in DOMAIN ps}
                 free == Policies \ (IdsIn(policies) \cup UNION {IdsIn(tx[w].policies) : w \in Workers})
      <3>1. free # {} /\ policies' = Append(policies, PolicyRow(Min(free), b))
        BY <2>1 DEF CreatePolicy
      <3>2. free \subseteq Policies
        OBVIOUS
      <3> HIDE DEF free
      <3>3. Policies \subseteq Nat
        BY AlertAssumption DEF Policies
      <3>4. Min(free) \in Policies
        BY <3>1, <3>2, <3>3, LeastIn
      <3> QED
        BY <1>2, <3>1, <3>4 DEF Inv, TablePart
    <2>2. CASE \E n \in DOMAIN policies : UpdatePolicy(n, b)
      <3> PICK n \in DOMAIN policies : UpdatePolicy(n, b)
        BY <2>2
      <3>1. policies[n] \in PolicyRows
        BY DEF Inv, TablePart
      <3>2. policies[n].id \in Policies
        BY <3>1, RowsAreValid
      <3> QED
        BY <1>2, <3>2 DEF UpdatePolicy, Inv, TablePart
    <2> QED
      BY <2>1, <2>2
  <1>4. TablePart'
    BY <1>1, <1>3 DEF Inv, TablePart
  <1> QED
    BY <1>1, <1>4, RowsKeep

\* Deleting a policy takes the reference to it from the alerts.
LEMMA DeletePolicyInv ==
  ASSUME Inv, NEW n \in DOMAIN policies, DeletePolicy(n)
  PROVE  Inv'
  <1> DEFINE p == policies[n].id
  <1>1. UNCHANGED <<channel, tele, active, notices, tx, faults>> /\ edits' \in 0 .. MaxEdits
    BY EditFits DEF DeletePolicy
  <1>2. policies' \in Seq(PolicyRows)
    <2>1. policies \in Seq(PolicyRows) /\ n \in 1 .. Len(policies) /\ Len(policies) \in Nat
      BY DEF Inv, TablePart
    <2>2. SubSeq(policies, 1, n - 1) \in Seq(PolicyRows)
      BY <2>1
    <2>3. SubSeq(policies, n + 1, Len(policies)) \in Seq(PolicyRows)
      BY <2>1
    <2> QED
      BY <2>2, <2>3 DEF DeletePolicy, RemoveAt
  <1>3. \A r \in AlertRows :
          /\ [r EXCEPT !.policy = Null] \in AlertRows
          /\ [r EXCEPT !.policy = Null].key = r.key /\ [r EXCEPT !.policy = Null].channels = r.channels
          /\ [r EXCEPT !.policy = Null].firing = r.firing
    BY DEF AlertRows
  <1>4. alert' = [i \in Ids |-> IF alert[i].policy = p THEN [alert[i] EXCEPT !.policy = Null] ELSE alert[i]]
    BY DEF DeletePolicy
  <1>5. \A i \in Ids : alert[i] \in AlertRows
    BY DEF Inv, TablePart
  <1>6. \A i \in Ids : alert'[i] = alert[i] \/ alert'[i] = [alert[i] EXCEPT !.policy = Null]
    BY <1>4
  <1>7. alert' \in [Ids -> AlertRows]
    BY <1>3, <1>4, <1>5
  <1>8. TablePart'
    BY <1>1, <1>2, <1>7 DEF Inv, TablePart
  <1>9. \A i \in Ids : /\ alert'[i].key = alert[i].key /\ alert'[i].channels = alert[i].channels
                        /\ alert'[i].firing = alert[i].firing
    BY <1>3, <1>5, <1>6
  <1> QED
    BY <1>1, <1>8, <1>9, RowsKeep

\* Acknowledging an alert.
LEMMA AckInv ==
  ASSUME Inv, NEW a \in Ids, AckAlert(a)
  PROVE  Inv'
  <1>1. UNCHANGED <<policies, channel, tele, active, notices, tx, faults>> /\ edits' \in 0 .. MaxEdits
    BY EditFits DEF AckAlert, tableVars
  <1>2. alert[a] \in AlertRows
    BY DEF AckAlert, Inv, TablePart, Firing
  <1>3. /\ [alert[a] EXCEPT !.acked = TRUE] \in AlertRows
        /\ [alert[a] EXCEPT !.acked = TRUE].key = alert[a].key
        /\ [alert[a] EXCEPT !.acked = TRUE].channels = alert[a].channels
        /\ [alert[a] EXCEPT !.acked = TRUE].firing = alert[a].firing
    BY <1>2 DEF AlertRows
  <1>4. alert' = [alert EXCEPT ![a] = [alert[a] EXCEPT !.acked = TRUE]]
    BY DEF AckAlert, Inv, TablePart
  <1>5. TablePart'
    BY <1>1, <1>3, <1>4 DEF Inv, TablePart
  <1>6. \A i \in Ids : /\ alert'[i].key = alert[i].key /\ alert'[i].channels = alert[i].channels
                        /\ alert'[i].firing = alert[i].firing
    BY <1>3, <1>4 DEF Inv, TablePart
  <1> QED
    BY <1>1, <1>5, <1>6, RowsKeep

\* Devices and their telemetry.
LEMMA DeviceInv ==
  ASSUME Inv, NEW d \in Devices, DecommissionDevice(d) \/ \E t \in Telemetry : Report(d, t)
  PROVE  Inv'
  <1>1. UNCHANGED <<alert, policies, channel, notices, tx, faults>> /\ edits' \in 0 .. MaxEdits
    BY EditFits DEF DecommissionDevice, Report
  <1>2. tele' \in [Devices -> Telemetry] /\ active' \subseteq Devices
    BY DEF DecommissionDevice, Report, Inv, TablePart
  <1>3. TablePart'
    BY <1>1, <1>2 DEF Inv, TablePart
  <1> QED
    BY <1>1, <1>3, RowsKeep

\* A channel goes with its notices, and with none that is about to be written.
LEMMA DeleteChannelInv ==
  ASSUME Inv, NEW c \in Channels, DeleteChannel(c)
  PROVE  Inv'
  <1>1. /\ UNCHANGED <<alert, policies, tele, active, tx, faults>> /\ edits' \in 0 .. MaxEdits
        /\ channel' = channel \ {c} /\ \A w \in Workers : \A n \in tx[w].sent : n[2] # c
    BY EditFits DEF DeleteChannel
  <1>2. Firing' = Firing /\ Firing \subseteq Ids
    BY <1>1 DEF Firing
  <1>3. notices' = [i \in Ids |-> [e \in Channels \X Events |-> IF e[1] = c THEN 0 ELSE notices[i][e]]]
    BY DEF DeleteChannel
  <1>4. ASSUME NEW i \in Ids, NEW x \in Channels, NEW e \in Events
        PROVE  notices'[i][<<x, e>>] = IF x = c THEN 0 ELSE notices[i][<<x, e>>]
    BY <1>3
  <1>5. TablePart'
    <2>1. notices' \in [Ids -> [Channels \X Events -> Nat]]
      <3>1. ASSUME NEW i \in Ids, NEW e \in Channels \X Events
            PROVE  (IF e[1] = c THEN 0 ELSE notices[i][e]) \in Nat
        BY DEF Inv, TablePart
      <3> QED
        BY <1>3, <3>1
    <2> QED
      BY <1>1, <2>1 DEF Inv, TablePart
  <1>6. TxPart'
    BY <1>1 DEF Inv, TxPart
  <1>7. LockPart'
    <2>1. OneFiringAlert'
      BY <1>1, <1>2 DEF Inv, LockPart, OneFiringAlert, KeyOf
    <2>2. ASSUME NEW w \in Workers PROVE LocksFit(w, tx[w])'
      BY <1>1, <1>2 DEF Inv, LockPart, LocksFit, KeyOf, Inserted, Others
    <2> QED
      BY <2>1, <2>2 DEF LockPart
  <1>8. NoticePart'
    <2>0. "fired" \in Events /\ "resolved" \in Events
      BY DEF Events
    <2>1. ASSUME NEW i \in Ids, NEW x \in Channels
          PROVE  /\ notices'[i][<<x, "resolved">>] <= notices'[i][<<x, "fired">>]
                 /\ notices'[i][<<x, "fired">>] <= 1
                 /\ notices'[i][<<x, "resolved">>] = 1 => i \notin Firing'
      <3>1. /\ notices[i][<<x, "resolved">>] <= notices[i][<<x, "fired">>]
            /\ notices[i][<<x, "fired">>] <= 1
            /\ notices[i][<<x, "resolved">>] = 1 => i \notin Firing
        BY DEF Inv, NoticePart, NoticesPair
      <3>2. /\ notices'[i][<<x, "fired">>] = IF x = c THEN 0 ELSE notices[i][<<x, "fired">>]
            /\ notices'[i][<<x, "resolved">>] = IF x = c THEN 0 ELSE notices[i][<<x, "resolved">>]
        BY <1>4, <2>0
      <3> QED
        BY <1>2, <3>1, <3>2
    <2>2. ASSUME NEW i \in Firing, NEW x \in alert[i].channels \cap channel'
          PROVE  notices'[i][<<x, "fired">>] = 1
      <3>1. x \in channel /\ x # c /\ x \in Channels /\ i \in Ids
        BY <1>1, <1>2 DEF Inv, TablePart
      <3>2. notices[i][<<x, "fired">>] = 1
        BY <3>1 DEF Inv, NoticePart
      <3> QED
        BY <1>4, <2>0, <3>1, <3>2
    <2>3. ASSUME NEW w \in Workers PROVE NotesFit(tx[w])'
      <3>1. NotesFit(tx[w])
        BY OneTx
      <3>2. \A i, x, e : <<i, x, e>> \in tx[w].sent => x # c
        BY <1>1
      <3> QED
        BY <1>1, <3>1, <3>2 DEF NotesFit
    <2> QED
      BY <1>1, <1>2, <2>1, <2>2, <2>3 DEF NoticePart, NoticesPair
  <1> QED
    BY <1>5, <1>6, <1>7, <1>8 DEF Inv

-----------------------------------------------------------------------------
(* The theorems.                                                           *)

\* Every step keeps the invariant.
LEMMA NextInv ==
  ASSUME Inv, [Next]_vars
  PROVE  Inv'
  <1>1. CASE UNCHANGED vars
    <2>1. TablePart' /\ UNCHANGED <<channel, notices, tx, alert>>
      BY <1>1 DEF vars, Inv, TablePart
    <2> QED
      BY <2>1, RowsKeep
  <1>2. CASE DashboardStep
    <2>1. CASE \E b \in Bodies : CreatePolicy(b) \/ \E n \in DOMAIN policies : UpdatePolicy(n, b)
      BY <2>1, PoliciesInv
    <2>2. CASE \E n \in DOMAIN policies : DeletePolicy(n)
      BY <2>2, DeletePolicyInv
    <2>3. CASE \E c \in Channels : DeleteChannel(c)
      BY <2>3, DeleteChannelInv
    <2>4. CASE \E i \in Ids : AckAlert(i)
      BY <2>4, AckInv
    <2>5. CASE \E d \in Devices : DecommissionDevice(d)
      BY <2>5, DeviceInv
    <2> QED
      BY <1>2, <2>1, <2>2, <2>3, <2>4, <2>5 DEF DashboardStep
  <1>3. CASE \E d \in Devices, t \in Telemetry : Report(d, t)
    BY <1>3, DeviceInv
  <1>4. ASSUME NEW w \in Workers, WorkerStep(w) \/ EvaluationFails(w) PROVE Inv'
    <2>0. tx[w] \in Txs
      BY OneTx
    <2>1. CASE BeginEvaluation(w) \/ CollectEvalDevices(w) \/ CommitEvaluation(w) \/ EvaluationFails(w)
      BY <2>1, BeginInv, CollectInv, CommitInv, FailsInv
    <2>2. CASE \E d \in tx[w].todo : EvaluateDevice(w, d)
      BY <2>2, EvaluateInv
    <2>3. CASE \E f \in tx[w].found : OpenAlert(w, f)
      BY <2>3, OpenInv
    <2>4. CASE \E i \in tx[w].left : ResolveAlert(w, i)
      BY <2>4, ResolveInv
    <2>5. CASE \E i \in tx[w].left : AwaitKey(w, KeyOf(i))
      <3> PICK i \in tx[w].left : AwaitKey(w, KeyOf(i))
        BY <2>5
      <3>1. i \in Ids
        BY <2>0 DEF Txs
      <3>2. KeyOf(i) \in Keys \cup {Null}
        BY <3>1 DEF Inv, TablePart, KeyOf, AlertRows
      <3> QED
        BY <3>2, AwaitInv
    <2>6. CASE \E f \in tx[w].found : AwaitKey(w, f.key)
      <3> PICK f \in tx[w].found : AwaitKey(w, f.key)
        BY <2>6
      <3>1. f.key \in Keys
        BY <2>0 DEF Txs, Findings
      <3> QED
        BY <3>1, AwaitInv
    <2> QED
      BY <1>4, <2>1, <2>2, <2>3, <2>4, <2>5, <2>6 DEF WorkerStep
  <1> QED
    BY <1>1, <1>2, <1>3, <1>4 DEF Next

LEMMA Invariance == Spec => []Inv
  BY InitInv, NextInv, PTL DEF Spec

\* However evaluations overlap with each other and with requests, no condition
\* gets a second firing alert, and no alert is resolved by two evaluations or
\* inserted into a row that is in use (OpenAlert's ON CONFLICT on
\* alerts_dedup_firing, ResolveAlert's row lock).
THEOREM OneAlertPerCondition == Spec => []AlertInv
  <1>1. Inv => AlertInv
    <2> SUFFICES ASSUME Inv PROVE AlertInv
      OBVIOUS
    <2>1. \A i \in Ids : alert[i] = NoAlert \/ alert[i].channels \subseteq Channels
      BY DEF Inv, TablePart, AlertRows
    <2>2. ASSUME NEW i \in DOMAIN policies PROVE policies[i].id \in Policies
      <3>1. policies[i] \in PolicyRows
        BY DEF Inv, TablePart
      <3> QED
        BY <3>1, RowsAreValid
    <2>3. notices \in [Ids -> [Channels \X Events -> 0 .. 2]]
      <3>1. ASSUME NEW i \in Ids, NEW c \in Channels, NEW e \in Events PROVE notices[i][<<c, e>>] \in 0 .. 2
        <4>1. notices[i][<<c, "fired">>] \in Nat /\ notices[i][<<c, "resolved">>] \in Nat
          BY DEF Inv, TablePart, Events
        <4>2. /\ notices[i][<<c, "resolved">>] <= notices[i][<<c, "fired">>]
              /\ notices[i][<<c, "fired">>] <= 1
          BY DEF Inv, NoticePart, NoticesPair
        <4> QED
          BY <4>1, <4>2 DEF Events
      <3>2. ASSUME NEW i \in Ids, NEW e \in Channels \X Events PROVE notices[i][e] \in 0 .. 2
        BY <3>1
      <3> QED
        BY <3>2 DEF Inv, TablePart
    <2>4. ASSUME NEW w \in Workers
          PROVE  /\ tx[w].at \in {"idle", "begun", "collected"}
                 /\ tx[w].closed \subseteq Firing /\ Inserted(w) \cap Firing = {}
      BY OneTx DEF Txs, LocksFit, Inserted
    <2>5. OneFiringAlert
      BY DEF Inv, LockPart
    <2> QED
      BY <2>1, <2>2, <2>3, <2>4, <2>5 DEF AlertInv, TypeOK, Inv, TablePart
  <1> QED
    BY <1>1, Invariance, PTL

\* A channel hears that an alert fired and that it is resolved at most once
\* each, and of the second only after the first: alerts and deliveries commit
\* together (evaluateAlerts, EnqueueDeliveries).
THEOREM NoticesComeInPairs == Spec => []NoticesPair
  <1>1. Inv => NoticesPair
    BY DEF Inv, NoticePart
  <1> QED
    BY <1>1, Invariance, PTL

\* Whatever policies there are, Merge takes every rule from the newest of the
\* nearest policies that define it, and the dashboard's copy of the merge shows
\* the same.
THEOREM MergeGivesNearest == Spec => []MergeIsRight
  <1>1. Inv => MergeIsRight
    <2> SUFFICES ASSUME Inv PROVE MergeIsRight
      OBVIOUS
    <2>0. policies \in Seq(PolicyRows)
      BY DEF Inv, TablePart
    <2>1. NearestPolicyWins
      <3>1. ASSUME NEW d \in Devices, NEW rt \in RuleTypes
            PROVE  IsPick(policies, {n \in Applicable(policies, Place[d]) : Defines(policies[n], rt)},
                          EffectiveFor(policies, Place[d])[rt])
        BY <2>0, MergePick
      <3> QED
        BY <3>1 DEF NearestPolicyWins, IsPick, Best
    <2>2. DisplayMirrorsMerge
      BY DisplaySame DEF DisplayMirrorsMerge
    <2> QED
      BY <2>1, <2>2 DEF MergeIsRight
  <1> QED
    BY <1>1, Invariance, PTL

-----------------------------------------------------------------------------
(***************************************************************************)
(* The outbox that takes the notices from here to the channels: theorems   *)
(* about NotificationOutbox, for every number of deliveries and workers,   *)
(* every batch, budget and backoff, and any number of crashes.             *)
(***************************************************************************)

\* An outcome in hand is about a delivery the worker has claimed, and a
\* success in hand was received.
OutSendingIsClaimed ==
  \A w \in Senders : sending[w] # NotSending =>
    /\ sending[w].delivery \in Deliveries
    /\ sending[w].ok => received[sending[w].delivery] > 0

\* The inductive invariant.
OutInv == /\ OutboxTypeOK
          /\ ClaimsAreDistinct
          /\ OutSendingIsClaimed
          /\ SentWasReceived
          /\ FailedSpentBudget

-----------------------------------------------------------------------------
(* The backoff.                                                            *)

\* A power of two is a natural number: it counts the subsets of an interval.
LEMMA PowerOfTwo == ASSUME NEW n \in Nat PROVE 2 ^ n \in Nat
  <1>1. IsFiniteSet(1 .. n) /\ Cardinality(1 .. n) = n
    BY FS_Interval
  <1>2. IsFiniteSet(SUBSET (1 .. n)) /\ Cardinality(SUBSET (1 .. n)) = 2 ^ n
    BY <1>1, FS_SUBSET
  <1> QED
    BY <1>2, FS_CardinalityType

\* The backoff of the claim is a time between now and the cap.
LEMMA BackoffType ==
  ASSUME NEW d \in Deliveries, attempts \in [Deliveries -> Nat]
  PROVE  Backoff(d) \in 0 .. MaxBackoff
  <1>1. attempts[d] \in Nat
    OBVIOUS
  <1>2. 2 ^ attempts[d] \in Nat
    BY <1>1, PowerOfTwo
  <1> QED
    BY <1>2, OutboxAssumption DEF Backoff, Smaller

-----------------------------------------------------------------------------
\* No delivery is 0, the mark of a worker that sends nothing.
LEMMA ZeroIsNoDelivery == Deliveries \subseteq Nat \ {0}
  BY DEF Deliveries

\* The empty outbox satisfies the invariant.
LEMMA OutInitInv == OutboxInit => OutInv
  BY OutboxAssumption DEF OutboxInit, OutInv, OutboxTypeOK, ClaimsAreDistinct,
     OutSendingIsClaimed, SentWasReceived, FailedSpentBudget, NotSending, NoClaim

\* Every step of a worker, a crash and the clock preserve the invariant.
LEMMA OutNextInv == OutInv /\ [OutboxNext]_outboxVars => OutInv'
  <1> SUFFICES ASSUME OutInv, [OutboxNext]_outboxVars PROVE OutInv'
    OBVIOUS
  <1> USE OutboxAssumption, ZeroIsNoDelivery
  <1>1. ASSUME NEW d \in Deliveries, Enqueue(d) PROVE OutInv'
    <2>1. OutboxTypeOK'
      BY <1>1 DEF OutInv, OutboxTypeOK, Enqueue
    <2>2. ClaimsAreDistinct' /\ OutSendingIsClaimed'
      BY <1>1 DEF OutInv, ClaimsAreDistinct, OutSendingIsClaimed, Enqueue
    <2>3. SentWasReceived' /\ FailedSpentBudget'
      BY <1>1 DEF OutInv, OutboxTypeOK, SentWasReceived, FailedSpentBudget, Enqueue
    <2> QED
      BY <2>1, <2>2, <2>3 DEF OutInv
  <1>2. ASSUME NEW w \in Senders, ClaimDue(w) PROVE OutInv'
    <2>1. OutboxTypeOK'
      <3>1. attempts' \in [Deliveries -> Nat]
        BY <1>2 DEF OutInv, OutboxTypeOK, ClaimDue
      <3>2. wait' \in [Deliveries -> 0 .. MaxBackoff]
        BY <1>2, BackoffType DEF OutInv, OutboxTypeOK, ClaimDue
      <3>3. claim' \in [Senders -> [Deliveries -> Nat]]
        BY <1>2, <3>1 DEF OutInv, OutboxTypeOK, ClaimDue
      <3> QED
        BY <1>2, <3>1, <3>2, <3>3 DEF OutInv, OutboxTypeOK, ClaimDue
    \* The claim takes an attempt number above every one in hand.
    <2>2. ClaimsAreDistinct'
      <3>1. \A d \in Deliveries : /\ attempts'[d] \in Nat
                                  /\ attempts[d] <= attempts'[d]
                                  /\ d \in Claimable => attempts'[d] = attempts[d] + 1
        BY <1>2 DEF OutInv, OutboxTypeOK, ClaimDue
      <3>2. \A d \in Deliveries :
              claim'[w][d] = IF d \in Claimable THEN attempts'[d] ELSE 0
        BY <1>2 DEF OutInv, OutboxTypeOK, ClaimDue
      <3>3. \A v \in Senders : v # w => claim'[v] = claim[v]
        BY <1>2 DEF OutInv, OutboxTypeOK, ClaimDue
      <3>4. \A d \in Deliveries, v \in Senders : claim[v][d] \in Nat /\ attempts[d] \in Nat
        BY DEF OutInv, OutboxTypeOK
      <3>5. \A d \in Deliveries, v \in Senders : claim'[v][d] <= attempts'[d]
        BY <3>1, <3>2, <3>3, <3>4 DEF OutInv, ClaimsAreDistinct
      <3>6. ASSUME NEW d \in Deliveries, NEW u \in Senders, NEW v \in Senders, u # v,
                   claim'[v][d] # 0
            PROVE  claim'[u][d] # claim'[v][d]
        <4>1. CASE u # w /\ v # w
          BY <3>3, <3>6, <4>1 DEF OutInv, ClaimsAreDistinct
        <4>2. CASE v = w
          <5>1. claim'[v][d] = attempts[d] + 1
            BY <3>1, <3>2, <3>6, <4>2
          <5>2. claim'[u][d] <= attempts[d]
            BY <3>3, <3>6, <4>2 DEF OutInv, ClaimsAreDistinct
          <5> QED
            BY <3>3, <3>4, <3>6, <4>2, <5>1, <5>2
        <4>3. CASE u = w
          <5>1. claim'[v][d] \in Nat /\ claim'[v][d] <= attempts[d]
            BY <3>3, <3>4, <3>6, <4>3 DEF OutInv, ClaimsAreDistinct
          <5>2. claim'[u][d] \in {0, attempts[d] + 1}
            BY <3>1, <3>2, <4>3
          <5> QED
            BY <3>4, <3>6, <5>1, <5>2
        <4> QED
          BY <4>1, <4>2, <4>3
      <3> QED
        BY <3>5, <3>6 DEF ClaimsAreDistinct
    <2>3. OutSendingIsClaimed'
      BY <1>2 DEF OutInv, OutSendingIsClaimed, ClaimDue
    <2>4. SentWasReceived' /\ FailedSpentBudget'
      BY <1>2 DEF OutInv, OutboxTypeOK, SentWasReceived, FailedSpentBudget, ClaimDue
    <2> QED
      BY <2>1, <2>2, <2>3, <2>4 DEF OutInv
  <1>3. ASSUME NEW w \in Senders, NEW d \in Deliveries, NEW ok \in BOOLEAN, Send(w, d, ok)
        PROVE  OutInv'
    <2>1. OutboxTypeOK'
      <3>1. sending' \in [Senders -> [delivery : Deliveries \cup {0}, ok : BOOLEAN]]
        BY <1>3 DEF OutInv, OutboxTypeOK, Send
      <3>2. received' \in [Deliveries -> Nat]
        BY <1>3 DEF OutInv, OutboxTypeOK, Send
      <3> QED
        BY <1>3, <3>1, <3>2 DEF OutInv, OutboxTypeOK, Send
    <2>2. ClaimsAreDistinct'
      BY <1>3 DEF OutInv, ClaimsAreDistinct, Send
    <2>3. OutSendingIsClaimed'
      BY <1>3 DEF OutInv, OutboxTypeOK, OutSendingIsClaimed, Send
    <2>4. SentWasReceived' /\ FailedSpentBudget'
      BY <1>3 DEF OutInv, OutboxTypeOK, SentWasReceived, FailedSpentBudget, Send
    <2> QED
      BY <2>1, <2>2, <2>3, <2>4 DEF OutInv
  \* Done gives a claim back: it stays below the attempts and shared with
  \* nobody.
  <1>4. ASSUME NEW w \in Senders, sending[w] # NotSending, Done(w), attempts' = attempts,
               received' = received
        PROVE  /\ claim' \in [Senders -> [Deliveries -> Nat]]
               /\ sending' \in [Senders -> [delivery : Deliveries \cup {0}, ok : BOOLEAN]]
               /\ ClaimsAreDistinct'
               /\ OutSendingIsClaimed'
    <2>1. claim' \in [Senders -> [Deliveries -> Nat]]
      BY <1>4 DEF OutInv, OutboxTypeOK, Done
    <2>2. sending' \in [Senders -> [delivery : Deliveries \cup {0}, ok : BOOLEAN]]
      BY <1>4 DEF OutInv, OutboxTypeOK, Done, NotSending
    <2>3. \A v \in Senders, d \in Deliveries : claim'[v][d] \in {0, claim[v][d]}
      BY <1>4 DEF OutInv, OutboxTypeOK, Done
    <2>4. ClaimsAreDistinct'
      <3>1. \A d \in Deliveries : attempts[d] \in Nat /\ attempts'[d] = attempts[d]
        BY <1>4 DEF OutInv, OutboxTypeOK
      <3> QED
        BY <2>3, <3>1 DEF OutInv, ClaimsAreDistinct
    <2>5. OutSendingIsClaimed'
      BY <1>4 DEF OutInv, OutboxTypeOK, OutSendingIsClaimed, Done
    <2> QED
      BY <2>1, <2>2, <2>4, <2>5
  <1>5. ASSUME NEW w \in Senders, RecordOutcome(w) PROVE OutInv'
    <2>1. /\ sending[w].delivery \in Deliveries
          /\ sending[w].ok => received[sending[w].delivery] > 0
      BY <1>5 DEF OutInv, OutSendingIsClaimed, RecordOutcome
    <2>2. claim[w][sending[w].delivery] <= attempts[sending[w].delivery]
      BY <2>1 DEF OutInv, ClaimsAreDistinct
    <2>3. OutboxTypeOK'
      BY <1>4, <1>5, <2>1 DEF OutInv, OutboxTypeOK, RecordOutcome, Outcome
    <2>4. SentWasReceived'
      BY <1>5, <2>1 DEF OutInv, OutboxTypeOK, SentWasReceived, RecordOutcome, Outcome
    <2>5. FailedSpentBudget'
      BY <1>5, <2>1, <2>2 DEF OutInv, OutboxTypeOK, FailedSpentBudget, RecordOutcome,
         Outcome
    <2> QED
      BY <1>4, <1>5, <2>3, <2>4, <2>5 DEF OutInv, RecordOutcome
  <1>6. ASSUME NEW w \in Senders, RecordFails(w) PROVE OutInv'
    <2>1. OutboxTypeOK'
      BY <1>4, <1>6 DEF OutInv, OutboxTypeOK, RecordFails
    <2>2. SentWasReceived' /\ FailedSpentBudget'
      BY <1>6 DEF OutInv, SentWasReceived, FailedSpentBudget, RecordFails
    <2> QED
      BY <1>4, <1>6, <2>1, <2>2 DEF OutInv, RecordFails
  <1>7. ASSUME NEW w \in Senders, Crash(w) PROVE OutInv'
    <2>1. OutboxTypeOK'
      BY <1>7 DEF OutInv, OutboxTypeOK, Crash, NoClaim, NotSending
    <2>2. ClaimsAreDistinct'
      BY <1>7 DEF OutInv, OutboxTypeOK, ClaimsAreDistinct, Crash, NoClaim
    <2>3. OutSendingIsClaimed'
      BY <1>7 DEF OutInv, OutboxTypeOK, OutSendingIsClaimed, Crash
    <2>4. SentWasReceived' /\ FailedSpentBudget'
      BY <1>7 DEF OutInv, SentWasReceived, FailedSpentBudget, Crash
    <2> QED
      BY <2>1, <2>2, <2>3, <2>4 DEF OutInv
  <1>8. CASE Tick
    <2>1. OutboxTypeOK'
      BY <1>8 DEF OutInv, OutboxTypeOK, Tick
    <2> QED
      BY <1>8, <2>1 DEF OutInv, ClaimsAreDistinct, OutSendingIsClaimed, SentWasReceived,
         FailedSpentBudget, Tick
  <1>9. CASE UNCHANGED outboxVars
    BY <1>9 DEF outboxVars, OutInv, OutboxTypeOK, ClaimsAreDistinct, OutSendingIsClaimed,
       SentWasReceived, FailedSpentBudget
  <1> QED
    BY <1>1, <1>2, <1>3, <1>5, <1>6, <1>7, <1>8, <1>9 DEF OutboxNext

\* ClaimDueDeliveries hands an attempt of a delivery to one worker: no two
\* workers ever hold the same attempt, also after a claim has run out and
\* another worker has claimed the delivery again.
THEOREM AttemptsAreNotShared == OutboxSpec => []ClaimInv
  <1>1. OutInv => ClaimInv
    BY DEF OutInv, ClaimInv
  <1> QED
    BY <1>1, OutInitInv, OutNextInv, PTL DEF OutboxSpec

\* A row of the outbox says sent only of a notification that was sent, and
\* failed only when its attempts are spent, although both marks are written
\* over whatever the row has become.
THEOREM MarksAreEarned == OutboxSpec => []StatusIsEarned
  <1>1. OutInv => StatusIsEarned
    BY DEF OutInv, StatusIsEarned
  <1> QED
    BY <1>1, OutInitInv, OutNextInv, PTL DEF OutboxSpec
=============================================================================
