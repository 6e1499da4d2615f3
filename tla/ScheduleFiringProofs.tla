------------------------ MODULE ScheduleFiringProofs ------------------------
(***************************************************************************)
(* Theorems about ScheduleFiring, for every set of schedules, scripts,     *)
(* expressions, workers and requests and clocks that are any distance      *)
(* apart: what the row locks keep, that jobs are created for the schedule  *)
(* as it is saved, and that a worker fires no slot which the one before it *)
(* had already reached by its own clock.                                   *)
(***************************************************************************)
EXTENDS ScheduleFiring, TLAPS

\* A row, and the slot in it one of its own expression.
SlotRows == {r \in Rows : r.next % r.cron = 0}

RowPart ==
  /\ clock \in 0 .. MaxTime
  /\ row \in [Schedules -> SlotRows \cup {NoRow}]
  /\ archived \subseteq Scripts /\ parses \subseteq Crons
  /\ req \in [Requests -> {NoReq} \cup [schedule : Schedules, new : SlotRows, checked : BOOLEAN]]
  /\ faults \in 0 .. MaxFaults /\ saves \in 0 .. MaxSaves
  /\ last \in [Schedules -> [slot : Int, at : Int, saved : BOOLEAN]]

\* The transaction t of a worker, when the table and the clock are like that:
\* what it has locked is due, and what it will write is for the row as it is.
TxFits(t, table, time) ==
  /\ t = [held |-> t.held, rows |-> t.rows, fired |-> t.fired]
  /\ t.held \subseteq Schedules
  /\ \A s \in t.held : table[s] # NoRow /\ table[s].enabled /\ table[s].next <= time
  /\ t.rows \in [DOMAIN t.rows -> SlotRows] /\ DOMAIN t.rows \subseteq t.held
  /\ t.fired \in [DOMAIN t.fired -> Int] /\ DOMAIN t.fired \subseteq DOMAIN t.rows
  /\ \A s \in DOMAIN t.rows : t.rows[s].cron = table[s].cron /\ t.rows[s].script = table[s].script

\* No row is locked twice.
LockPart ==
  /\ tx = [w \in Workers |-> tx[w]]
  /\ \A w \in Workers : TxFits(tx[w], row, clock)
  /\ \A v, w \in Workers : v # w => tx[v].held \cap tx[w].held = {}

\* Slots lie ahead of the last firing: in the rows, and in what will be written
\* to them, except where the script is archived and nothing will be fired.
Ahead(fire, r, gone) == fire.saved \/ r.script \in gone \/ r.next > fire.at
TxAhead(t, table, fires, gone) ==
  /\ \A s \in DOMAIN t.rows : s \in DOMAIN t.fired \/ Ahead(fires[s], t.rows[s], gone)
  /\ \A s \in DOMAIN t.fired : /\ t.rows[s].next > t.fired[s]
                               /\ fires[s].saved \/ table[s].next > fires[s].at
RowsAhead == \A s \in Live : Ahead(last[s], row[s], archived)
ClockPart == RowsAhead /\ \A w \in Workers : TxAhead(tx[w], row, last, archived)

\* The inductive invariant.
Inv == RowPart /\ LockPart /\ ClockPart

-----------------------------------------------------------------------------
(* Slots.                                                                  *)

\* The next slot is a multiple of the period, and lies after t.
LEMMA NextSlotIsASlot ==
  ASSUME NEW cron \in Nat \ {0}, NEW t \in Int
  PROVE  /\ NextSlot(cron, t) \in Int /\ NextSlot(cron, t) > t
         /\ NextSlot(cron, t) % cron = 0
  <1>1. t \div cron \in Int
    OBVIOUS
  <1>2. \A q \in Int : q * cron \in Int /\ (q * cron) % cron = 0
    OBVIOUS
  <1>3. NextSlot(cron, t) > t
    BY DEF NextSlot
  <1> QED
    BY <1>1, <1>2, <1>3 DEF NextSlot

\* A row that is there is one with a slot; none is not.
LEMMA RowsAreReal == NoRow \notin SlotRows
  BY ScheduleAssumption DEF NoRow, SlotRows, Rows

\* No transaction at all fits whatever the tables are.
LEMMA NoTxFits ==
  ASSUME NEW table, NEW fires, NEW time, NEW gone
  PROVE  TxFits(NoTx, table, time) /\ TxAhead(NoTx, table, fires, gone) /\ NoTx.held = {}
  <1>1. /\ NoTx.held = {} /\ NoTx.rows = [s \in {} |-> NoRow] /\ NoTx.fired = [s \in {} |-> 0]
        /\ NoTx = [held |-> NoTx.held, rows |-> NoTx.rows, fired |-> NoTx.fired]
    BY DEF NoTx
  <1>2. DOMAIN NoTx.rows = {} /\ DOMAIN NoTx.fired = {}
    BY <1>1
  <1>3. NoTx.rows \in [DOMAIN NoTx.rows -> SlotRows] /\ NoTx.fired \in [DOMAIN NoTx.fired -> Int]
    BY <1>1, <1>2
  <1> QED
    BY <1>1, <1>2, <1>3 DEF TxFits, TxAhead

\* What fireSchedule makes of a row that is due is a row with a slot, of the same
\* expression and script, and after the worker's clock.
LEMMA FiredRowFits ==
  ASSUME RowPart, NEW s \in Live, NEW now \in Int
  PROVE  /\ FiredRow(s, now) \in SlotRows
         /\ FiredRow(s, now).cron = row[s].cron /\ FiredRow(s, now).script = row[s].script
         /\ row[s].cron \in parses => FiredRow(s, now).next > now
         /\ row[s].cron \notin parses => FiredRow(s, now).next = row[s].next
  <1> USE ScheduleAssumption
  <1>0. row[s] \in SlotRows
    BY DEF RowPart, Live
  <1>1. row[s] \in Rows /\ row[s].cron \in Crons /\ row[s].cron \in Nat \ {0}
          /\ row[s].next % row[s].cron = 0
    BY <1>0 DEF SlotRows, Rows
  <1>2. CASE row[s].cron \in parses
    <2>1. PICK n \in Int : /\ n = NextSlot(row[s].cron, now)
                           /\ n > now /\ n % row[s].cron = 0
      BY <1>1, NextSlotIsASlot
    <2>2. FiredRow(s, now) = [row[s] EXCEPT !.next = n]
      BY <1>2, <2>1 DEF FiredRow
    <2>3. /\ [row[s] EXCEPT !.next = n] \in Rows /\ [row[s] EXCEPT !.next = n].next = n
          /\ [row[s] EXCEPT !.next = n].cron = row[s].cron
          /\ [row[s] EXCEPT !.next = n].script = row[s].script
      BY <1>1 DEF Rows
    <2>4. FiredRow(s, now) \in SlotRows
      BY <2>1, <2>2, <2>3 DEF SlotRows
    <2> QED
      BY <1>0, <1>2, <2>1, <2>2, <2>3, <2>4
  <1>3. CASE row[s].cron \notin parses
    <2>1. FiredRow(s, now) = [row[s] EXCEPT !.enabled = FALSE]
      BY <1>3 DEF FiredRow
    <2>2. /\ FiredRow(s, now) \in Rows /\ FiredRow(s, now).next = row[s].next
          /\ FiredRow(s, now).cron = row[s].cron /\ FiredRow(s, now).script = row[s].script
      BY <1>1, <2>1 DEF Rows
    <2> QED
      BY <1>1, <1>3, <2>2 DEF SlotRows
  <1> QED
    BY <1>2, <1>3

-----------------------------------------------------------------------------
\* The empty tables.
LEMMA InitInv == Init => Inv
  <1> SUFFICES ASSUME Init PROVE Inv
    OBVIOUS
  <1> USE ScheduleAssumption
  <1>1. RowPart
    BY DEF Init, RowPart, NoFire
  <1>2. \A w \in Workers : tx[w] = NoTx
    BY DEF Init
  <1>3. LockPart
    BY <1>2, NoTxFits DEF Init, LockPart
  <1>4. ClockPart
    <2>1. Live = {}
      BY DEF Init, Live
    <2>2. RowsAhead
      BY <2>1 DEF RowsAhead
    <2> QED
      BY <1>2, <2>2, NoTxFits DEF ClockPart
  <1> QED
    BY <1>1, <1>3, <1>4 DEF Inv

-----------------------------------------------------------------------------
(* Transactions while the tables change.                                   *)

\* A transaction fits as long as the rows it has locked stay.
LEMMA TxStays ==
  ASSUME NEW t, NEW table \in [Schedules -> SlotRows \cup {NoRow}], NEW table2,
         NEW time \in Int, NEW time2 \in Int, time <= time2,
         TxFits(t, table, time), \A s \in t.held : table2[s] = table[s]
  PROVE  TxFits(t, table2, time2)
  <1>1. ASSUME NEW s \in t.held PROVE table[s] \in SlotRows /\ table[s].next \in Int
    BY <1>1 DEF TxFits, SlotRows, Rows
  <1>2. \A s \in t.held : table2[s] # NoRow /\ table2[s].enabled /\ table2[s].next <= time2
    BY <1>1 DEF TxFits
  <1> QED
    BY <1>2 DEF TxFits

\* It stays ahead as long as those are not fired or saved by others, whatever
\* scripts are archived.
LEMMA AheadStays ==
  ASSUME NEW t, NEW table, NEW time, TxFits(t, table, time), NEW gone, NEW gone2,
         gone \subseteq gone2, NEW fires, NEW fires2, NEW table2, TxAhead(t, table, fires, gone),
         \A s \in t.held : fires2[s] = fires[s] /\ table2[s] = table[s]
  PROVE  TxAhead(t, table2, fires2, gone2)
  <1>1. \A s \in DOMAIN t.rows : fires2[s] = fires[s] /\ table2[s] = table[s]
    BY DEF TxFits
  <1>2. DOMAIN t.fired \subseteq DOMAIN t.rows
    BY DEF TxFits
  <1> QED
    BY <1>1, <1>2 DEF TxAhead, Ahead

\* A step of somebody who is no worker: locked rows stay.
LEMMA QuietStep ==
  ASSUME Inv, RowPart', clock <= clock', tx' = tx, archived \subseteq archived', RowsAhead',
         \A s \in Locked : row'[s] = row[s] /\ last'[s] = last[s]
  PROVE  Inv'
  <1>0. /\ clock \in Int /\ clock' \in Int
        /\ row \in [Schedules -> SlotRows \cup {NoRow}]
    BY DEF Inv, RowPart
  <1>1. ASSUME NEW w \in Workers
        PROVE  /\ TxFits(tx'[w], row', clock')
               /\ TxAhead(tx'[w], row', last', archived')
    <2>1. \A s \in tx[w].held : row'[s] = row[s] /\ last'[s] = last[s]
      BY DEF Locked
    <2>2. TxFits(tx[w], row, clock) /\ TxAhead(tx[w], row, last, archived)
      BY DEF Inv, LockPart, ClockPart
    <2>3. TxFits(tx[w], row', clock')
      BY <1>0, <2>1, <2>2, TxStays
    <2>4. TxAhead(tx[w], row', last', archived')
      BY <1>0, <2>1, <2>2, AheadStays
    <2> QED
      BY <2>3, <2>4
  <1>2. LockPart'
    BY <1>1 DEF Inv, LockPart
  <1> QED
    BY <1>1, <1>2 DEF Inv, ClockPart

\* A step of worker w: it changes rows that it holds only, and holds none that
\* others do.
LEMMA WorkerMoves ==
  ASSUME Inv, RowPart', clock' = clock, NEW w \in Workers, NEW t, tx' = [tx EXCEPT ![w] = t],
         TxFits(t, row', clock), \A v \in Workers \ {w} : tx[v].held \cap t.held = {},
         \A s \in Schedules \ tx[w].held : row'[s] = row[s] /\ last'[s] = last[s],
         archived' = archived, RowsAhead', TxAhead(t, row', last', archived)
  PROVE  Inv'
  <1>0. clock \in Int /\ row \in [Schedules -> SlotRows \cup {NoRow}]
    BY DEF Inv, RowPart
  <1>1. tx'[w] = t /\ \A v \in Workers \ {w} : tx'[v] = tx[v]
    BY DEF Inv, LockPart
  <1>2. ASSUME NEW v \in Workers
        PROVE  /\ TxFits(tx'[v], row', clock')
               /\ TxAhead(tx'[v], row', last', archived')
    <2>1. CASE v = w
      BY <1>1, <2>1
    <2>2. CASE v # w
      <3>1. TxFits(tx[v], row, clock) /\ TxAhead(tx[v], row, last, archived)
        BY DEF Inv, LockPart, ClockPart
      <3>2. \A s \in tx[v].held : row'[s] = row[s] /\ last'[s] = last[s]
        BY <2>2, <3>1 DEF Inv, LockPart, TxFits
      <3>3. TxFits(tx[v], row', clock)
        BY <1>0, <3>1, <3>2, TxStays
      <3>4. TxAhead(tx[v], row', last', archived')
        BY <1>0, <3>1, <3>2, AheadStays
      <3> QED
        BY <1>1, <2>2, <3>3, <3>4
    <2> QED
      BY <2>1, <2>2
  <1>3. tx' = [v \in Workers |-> tx'[v]]
    BY DEF Inv, LockPart
  <1>4. \A u, v \in Workers : u # v => tx'[u].held \cap tx'[v].held = {}
    BY <1>1 DEF Inv, LockPart
  <1> QED
    BY <1>2, <1>3, <1>4 DEF Inv, LockPart, ClockPart

-----------------------------------------------------------------------------
(* Steps of the dashboard, the operators and the clock.                    *)

\* A request that is validated carries a row with a slot.
LEMMA ValidateInv ==
  ASSUME Inv, NEW r \in Requests, NEW s \in Schedules, NEW x \in Scripts, NEW c \in Crons,
         NEW e \in BOOLEAN, UpsertValidate(r, s, x, c, e)
  PROVE  Inv'
  <1> USE ScheduleAssumption
  <1>0. /\ RowPart /\ clock \in Int
        /\ saves < MaxSaves /\ saves' = saves + 1
        /\ UNCHANGED <<clock, row, archived, parses, tx, faults, last>>
    BY DEF Inv, RowPart, UpsertValidate
  <1>1. PICK n \in Int : n = NextSlot(c, clock) /\ n % c = 0
    BY <1>0, NextSlotIsASlot
  <1>2. PICK new \in SlotRows : new = [script |-> x, cron |-> c, enabled |-> e, next |-> n]
    BY <1>1 DEF SlotRows, Rows
  <1>3. req' = [req EXCEPT ![r] = [schedule |-> s, new |-> new, checked |-> FALSE]]
    BY <1>1, <1>2 DEF UpsertValidate
  <1>4. RowPart'
    BY <1>0, <1>3 DEF RowPart
  <1>5. RowsAhead => RowsAhead'
    BY <1>0 DEF RowsAhead, Live
  <1> QED
    BY <1>0, <1>4, <1>5, QuietStep DEF Inv, ClockPart

\* A save writes a row with a slot, and not over a worker's shoulder.
LEMMA UpsertInv ==
  ASSUME Inv, NEW r \in Requests, UpsertCommit(r)
  PROVE  Inv'
  <1> USE ScheduleAssumption
  <1>1. RowPart /\ req[r] \in [schedule : Schedules, new : SlotRows, checked : BOOLEAN]
    BY DEF Inv, RowPart, UpsertCommit, NoReq
  <1>2. PICK s \in Schedules, new \in SlotRows : s = req[r].schedule /\ new = req[r].new
    BY <1>1
  <1>3. /\ s \notin Locked
        /\ row' = [row EXCEPT ![s] = SavedRow(s, new)]
        /\ last' = [last EXCEPT ![s].saved = TRUE]
        /\ req' = [req EXCEPT ![r] = NoReq]
        /\ UNCHANGED <<clock, archived, parses, tx, faults, saves>>
    BY <1>2 DEF UpsertCommit
  <1>4. SavedRow(s, new) \in SlotRows
    <2>1. CASE row[s] = NoRow
      BY <2>1 DEF SavedRow
    <2>2. CASE row[s] # NoRow
      <3>1. row[s] \in Rows /\ new \in Rows /\ new.next % new.cron = 0
        BY <1>1, <2>2 DEF RowPart, SlotRows
      <3>2. PICK x \in Scripts : x = row[s].script
        BY <3>1 DEF Rows
      <3>3. /\ [new EXCEPT !.script = x] \in Rows /\ [new EXCEPT !.script = x].next = new.next
            /\ [new EXCEPT !.script = x].cron = new.cron
        BY <3>1 DEF Rows
      <3>4. [new EXCEPT !.script = x] \in SlotRows
        BY <3>1, <3>3 DEF SlotRows
      <3> QED
        BY <2>2, <3>2, <3>4 DEF SavedRow
    <2> QED
      BY <2>1, <2>2
  <1>5. /\ last' \in [Schedules -> [slot : Int, at : Int, saved : BOOLEAN]]
        /\ last'[s].saved /\ last'[s].at = last[s].at
        /\ \A u \in Schedules : u # s => row'[u] = row[u] /\ last'[u] = last[u]
    BY <1>1, <1>3 DEF RowPart
  <1>6. RowPart'
    BY <1>1, <1>3, <1>4, <1>5 DEF RowPart
  <1>7. RowsAhead => RowsAhead'
    BY <1>3, <1>5 DEF RowsAhead, Live, Ahead
  <1>8. \A u \in Locked : row'[u] = row[u] /\ last'[u] = last[u]
    BY <1>3, <1>5 DEF Inv, LockPart, TxFits, Locked
  <1>9. clock <= clock'
    BY <1>1, <1>3 DEF RowPart
  <1> QED
    BY <1>3, <1>6, <1>7, <1>8, <1>9, QuietStep DEF Inv, ClockPart

\* Deleting a schedule takes its requests along.
LEMMA DeleteInv ==
  ASSUME Inv, NEW s \in Schedules, DeleteSchedule(s)
  PROVE  Inv'
  <1> USE ScheduleAssumption
  <1>1. /\ RowPart /\ s \notin Locked
        /\ row' = [row EXCEPT ![s] = NoRow]
        /\ req' = [r \in Requests |-> IF req[r].schedule = s THEN NoReq ELSE req[r]]
        /\ last' = [last EXCEPT ![s] = NoFire]
        /\ UNCHANGED <<clock, archived, parses, tx, faults, saves>>
    BY DEF Inv, DeleteSchedule
  <1>2. /\ row'[s] = NoRow /\ last'[s] = NoFire
        /\ \A u \in Schedules : u # s => row'[u] = row[u] /\ last'[u] = last[u]
    BY <1>1 DEF RowPart
  <1>3. RowPart'
    <2>1. NoFire \in [slot : Int, at : Int, saved : BOOLEAN]
      BY DEF NoFire
    <2> QED
      BY <1>1, <2>1 DEF RowPart
  <1>4. RowsAhead => RowsAhead'
    <2>1. Live' = Live \ {s}
      BY <1>2 DEF Live
    <2> QED
      BY <1>1, <1>2, <2>1 DEF RowsAhead, Live
  <1>5. \A u \in Locked : row'[u] = row[u] /\ last'[u] = last[u]
    BY <1>1, <1>2 DEF Inv, LockPart, TxFits, Locked
  <1>6. clock <= clock'
    BY <1>1 DEF RowPart
  <1> QED
    BY <1>1, <1>3, <1>4, <1>5, <1>6, QuietStep DEF Inv, ClockPart

\* The steps that touch no row.
LEMMA OtherInv ==
  ASSUME Inv, \/ \E r \in Requests : UpsertBegin(r) \/ UpsertFails(r)
              \/ \E x \in Scripts : ArchiveScript(x)
              \/ \E c \in Crons : RetireCron(c)
              \/ Tick
  PROVE  Inv'
  <1> USE ScheduleAssumption
  <1>0. RowPart /\ UNCHANGED <<row, tx, last>>
    BY DEF Inv, UpsertBegin, UpsertFails, ArchiveScript, RetireCron, Tick
  <1>1. clock \in Nat /\ clock' \in Nat /\ clock <= clock'
    BY <1>0 DEF RowPart, UpsertBegin, UpsertFails, ArchiveScript, RetireCron, Tick
  <1>2. RowPart'
    <2>0. ASSUME NEW r \in Requests, UpsertBegin(r) PROVE RowPart'
      <3>1. req[r] \in [schedule : Schedules, new : SlotRows, checked : BOOLEAN]
        BY <1>0, <2>0 DEF RowPart, UpsertBegin
      <3>2. [req[r] EXCEPT !.checked = TRUE]
              \in [schedule : Schedules, new : SlotRows, checked : BOOLEAN]
        BY <3>1
      <3> QED
        BY <1>0, <2>0, <3>2 DEF RowPart, UpsertBegin
    <2>1. CASE \E r \in Requests : UpsertFails(r)
      BY <1>0, <2>1 DEF RowPart, UpsertFails
    <2>2. CASE \E x \in Scripts : ArchiveScript(x)
      BY <1>0, <2>2 DEF RowPart, ArchiveScript
    <2>3. CASE \E c \in Crons : RetireCron(c)
      BY <1>0, <2>3 DEF RowPart, RetireCron
    <2>4. CASE Tick
      BY <1>0, <2>4 DEF RowPart, Tick
    <2> QED
      BY <2>0, <2>1, <2>2, <2>3, <2>4
  <1>3. archived \subseteq archived'
    BY DEF UpsertBegin, UpsertFails, ArchiveScript, RetireCron, Tick
  <1>4. RowsAhead => RowsAhead'
    BY <1>0, <1>3 DEF RowsAhead, Live, Ahead
  <1> QED
    BY <1>0, <1>1, <1>2, <1>3, <1>4, QuietStep DEF Inv, ClockPart

-----------------------------------------------------------------------------
(* Steps of the workers.                                                   *)

\* A claim locks rows that are due and not locked.
LEMMA ClaimInv ==
  ASSUME Inv, NEW w \in Workers, NEW batch, ClaimDueSchedules(w, batch)
  PROVE  Inv'
  <1>1. /\ tx[w] = NoTx /\ batch \subseteq Due \ Locked
        /\ tx' = [tx EXCEPT ![w].held = batch]
        /\ UNCHANGED <<clock, row, archived, parses, req, faults, saves, last>>
    BY DEF ClaimDueSchedules, FirstDue
  <1> DEFINE t == [NoTx EXCEPT !.held = batch]
  <1>2. /\ t.held = batch /\ t.rows = NoTx.rows /\ t.fired = NoTx.fired
        /\ t = [held |-> t.held, rows |-> t.rows, fired |-> t.fired]
    BY DEF NoTx
  <1>3. tx' = [tx EXCEPT ![w] = t]
    BY <1>1 DEF Inv, LockPart
  <1> HIDE DEF t
  <1>4. DOMAIN t.rows = {} /\ DOMAIN t.fired = {}
    BY <1>2 DEF NoTx
  <1>5. TxFits(t, row', clock)
    <2>1. t.rows \in [DOMAIN t.rows -> SlotRows] /\ t.fired \in [DOMAIN t.fired -> Int]
      BY <1>2, NoTxFits DEF TxFits
    <2>2. \A s \in t.held : s \in Schedules /\ row[s] # NoRow /\ row[s].enabled /\ row[s].next <= clock
      BY <1>1, <1>2 DEF Due, Live
    <2> QED
      BY <1>1, <1>2, <1>4, <2>1, <2>2 DEF TxFits
  <1>6. \A v \in Workers \ {w} : tx[v].held \cap t.held = {}
    BY <1>1, <1>2 DEF Locked
  <1>7. TxAhead(t, row', last', archived)
    BY <1>4 DEF TxAhead
  <1>8. RowPart' /\ (RowsAhead => RowsAhead')
    BY <1>1 DEF Inv, RowPart, RowsAhead, Live
  <1> QED
    BY <1>1, <1>3, <1>5, <1>6, <1>7, <1>8, WorkerMoves DEF Inv, ClockPart

\* fireSchedule prepares the row it has locked.
LEMMA FireInv ==
  ASSUME Inv, NEW w \in Workers, NEW s \in tx[w].held, NEW skew \in Skews, FireSchedule(w, s, skew)
  PROVE  Inv'
  <1> DEFINE now == clock + skew
             goes == row[s].cron \in parses /\ row[s].script \notin archived
             R == [u \in Done(w) \cup {s} |-> IF u = s THEN FiredRow(s, now) ELSE tx[w].rows[u]]
             F == IF goes
                  THEN [u \in (DOMAIN tx[w].fired) \cup {s} |->
                          IF u = s THEN now ELSE tx[w].fired[u]]
                  ELSE tx[w].fired
             t == [held |-> tx[w].held, rows |-> R, fired |-> F]
  <1>0. RowPart /\ TxFits(tx[w], row, clock) /\ now \in Int
    BY ScheduleAssumption DEF Inv, LockPart, RowPart, Skews
  <1>1. /\ s \notin Done(w)
        /\ UNCHANGED <<clock, row, archived, parses, req, faults, saves, last>>
    BY DEF FireSchedule
  <1>2. tx' = [tx EXCEPT ![w] = t]
    BY DEF FireSchedule, Inv, LockPart
  <1>3. /\ s \in Live /\ FiredRow(s, now) \in SlotRows
        /\ FiredRow(s, now).cron = row[s].cron /\ FiredRow(s, now).script = row[s].script
        /\ row[s].cron \in parses => FiredRow(s, now).next > now
        /\ row[s].cron \notin parses => FiredRow(s, now).next = row[s].next
    <2>1. s \in Live
      BY <1>0 DEF TxFits, Live
    <2> HIDE DEF now
    <2> QED
      BY <1>0, <2>1, FiredRowFits
  <1>4. /\ DOMAIN R = Done(w) \cup {s} /\ R[s] = FiredRow(s, now)
        /\ \A u \in Done(w) : R[u] = tx[w].rows[u]
        /\ R \in [DOMAIN R -> SlotRows] /\ DOMAIN R \subseteq tx[w].held
    BY <1>0, <1>1, <1>3 DEF TxFits, Done
  <1>5. /\ F \in [DOMAIN F -> Int] /\ DOMAIN F \subseteq (DOMAIN tx[w].fired) \cup {s}
        /\ s \in DOMAIN F => F[s] = now
        /\ goes <=> s \in DOMAIN F
        /\ DOMAIN tx[w].fired \subseteq DOMAIN F
        /\ \A u \in DOMAIN F : u # s => F[u] = tx[w].fired[u] /\ u \in DOMAIN tx[w].fired
    <2>1. tx[w].fired \in [DOMAIN tx[w].fired -> Int] /\ s \notin DOMAIN tx[w].fired
      BY <1>0, <1>1 DEF TxFits, Done
    <2> QED
      BY <1>0, <2>1
  <1>6. DOMAIN tx[w].fired \subseteq Done(w)
    BY <1>0 DEF TxFits, Done
  <1> HIDE DEF R, F
  <1>7. t.held = tx[w].held /\ t.rows = R /\ t.fired = F
    OBVIOUS
  <1>8. t = [held |-> t.held, rows |-> t.rows, fired |-> t.fired]
    OBVIOUS
  <1> HIDE DEF t
  <1>9. TxFits(t, row', clock)
    <2>1. \A u \in DOMAIN R : R[u].cron = row[u].cron /\ R[u].script = row[u].script
      BY <1>0, <1>3, <1>4 DEF TxFits, Done
    <2>2. DOMAIN F \subseteq DOMAIN R
      BY <1>4, <1>5, <1>6
    <2> QED
      BY <1>0, <1>1, <1>4, <1>5, <1>7, <1>8, <2>1, <2>2 DEF TxFits
  <1>10. \A v \in Workers \ {w} : tx[v].held \cap t.held = {}
    BY <1>7 DEF Inv, LockPart
  <1>11. RowsAhead' /\ TxAhead(t, row', last', archived)
    <2>0. RowsAhead /\ TxAhead(tx[w], row, last, archived)
      BY DEF Inv, ClockPart
    <2>1. RowsAhead'
      BY <1>1, <2>0 DEF RowsAhead, Live
    <2>2. s \in DOMAIN F \/ Ahead(last[s], FiredRow(s, now), archived)
      <3>1. CASE goes
        BY <1>5, <3>1
      <3>2. CASE row[s].cron \in parses /\ row[s].script \in archived
        BY <1>3, <3>2 DEF Ahead
      <3>3. CASE row[s].cron \notin parses
        BY <1>3, <2>0, <3>3 DEF RowsAhead, Ahead
      <3> QED
        BY <3>1, <3>2, <3>3
    <2>3. \A u \in DOMAIN R : u \in DOMAIN F \/ Ahead(last[u], R[u], archived)
      BY <1>4, <1>5, <2>0, <2>2 DEF TxAhead, Done
    <2>4. \A u \in DOMAIN F : R[u].next > F[u]
      BY <1>3, <1>4, <1>5, <1>6, <2>0 DEF TxAhead
    <2>5. ASSUME NEW u \in DOMAIN F PROVE last[u].saved \/ row[u].next > last[u].at
      <3>1. CASE u = s
        BY <1>3, <1>5, <2>0, <2>5, <3>1 DEF RowsAhead, Ahead
      <3>2. CASE u # s
        BY <1>5, <2>0, <2>5, <3>2 DEF TxAhead
      <3> QED
        BY <3>1, <3>2
    <2> QED
      BY <1>1, <1>7, <2>1, <2>3, <2>4, <2>5 DEF TxAhead
  <1>12. RowPart'
    BY <1>0, <1>1 DEF RowPart
  <1> QED
    BY <1>1, <1>2, <1>9, <1>10, <1>11, <1>12, WorkerMoves

\* The rows that a transaction has prepared become the table's.
LEMMA CommitInv ==
  ASSUME Inv, NEW w \in Workers, CommitFirings(w)
  PROVE  Inv'
  <1>0. /\ RowPart /\ TxFits(tx[w], row, clock) /\ clock \in Int
        /\ tx' = [tx EXCEPT ![w] = NoTx]
        /\ UNCHANGED <<clock, archived, parses, req, faults, saves>>
    <2>1. RowPart /\ TxFits(tx[w], row, clock) /\ clock \in Int
      BY DEF Inv, LockPart, RowPart
    <2>2. /\ tx' = [tx EXCEPT ![w] = NoTx]
          /\ UNCHANGED <<clock, archived, parses, req, faults, saves>>
      BY DEF CommitFirings
    <2> QED
      BY <2>1, <2>2
  <1>1. ASSUME NEW s \in Done(w)
        PROVE  /\ s \in Schedules /\ row'[s] \in SlotRows
               /\ row'[s].next = tx[w].rows[s].next /\ row'[s] # NoRow
               /\ row'[s].script = tx[w].rows[s].script
    <2>1. /\ s \in Schedules /\ row[s] \in SlotRows /\ tx[w].rows[s] \in SlotRows
          /\ tx[w].rows[s].cron = row[s].cron /\ tx[w].rows[s].script = row[s].script
      BY <1>0, <1>1 DEF TxFits, RowPart, Done
    <2>2. row'[s] = [row[s] EXCEPT !.next = tx[w].rows[s].next, !.enabled = tx[w].rows[s].enabled]
      BY <1>1, <2>1 DEF CommitFirings
    <2>3. /\ row[s] \in Rows /\ tx[w].rows[s] \in Rows
          /\ tx[w].rows[s].next % tx[w].rows[s].cron = 0
      BY <2>1 DEF SlotRows
    <2>4. /\ row'[s] \in Rows /\ row'[s].next = tx[w].rows[s].next
          /\ row'[s].cron = row[s].cron /\ row'[s].script = row[s].script
      BY <2>2, <2>3 DEF Rows
    <2>5. row'[s] \in SlotRows
      BY <2>1, <2>3, <2>4 DEF SlotRows
    <2> QED
      BY <2>1, <2>4, <2>5, RowsAreReal
  <1>2. \A s \in Schedules \ Done(w) : row'[s] = row[s] /\ last'[s] = last[s]
    BY <1>0 DEF CommitFirings, TxFits, Done
  <1>3. /\ row' \in [Schedules -> SlotRows \cup {NoRow}]
        /\ DOMAIN last' = Schedules
    <2>1. row' = [s \in Schedules |-> row'[s]] /\ last' = [s \in Schedules |-> last'[s]]
      BY DEF CommitFirings
    <2>2. \A s \in Schedules : row'[s] \in SlotRows \cup {NoRow}
      BY <1>0, <1>1, <1>2 DEF RowPart
    <2> QED
      BY <2>1, <2>2
  <1>4. ASSUME NEW s \in DOMAIN tx[w].fired
        PROVE  /\ s \in Schedules
               /\ last'[s] \in [slot : Int, at : Int, saved : BOOLEAN]
               /\ last'[s].at = tx[w].fired[s]
    <2>1. /\ s \in Schedules /\ row[s] \in SlotRows /\ tx[w].fired[s] \in Int
      BY <1>0, <1>4 DEF TxFits, RowPart
    <2>2. row[s].next \in Int
      BY <2>1 DEF SlotRows, Rows
    <2>3. last'[s] = [slot |-> row[s].next, at |-> tx[w].fired[s], saved |-> FALSE]
      BY <1>4, <2>1 DEF CommitFirings
    <2> QED
      BY <2>1, <2>2, <2>3
  <1>5. \A s \in Schedules \ DOMAIN tx[w].fired : last'[s] = last[s]
    BY DEF CommitFirings
  <1>6. last' \in [Schedules -> [slot : Int, at : Int, saved : BOOLEAN]]
    <2>1. last' = [s \in Schedules |-> last'[s]]
      BY DEF CommitFirings
    <2>2. ASSUME NEW s \in Schedules PROVE last'[s] \in [slot : Int, at : Int, saved : BOOLEAN]
      <3>1. CASE s \in DOMAIN tx[w].fired
        BY <1>4, <3>1
      <3>2. CASE s \notin DOMAIN tx[w].fired
        BY <1>0, <1>5, <3>2 DEF RowPart
      <3> QED
        BY <3>1, <3>2
    <2> QED
      BY <2>1, <2>2
  <1>7. RowPart'
    BY <1>0, <1>3, <1>6 DEF RowPart
  <1>8. RowsAhead'
    <2>0. RowsAhead /\ TxAhead(tx[w], row, last, archived)
      BY DEF Inv, ClockPart
    <2>1. ASSUME NEW s \in Schedules, row'[s] # NoRow
          PROVE  Ahead(last'[s], row'[s], archived)
      <3>1. CASE s \in DOMAIN tx[w].fired
        <4>1. /\ s \in Done(w) /\ tx[w].rows[s].next > tx[w].fired[s]
              /\ last'[s].at = tx[w].fired[s]
          BY <1>0, <1>4, <2>0, <3>1 DEF TxAhead, TxFits, Done
        <4> QED
          BY <1>1, <4>1 DEF Ahead
      <3>2. CASE s \in Done(w) \ DOMAIN tx[w].fired
        <4>1. Ahead(last[s], tx[w].rows[s], archived)
          BY <2>0, <3>2 DEF TxAhead, Done
        <4>2. /\ row'[s].next = tx[w].rows[s].next /\ row'[s].script = tx[w].rows[s].script
              /\ last'[s] = last[s]
          BY <1>1, <1>5, <3>2
        <4> QED
          BY <4>1, <4>2 DEF Ahead
      <3>3. CASE s \notin Done(w)
        BY <1>2, <2>0, <2>1, <3>3 DEF RowsAhead, Live
      <3> QED
        BY <3>1, <3>2, <3>3
    <2> QED
      BY <1>0, <2>1 DEF RowsAhead, Live
  <1>9. Done(w) \subseteq tx[w].held
    BY <1>0 DEF TxFits, Done
  <1>10. \A v \in Workers \ {w} : tx[v].held \cap NoTx.held = {}
    BY NoTxFits
  <1> QED
    BY <1>0, <1>2, <1>7, <1>8, <1>9, <1>10, NoTxFits, WorkerMoves

\* A rollback leaves the tables as they were.
LEMMA FailsInv ==
  ASSUME Inv, NEW w \in Workers, FiringFails(w)
  PROVE  Inv'
  <1> USE ScheduleAssumption
  <1>1. /\ tx' = [tx EXCEPT ![w] = NoTx]
        /\ UNCHANGED <<clock, row, archived, parses, req, saves, last>>
    BY DEF FiringFails
  <1>2. RowPart' /\ (RowsAhead => RowsAhead')
    BY <1>1 DEF FiringFails, Inv, RowPart, RowsAhead, Live
  <1>3. \A v \in Workers \ {w} : tx[v].held \cap NoTx.held = {}
    BY NoTxFits
  <1> QED
    BY <1>1, <1>2, <1>3, NoTxFits, WorkerMoves DEF Inv, ClockPart

-----------------------------------------------------------------------------
(* The theorems.                                                           *)

\* The invariant is inductive, ...
LEMMA NextInv == Inv /\ [Next]_vars => Inv'
  <1> SUFFICES ASSUME Inv, [Next]_vars PROVE Inv'
    OBVIOUS
  <1>1. CASE UNCHANGED vars
    BY <1>1 DEF vars, Inv, RowPart, LockPart, ClockPart, RowsAhead, Live
  <1>2. CASE Next
    BY <1>2, ValidateInv, UpsertInv, DeleteInv, OtherInv, ClaimInv, FireInv, CommitInv, FailsInv
       DEF Next, RequestStep, WorkerStep
  <1> QED
    BY <1>1, <1>2

\* ... and holds in every reachable state.
LEMMA SpecInv == Spec => []Inv
  BY InitInv, NextInv, PTL DEF Spec

\* Under any number of workers, requests, rollbacks and clock skews, a row that a
\* worker has claimed stays until it commits, and next_run_at is always a slot
\* of the expression stored with it.
THEOREM RowsFollowTheirCron == Spec => []ScheduleInv
  <1>1. Inv => ScheduleInv
    <2> SUFFICES ASSUME Inv PROVE ScheduleInv
      OBVIOUS
    <2>1. SlotRows \subseteq Rows
      BY DEF SlotRows
    <2>2. TypeOK
      <3>1. /\ row \in [Schedules -> Rows \cup {NoRow}]
            /\ req \in [Requests -> {NoReq} \cup [schedule : Schedules, new : Rows,
                                               checked : BOOLEAN]]
        BY <2>1 DEF Inv, RowPart
      <3>2. ASSUME NEW w \in Workers
            PROVE  /\ tx[w].held \subseteq Live
                   /\ DOMAIN tx[w].fired \subseteq Done(w)
                   /\ Done(w) \subseteq tx[w].held
                   /\ tx[w].rows \in [Done(w) -> Rows]
        <4>1. TxFits(tx[w], row, clock)
          BY DEF Inv, LockPart
        <4>2. tx[w].rows \in [Done(w) -> SlotRows]
          BY <4>1 DEF TxFits, Done
        <4>3. tx[w].rows \in [Done(w) -> Rows]
          BY <2>1, <4>2
        <4> QED
          BY <4>1, <4>3 DEF TxFits, Done, Live
      <3> QED
        BY <3>1, <3>2 DEF TypeOK, Inv, RowPart
    <2>3. NextFollowsCron
      BY DEF NextFollowsCron, Inv, RowPart, Live, SlotRows
    <2> QED
      BY <2>2, <2>3 DEF ScheduleInv
  <1> QED
    BY <1>1, SpecInv, PTL

\* fireSchedule and upsertSchedule: whatever edits, deletions and other workers
\* come in between, jobs are created for a schedule that is there, enabled, due
\* and as the worker read it.
THEOREM JobsAreAsSaved == Spec => FiresAsSaved
  <1>1. ASSUME Inv, [Next]_vars, NEW w \in Workers, NEW s \in DOMAIN tx[w].fired,
               tx'[w] = NoTx, last'[s] # last[s]
        PROVE  /\ s \in Due
               /\ tx[w].rows[s].cron = row[s].cron /\ tx[w].rows[s].script = row[s].script
    <2>1. TxFits(tx[w], row, clock)
      BY <1>1 DEF Inv, LockPart
    <2> QED
      BY <1>1, <2>1 DEF TxFits, Due, Live
  <1>2. Inv /\ [Next]_vars =>
          [\A w \in Workers : \A s \in DOMAIN tx[w].fired :
             (tx'[w] = NoTx /\ last'[s] # last[s]) =>
               /\ s \in Due
               /\ tx[w].rows[s].cron = row[s].cron /\ tx[w].rows[s].script = row[s].script]_vars
    BY <1>1
  <1> QED
    BY <1>2, SpecInv, PTL DEF Spec, FiresAsSaved

\* fireSchedule, whatever the clocks of the workers and of the database are: it
\* fires no slot that the worker that fired before it had already reached, so
\* nothing is fired twice by clocks that agree, and no missed slot is made up for.
THEOREM NoSlotTwice == Spec => NoReplay
  <1>1. ASSUME Inv, [Next]_vars, NEW s \in Schedules, last'[s] # last[s],
               last'[s].slot # -1, ~last'[s].saved, ~last[s].saved
        PROVE  last'[s].slot > last[s].at
    <2>0. RowPart /\ LockPart /\ ClockPart
      BY <1>1 DEF Inv, ClockPart
    <2>1. PICK w \in Workers : CommitFirings(w)
      <3>1. ASSUME NEW r \in Requests, UpsertCommit(r) PROVE FALSE
        BY <1>1, <2>0, <3>1 DEF UpsertCommit, RowPart
      <3>2. ASSUME NEW u \in Schedules, DeleteSchedule(u) PROVE FALSE
        BY <1>1, <2>0, <3>2 DEF DeleteSchedule, RowPart, NoFire
      <3> QED
        BY <1>1, <3>1, <3>2 DEF Next, RequestStep, WorkerStep, UpsertValidate, UpsertBegin,
           UpsertFails, ArchiveScript, RetireCron, ClaimDueSchedules, FireSchedule, FiringFails,
           Tick, vars
    <2>2. s \in DOMAIN tx[w].fired /\ last'[s].slot = row[s].next
      BY <1>1, <2>1 DEF CommitFirings
    <2> QED
      BY <1>1, <2>0, <2>2 DEF ClockPart, TxAhead
  <1>2. Inv /\ [Next]_vars =>
          [\A s \in Schedules :
             (last'[s] # last[s] /\ last'[s].slot # -1 /\ ~last'[s].saved /\ ~last[s].saved)
               => last'[s].slot > last[s].at]_vars
    BY <1>1
  <1> QED
    BY <1>2, SpecInv, PTL DEF Spec, NoReplay
=============================================================================
