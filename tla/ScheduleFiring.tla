--------------------------- MODULE ScheduleFiring ---------------------------
(***************************************************************************)
(* The schedules of one tenant: the workers that fire them                 *)
(* (worker.tickTenant, worker.fireSchedule, store/schedules.go) against    *)
(* the dashboard requests that save, delete and archive                    *)
(* (api/schedules_handlers.go, scripts_handlers.go).                       *)
(*                                                                         *)
(* A worker claims due rows with FOR UPDATE SKIP LOCKED, fires each of     *)
(* them and commits the new next_run_at together with the jobs.  A request *)
(* computes next_run_at before its transaction begins, and its UPDATE      *)
(* waits for a row that a worker holds.                                    *)
(*                                                                         *)
(* A cron expression is its period: it names the multiples of it.          *)
(***************************************************************************)
EXTENDS Integers, FiniteSets

CONSTANTS
  Schedules,   \* rows of the schedules table ever created (bound)
  Scripts,
  Crons,       \* cron expressions, as periods in clock units
  Workers,     \* worker processes
  Requests,    \* dashboard requests handled at a time (bound)
  Claims,      \* dueScheduleClaims
  MaxBehind,   \* how far a worker's clock may be behind the database's
  MaxAhead,    \* how far it may be ahead
  MaxTime,     \* the clock stops here (bound)
  MaxFaults,   \* transactions of workers that fail, or workers that stop (bound)
  MaxSaves,    \* saved edits (bound)
  None         \* no script, no row

ASSUME ScheduleAssumption ==
  /\ Crons \subseteq Nat \ {0} /\ Claims \in Nat \ {0} /\ MaxBehind \in Nat /\ MaxAhead \in Nat
  /\ MaxTime \in Nat /\ MaxFaults \in Nat /\ MaxSaves \in Nat
  /\ None \notin Scripts \cup Schedules

VARIABLES
  clock,     \* the database's now()
  row,       \* row[s]: the row of schedule s, NoRow if there is none
  archived,  \* scripts with archived_at set
  parses,    \* cron expressions that ParseStandard of the running build accepts
  tx,        \* tx[w]: the firing transaction of worker w
  req,       \* req[r]: the request r between its validation and its commit
  faults, saves,
  last       \* history: last[s]: the slot fired last, the firing worker's clock, and
             \* whether s was saved since

vars == <<clock, row, archived, parses, tx, req, faults, saves, last>>

Rows   == [script : Scripts, cron : Crons, enabled : BOOLEAN, next : Int]
NoRow  == [script |-> None, cron |-> 0, enabled |-> FALSE, next |-> 0]
NoTx   == [held |-> {}, rows |-> [s \in {} |-> NoRow], fired |-> [s \in {} |-> 0]]
NoReq  == [schedule |-> None, new |-> NoRow, checked |-> FALSE]
NoFire == [slot |-> -1, at |-> -1, saved |-> FALSE]

Skews     == -MaxBehind .. MaxAhead
Done(w)   == DOMAIN tx[w].rows
Live      == {s \in Schedules : row[s] # NoRow}
Locked    == UNION {tx[w].held : w \in Workers}
Saving(s) == \E r \in Requests : req[r].schedule = s

TypeOK ==
  /\ clock \in 0 .. MaxTime
  /\ row \in [Schedules -> Rows \cup {NoRow}]
  /\ archived \subseteq Scripts /\ parses \subseteq Crons
  /\ \A w \in Workers : /\ tx[w].held \subseteq Live
                        /\ DOMAIN tx[w].fired \subseteq Done(w)
                        /\ Done(w) \subseteq tx[w].held
                        /\ tx[w].rows \in [Done(w) -> Rows]
  /\ req \in [Requests -> {NoReq} \cup [schedule : Schedules, new : Rows, checked : BOOLEAN]]
  /\ faults \in 0 .. MaxFaults /\ saves \in 0 .. MaxSaves
  /\ last \in [Schedules -> [slot : Int, at : Int, saved : BOOLEAN]]

Init ==
  /\ clock = 0
  /\ row = [s \in Schedules |-> NoRow]
  /\ archived = {} /\ parses = Crons
  /\ tx = [w \in Workers |-> NoTx]
  /\ req = [r \in Requests |-> NoReq]
  /\ faults = 0 /\ saves = 0
  /\ last = [s \in Schedules |-> NoFire]

\* cron.Schedule.Next: the first slot after t.
NextSlot(cron, t) == ((t \div cron) + 1) * cron

-----------------------------------------------------------------------------
(* The dashboard.                                                          *)

\* upsertSchedule up to its transaction: the body is valid, and the next run
\* is counted from the request's clock.  s without a row is a POST.
UpsertValidate(r, s, script, cron, enabled) ==
  /\ req[r] = NoReq
  /\ s \in Live \/ ~Saving(s)
  /\ saves < MaxSaves
  /\ cron \in parses
  /\ req' = [req EXCEPT ![r] = [schedule |-> s,
       new |-> [script |-> script, cron |-> cron, enabled |-> enabled,
                next |-> NextSlot(cron, clock)],
       checked |-> FALSE]]
  /\ saves' = saves + 1
  /\ UNCHANGED <<clock, row, archived, parses, tx, faults, last>>

\* The transaction of upsertSchedule begins: the script is there and not archived.
UpsertBegin(r) ==
  /\ req[r] # NoReq /\ ~req[r].checked
  /\ req[r].new.script \notin archived
  /\ req' = [req EXCEPT ![r].checked = TRUE]
  /\ UNCHANGED <<clock, row, archived, parses, tx, faults, saves, last>>

\* A variant that keeps the old next_run_at when the row is updated.
SavedRowKeepsNext(s, new) ==
  IF row[s] = NoRow THEN new ELSE [new EXCEPT !.script = row[s].script, !.next = row[s].next]

\* CreateSchedule, or UpdateSchedule, whose SET list has no script_id.
SavedRow(s, new) == IF row[s] = NoRow THEN new ELSE [new EXCEPT !.script = row[s].script]

\* A variant that does not wait for the row.
UpsertUnlocked(r) ==
  LET s == req[r].schedule
      new == req[r].new IN
  /\ req[r].checked
  /\ row' = [row EXCEPT ![s] = SavedRow(s, new)]
  /\ last' = [last EXCEPT ![s].saved = TRUE]
  /\ req' = [req EXCEPT ![r] = NoReq]
  /\ UNCHANGED <<clock, archived, parses, tx, faults, saves>>

\* The INSERT or UPDATE, which waits for the row lock of a worker, and the commit.
UpsertCommit(r) ==
  LET s == req[r].schedule
      new == req[r].new IN
  /\ req[r].checked
  /\ s \notin Locked
  /\ row' = [row EXCEPT ![s] = SavedRow(s, new)]
  /\ last' = [last EXCEPT ![s].saved = TRUE]
  /\ req' = [req EXCEPT ![r] = NoReq]
  /\ UNCHANGED <<clock, archived, parses, tx, faults, saves>>

\* The script is archived, the target is refused, a confirmation is missing,
\* or the wait for the row exceeds lock_timeout.
UpsertFails(r) ==
  /\ req[r] # NoReq
  /\ req' = [req EXCEPT ![r] = NoReq]
  /\ UNCHANGED <<clock, row, archived, parses, tx, faults, saves, last>>

\* handleDeleteSchedule; an update under way then finds no row (ErrNotFound).
DeleteSchedule(s) ==
  /\ s \in Live /\ s \notin Locked
  /\ row' = [row EXCEPT ![s] = NoRow]
  /\ req' = [r \in Requests |-> IF req[r].schedule = s THEN NoReq ELSE req[r]]
  /\ last' = [last EXCEPT ![s] = NoFire]
  /\ UNCHANGED <<clock, archived, parses, tx, faults, saves>>

\* handleArchiveScript; schedules of the script stay.
ArchiveScript(x) ==
  /\ x \notin archived
  /\ archived' = archived \cup {x}
  /\ UNCHANGED <<clock, row, parses, tx, req, faults, saves, last>>

\* A new build of the server no longer accepts an expression it stored.
RetireCron(c) ==
  /\ c \in parses
  /\ parses' = parses \ {c}
  /\ UNCHANGED <<clock, row, archived, tx, req, faults, saves, last>>

-----------------------------------------------------------------------------
(* The workers.                                                            *)

Due == {s \in Live : row[s].enabled /\ row[s].next <= clock}

\* ORDER BY next_run_at LIMIT Claims, rows locked by others skipped.
FirstDue(batch, free) ==
  /\ batch \subseteq free
  /\ Cardinality(batch) = IF Cardinality(free) <= Claims THEN Cardinality(free) ELSE Claims
  /\ \A s \in batch, t \in free \ batch : row[s].next <= row[t].next

\* ClaimDueSchedules.
ClaimDueSchedules(w, batch) ==
  /\ tx[w] = NoTx
  /\ FirstDue(batch, Due \ Locked) /\ batch # {}
  /\ tx' = [tx EXCEPT ![w].held = batch]
  /\ UNCHANGED <<clock, row, archived, parses, req, faults, saves, last>>

\* Variants: one that counts from the slot that was missed, one that leaves an
\* unparsable expression enabled.
FiredRowFromSlot(s, now) ==
  IF row[s].cron \in parses
  THEN [row[s] EXCEPT !.next = NextSlot(row[s].cron, row[s].next)]
  ELSE [row[s] EXCEPT !.enabled = FALSE]
FiredRowStaysEnabled(s, now) ==
  IF row[s].cron \in parses
  THEN [row[s] EXCEPT !.next = NextSlot(row[s].cron, now)]
  ELSE row[s]

\* What fireSchedule makes of the row: MarkScheduleRun with the next slot after
\* the worker's now, or disabled.
FiredRow(s, now) ==
  IF row[s].cron \in parses
  THEN [row[s] EXCEPT !.next = NextSlot(row[s].cron, now)]
  ELSE [row[s] EXCEPT !.enabled = FALSE]

\* fireSchedule for one claimed row, by the clock of its worker, which need not be
\* the database's that made the row due: jobs are created unless the expression
\* does not parse or the script is archived.
FireSchedule(w, s, skew) ==
  LET now == clock + skew IN
  /\ s \in tx[w].held \ Done(w)
  /\ tx' = [tx EXCEPT ![w] =
       [held  |-> @.held,
        rows  |-> [t \in Done(w) \cup {s} |-> IF t = s THEN FiredRow(s, now) ELSE @.rows[t]],
        fired |-> IF row[s].cron \in parses /\ row[s].script \notin archived
                  THEN [t \in DOMAIN @.fired \cup {s} |-> IF t = s THEN now ELSE @.fired[t]]
                  ELSE @.fired]]
  /\ UNCHANGED <<clock, row, archived, parses, req, faults, saves, last>>

\* The transaction commits: rows and jobs together.
CommitFirings(w) ==
  /\ tx[w] # NoTx /\ Done(w) = tx[w].held
  /\ row' = [s \in Schedules |-> IF s \notin Done(w) THEN row[s]
                                 ELSE [row[s] EXCEPT !.next = tx[w].rows[s].next,
                                                     !.enabled = tx[w].rows[s].enabled]]
  /\ last' = [s \in Schedules |->
               IF s \in DOMAIN tx[w].fired
               THEN [slot |-> row[s].next, at |-> tx[w].fired[s], saved |-> FALSE] ELSE last[s]]
  /\ tx' = [tx EXCEPT ![w] = NoTx]
  /\ UNCHANGED <<clock, archived, parses, req, faults, saves>>

\* An error of one schedule, or the end of the process, rolls back the batch.
FiringFails(w) ==
  /\ tx[w] # NoTx /\ faults < MaxFaults
  /\ faults' = faults + 1
  /\ tx' = [tx EXCEPT ![w] = NoTx]
  /\ UNCHANGED <<clock, row, archived, parses, req, saves, last>>

Tick ==
  /\ clock < MaxTime
  /\ clock' = clock + 1
  /\ UNCHANGED <<row, archived, parses, tx, req, faults, saves, last>>

-----------------------------------------------------------------------------
WorkerStep(w) == \/ \E batch \in SUBSET Due : ClaimDueSchedules(w, batch)
                 \/ \E s \in tx[w].held, skew \in Skews : FireSchedule(w, s, skew)
                 \/ CommitFirings(w)

RequestStep(r) == UpsertBegin(r) \/ UpsertCommit(r) \/ UpsertFails(r)

Next ==
  \/ \E r \in Requests, s \in Schedules, x \in Scripts, c \in Crons, e \in BOOLEAN :
       UpsertValidate(r, s, x, c, e)
  \/ \E r \in Requests : RequestStep(r)
  \/ \E s \in Schedules : DeleteSchedule(s)
  \/ \E x \in Scripts : ArchiveScript(x)
  \/ \E c \in Crons : RetireCron(c)
  \/ \E w \in Workers : WorkerStep(w) \/ FiringFails(w)
  \/ Tick

Spec == Init /\ [][Next]_vars

\* Workers tick and their transactions end; requests end; nobody owes an edit.
FairSpec ==
  /\ Spec /\ WF_vars(Tick)
  /\ \A w \in Workers : WF_vars(WorkerStep(w))
  /\ \A r \in Requests : WF_vars(RequestStep(r))

-----------------------------------------------------------------------------
(* Properties.                                                             *)

\* Two writers set next_run_at from their own idea of the expression; the row
\* lock makes them agree: it is always a slot of the expression stored with it.
NextFollowsCron == \A s \in Live : row[s].next % row[s].cron = 0

\* Jobs are created for a schedule as it is saved at that moment: still there,
\* enabled, due, and with the script and expression the worker read.
FiresAsSaved ==
  [][\A w \in Workers : \A s \in DOMAIN tx[w].fired :
       (tx'[w] = NoTx /\ last'[s] # last[s]) =>
         /\ s \in Due
         /\ tx[w].rows[s].cron = row[s].cron /\ tx[w].rows[s].script = row[s].script]_vars

\* Unless the schedule was saved in between, what is fired is a slot after the
\* time the previous firing had on its worker's clock.  So slots missed while no
\* worker ran are not made up for, and a slot is fired twice only if the worker
\* that fired it first had not reached it by its own clock.
NoReplay ==
  [][\A s \in Schedules :
       (last'[s] # last[s] /\ last'[s].slot # -1 /\ ~last'[s].saved /\ ~last[s].saved)
         => last'[s].slot > last[s].at]_vars

\* A slot that is due is left behind: it is fired or passed over, or the schedule
\* is disabled, deleted or saved with another slot, whichever other row's batch
\* is rolled back; at the latest when the slowest worker's clock has reached it.
DueIsServed ==
  \A s \in Schedules, n \in 0 .. MaxTime :
    n + MaxBehind <= MaxTime =>
      (s \in Due /\ row[s].next = n) ~> ~(s \in Due /\ row[s].next = n)

\* What the row locks of the claim and of the edits keep: a row a worker has
\* claimed stays, and its slot is one of its own expression.
ScheduleInv == TypeOK /\ NextFollowsCron
=============================================================================
