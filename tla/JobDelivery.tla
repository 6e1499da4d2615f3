---------------------------- MODULE JobDelivery -----------------------------
(***************************************************************************)
(* The delivery of jobs to one device, end to end: the jobs table          *)
(* (server/internal/store/jobs.go), the immediate dispatch after a job is  *)
(* committed (api.deliverJobs, worker.tickTenant), the gateway's           *)
(* connection registry, hello and drain (gateway.go, registry.go), the     *)
(* agent's read loop, its executeCommand goroutines and its journal        *)
(* (agent/internal/conn, agent/internal/exec), and the worker's expiry     *)
(* sweep.  A job belongs to one device, so one device shows every          *)
(* behaviour of a job.                                                     *)
(*                                                                         *)
(* A connection has two ends.  srv[c] is the gateway's; the agent's is     *)
(* open when agentConn = c.  Either may close first: what it had not yet   *)
(* read is lost, the other end keeps writing until it notices.  On the     *)
(* gateway's side the loss is a frame that is never handled: the model     *)
(* lets it be handled late, as one whose transaction is under way is.      *)
(***************************************************************************)
EXTENDS Integers, Sequences

CONSTANTS
  NJobs,        \* number of jobs ever created (bound)
  Malformed,    \* jobs whose parameters buildScriptSpec cannot decode
  Conns,        \* identities of the WebSocket connections, each used once (bound)
  Goroutines,   \* the executeCommand goroutines alive at a time (bound)
  Outcomes,     \* how running a command may end on the device
  MaxTTL,       \* largest expires_in of a dispatch, in clock units (bound)
  MaxTime,      \* the clock stops here (bound)
  AgentSkew,    \* the agent's clock minus the server's
  MaxRestarts,  \* restarts of the agent and of the server (bound)
  NoConn        \* not a connection

Jobs     == 1 .. NJobs    \* numbered in the order of created_at
HelloAck == 0             \* the one frame to the agent that is no command
Results  == Outcomes \cup {"expired"}

ASSUME ConstantsAssumption ==
  /\ NJobs \in Nat /\ Malformed \subseteq Jobs
  /\ Outcomes \subseteq {"succeeded", "failed", "timed_out"}
  /\ MaxTTL \in Nat /\ MaxTime \in Nat /\ MaxRestarts \in Nat
  /\ AgentSkew \in Int
  /\ NoConn \notin Conns

VARIABLES
  clock,       \* the server's clock (now() of the database)
  status,      \* jobs.status, "none" before the INSERT
  expiresAt,   \* jobs.expires_at
  output,      \* job_outputs: the status that came with the row, or "none"
  dispatch,    \* dispatch[j]: where deliverJobs stands with job j
  reg,         \* Registry.conns[device]
  srv,         \* srv[c]: the gateway's end of c: "new", "open" or "closed"
  drain,       \* drain[c]: HandleConnect's hello and drain goroutine of c
  agentConn,   \* the connection of the agent's connectAndServe, or NoConn
  agentReady,  \* has connectAndServe read its HelloAck?
  toAgent,     \* frames on their way to the agent, per connection
  toServer,    \* command results on their way to the gateway, per connection
  exec,        \* exec[g]: the state of an executeCommand goroutine
  journal,     \* Journal.done, in the agent's memory
  disk,        \* journal.json
  restarts,    \* restarts so far
  \* history, read by no action
  runs,        \* runs[j]: how often the device started to run j
  outcomes,    \* outcomes[j]: how the finished runs of j ended
  listed,      \* listed[c]: jobs that were in the table when c's drain read it
  sentOn       \* sentOn[c]: jobs written to c

serverVars == <<status, expiresAt, output, dispatch>>
connVars   == <<reg, srv, drain, agentConn, agentReady, toAgent, toServer, sentOn, listed>>
agentVars  == <<exec, journal, disk, runs, outcomes>>
vars == <<clock, restarts, serverVars, connVars, agentVars>>

Queued   == {"pending", "sent"}
Terminal == {"succeeded", "failed", "timed_out", "expired"}
Idle     == [pc |-> "idle", job |-> HelloAck, conn |-> NoConn, res |-> "none"]
AgentNow == clock + AgentSkew

DispatchState == [pc   : {"none", "lookup", "send", "mark", "done", "failed"},
                  conn : Conns \cup {NoConn}]
DrainState    == [pc   : {"none", "hello", "list", "send", "mark", "done", "failed"},
                  todo : SUBSET Jobs]
ExecState     == [pc   : {"idle", "check", "start", "run", "record", "reply"},
                  job  : Jobs \cup {HelloAck},
                  conn : Conns \cup {NoConn},
                  res  : {"none"} \cup Results]
Frame         == Jobs \cup {HelloAck}
Reports       == [job : Jobs, res : Results]

ServerTypes ==
  /\ clock \in 0 .. MaxTime
  /\ restarts \in 0 .. MaxRestarts
  /\ status \in [Jobs -> {"none"} \cup Queued \cup Terminal]
  /\ expiresAt \in [Jobs -> 0 .. MaxTime]
  /\ output \in [Jobs -> {"none"} \cup Results]
  /\ dispatch \in [Jobs -> DispatchState]
  /\ \A j \in Jobs : dispatch[j].pc = "send" => dispatch[j].conn \in Conns

ConnTypes ==
  /\ reg \in Conns \cup {NoConn}
  /\ srv \in [Conns -> {"new", "open", "closed"}]
  /\ drain \in [Conns -> DrainState]
  /\ agentConn \in Conns \cup {NoConn}
  /\ agentReady \in BOOLEAN
  /\ toAgent \in [Conns -> Seq(Frame)]
  /\ toServer \in [Conns -> Seq(Reports)]
  /\ sentOn \in [Conns -> SUBSET Jobs]
  /\ listed \in [Conns -> SUBSET Jobs]

\* A goroutine at work has a job and a connection, and a result past its run.
AgentTypes ==
  /\ exec \in [Goroutines -> ExecState]
  /\ \A g \in Goroutines : /\ exec[g].pc # "idle" => exec[g].job \in Jobs /\ exec[g].conn \in Conns
                           /\ exec[g].pc \in {"record", "reply"} => exec[g].res \in Results
  /\ journal \subseteq Jobs
  /\ disk \subseteq Jobs
  /\ runs \in [Jobs -> Nat]
  /\ outcomes \in [Jobs -> SUBSET Outcomes]

TypeOK == ServerTypes /\ ConnTypes /\ AgentTypes

Init ==
  /\ clock = 0
  /\ restarts = 0
  /\ status = [j \in Jobs |-> "none"]
  /\ expiresAt = [j \in Jobs |-> 0]
  /\ output = [j \in Jobs |-> "none"]
  /\ dispatch = [j \in Jobs |-> [pc |-> "none", conn |-> NoConn]]
  /\ reg = NoConn
  /\ srv = [c \in Conns |-> "new"]
  /\ drain = [c \in Conns |-> [pc |-> "none", todo |-> {}]]
  /\ agentConn = NoConn
  /\ agentReady = FALSE
  /\ toAgent = [c \in Conns |-> <<>>]
  /\ toServer = [c \in Conns |-> <<>>]
  /\ exec = [g \in Goroutines |-> Idle]
  /\ journal = {}
  /\ disk = {}
  /\ runs = [j \in Jobs |-> 0]
  /\ outcomes = [j \in Jobs |-> {}]
  /\ sentOn = [c \in Conns |-> {}]
  /\ listed = [c \in Conns |-> {}]

-----------------------------------------------------------------------------
(* The jobs table: one UPDATE or INSERT of store/jobs.go each.             *)

\* A variant of MarkJobSent without its WHERE ... status guard.
MarkJobSentUnguarded(j) == status' = [status EXCEPT ![j] = "sent"]

MarkJobSent(j) ==
  status' = IF status[j] \in Queued THEN [status EXCEPT ![j] = "sent"] ELSE status

Created == {j \in Jobs : status[j] # "none"}

\* A variant that lists only the jobs never marked sent.
ListOnlyPending == {j \in Jobs : status[j] = "pending" /\ expiresAt[j] > clock}

ListPendingJobsForDevice == {j \in Jobs : status[j] \in Queued /\ expiresAt[j] > clock}

\* A variant that refuses only a second result, not one after the sweep.
CompleteUnlessOutput(j, res) ==
  IF output[j] = "none"
  THEN /\ status' = [status EXCEPT ![j] = res]
       /\ output' = [output EXCEPT ![j] = res]
  ELSE UNCHANGED <<status, output>>

\* A variant whose UPDATE is unguarded while job_outputs keeps its first row.
CompleteOverwrites(j, res) ==
  /\ status' = [status EXCEPT ![j] = res]
  /\ output' = IF output[j] = "none" THEN [output EXCEPT ![j] = res] ELSE output

CompleteJob(j, res) ==
  IF status[j] \notin Terminal
  THEN /\ status' = [status EXCEPT ![j] = res]
       /\ output' = [output EXCEPT ![j] = res]
  ELSE UNCHANGED <<status, output>>

\* Variants of the sweep: one that forgets the jobs marked sent, one that
\* writes a status the schema does not have, one that sweeps a job in the
\* instant of its expiry.
ExpireOnlyPending ==
  /\ status' = [j \in Jobs |-> IF status[j] = "pending" /\ expiresAt[j] < clock
                               THEN "expired" ELSE status[j]]
  /\ UNCHANGED <<clock, restarts, expiresAt, output, dispatch, connVars, agentVars>>
ExpireToUnknownStatus ==
  /\ status' = [j \in Jobs |-> IF status[j] \in Queued /\ expiresAt[j] < clock
                               THEN "timeout" ELSE status[j]]
  /\ UNCHANGED <<clock, restarts, expiresAt, output, dispatch, connVars, agentVars>>

\* The worker's sweep (tickTenant's first transaction).
ExpireQueuedJobs ==
  /\ status' = [j \in Jobs |-> IF status[j] \in Queued /\ expiresAt[j] < clock
                               THEN "expired" ELSE status[j]]
  /\ UNCHANGED <<clock, restarts, expiresAt, output, dispatch, connVars, agentVars>>

-----------------------------------------------------------------------------
(* Dispatch: commit the job, then try to deliver it at once.               *)

\* The process that creates the job delivers it only if it runs the gateway:
\* deliverJobs and tickTenant return when Gateway is nil, as it is in an API or
\* a worker whose gateway runs elsewhere.  Jobs are created in order; MaxTime
\* leaves room for each to expire.
CreateJob(j, ttl, colocated) ==
  /\ status[j] = "none"
  /\ \A k \in Jobs : k < j => status[k] # "none"
  /\ clock + ttl < MaxTime
  /\ status' = [status EXCEPT ![j] = "pending"]
  /\ expiresAt' = [expiresAt EXCEPT ![j] = clock + ttl]
  /\ dispatch' = [dispatch EXCEPT ![j].pc = IF colocated THEN "lookup" ELSE "failed"]
  /\ UNCHANGED <<clock, restarts, output, connVars, agentVars>>

\* DispatchJob reads the command back and Registry.Send reads the map.
DispatchLookup(j) ==
  /\ dispatch[j].pc = "lookup"
  /\ j \notin Malformed
  /\ dispatch' = [dispatch EXCEPT ![j] =
       IF reg = NoConn THEN [pc |-> "done", conn |-> NoConn]
                       ELSE [pc |-> "send", conn |-> reg]]
  /\ UNCHANGED <<clock, restarts, status, expiresAt, output, connVars, agentVars>>

\* jobSpecForCommand fails, for its parameters or for a database error:
\* DispatchJob returns false.
DispatchFails(j) ==
  /\ dispatch[j].pc = "lookup"
  /\ dispatch' = [dispatch EXCEPT ![j].pc = "failed"]
  /\ UNCHANGED <<clock, restarts, status, expiresAt, output, connVars, agentVars>>

\* A write to an open end succeeds even when the agent's end has gone.
WriteToAgent(c, frame) ==
  toAgent' = IF agentConn = c THEN [toAgent EXCEPT ![c] = Append(@, frame)] ELSE toAgent

DispatchSend(j) ==
  LET c == dispatch[j].conn IN
  /\ dispatch[j].pc = "send"
  /\ srv[c] = "open"
  /\ WriteToAgent(c, j)
  /\ sentOn' = [sentOn EXCEPT ![c] = @ \cup {j}]
  /\ dispatch' = [dispatch EXCEPT ![j].pc = "mark"]
  /\ UNCHANGED <<clock, restarts, status, expiresAt, output, reg, srv, drain,
                 agentConn, agentReady, toServer, listed, agentVars>>

\* The write fails: the connection was closed since the lookup, or it is open
\* and the context of the request was cancelled.
DispatchSendFails(j) ==
  /\ dispatch[j].pc = "send"
  /\ dispatch' = [dispatch EXCEPT ![j] =
       [pc |-> IF srv[dispatch[j].conn] = "open" THEN "failed" ELSE "done", conn |-> NoConn]]
  /\ UNCHANGED <<clock, restarts, status, expiresAt, output, connVars, agentVars>>

\* MarkJobSent is a transaction of its own; its error is dropped.
DispatchMark(j) ==
  /\ dispatch[j].pc = "mark"
  /\ dispatch' = [dispatch EXCEPT ![j] = [pc |-> "done", conn |-> NoConn]]
  /\ MarkJobSent(j) \/ UNCHANGED status
  /\ UNCHANGED <<clock, restarts, expiresAt, output, connVars, agentVars>>

-----------------------------------------------------------------------------
(* The gateway.                                                            *)

\* The agent dials and authenticates, Registry.add replaces and closes the
\* previous connection, the agent's Hello is on its way.
Connect(c) ==
  /\ agentConn = NoConn
  /\ srv[c] = "new"
  /\ agentConn' = c
  /\ agentReady' = FALSE
  /\ reg' = c
  /\ srv' = [d \in Conns |-> IF d = c THEN "open" ELSE IF d = reg THEN "closed" ELSE srv[d]]
  /\ sentOn' = [d \in Conns |-> IF d = reg THEN {} ELSE sentOn[d]]
  /\ listed' = [d \in Conns |-> IF d = reg THEN {} ELSE listed[d]]
  /\ drain' = [drain EXCEPT ![c].pc = "hello"]
  /\ UNCHANGED <<clock, restarts, toAgent, toServer, serverVars, agentVars>>

\* serve answers the Hello and starts drainPendingJobs.
ServeHello(c) ==
  /\ drain[c].pc = "hello"
  /\ srv[c] = "open"
  /\ WriteToAgent(c, HelloAck)
  /\ drain' = [drain EXCEPT ![c].pc = "list"]
  /\ UNCHANGED <<clock, restarts, reg, srv, agentConn, agentReady, toServer, sentOn, listed,
                 serverVars, agentVars>>

DrainList(c) ==
  /\ drain[c].pc = "list"
  /\ drain' = [drain EXCEPT ![c] =
       [pc   |-> IF ListPendingJobsForDevice = {} THEN "done" ELSE "send",
        todo |-> ListPendingJobsForDevice]]
  /\ listed' = [listed EXCEPT ![c] = Created]
  /\ UNCHANGED <<clock, restarts, reg, srv, agentConn, agentReady, toAgent, toServer,
                 sentOn, serverVars, agentVars>>

\* Listing the jobs fails (a database error): the drain is over.
DrainListFails(c) ==
  /\ drain[c].pc = "list"
  /\ drain' = [drain EXCEPT ![c].pc = "failed"]
  /\ UNCHANGED <<clock, restarts, reg, srv, agentConn, agentReady, toAgent, toServer,
                 sentOn, listed, serverVars, agentVars>>

Oldest(S, j) == j \in S /\ \A k \in S : j <= k

\* The job is done with: the drain goes on with the next or ends.
DrainNext(c, j) ==
  drain' = [drain EXCEPT ![c] = [pc   |-> IF drain[c].todo = {j} THEN "done" ELSE "send",
                                 todo |-> drain[c].todo \ {j}]]

\* A variant that ends the drain at a job it cannot build a command for.
DrainSkipReturns(c) ==
  /\ drain[c].pc = "send"
  /\ \E j \in Malformed : Oldest(drain[c].todo, j)
  /\ drain' = [drain EXCEPT ![c] = [pc |-> "done", todo |-> {}]]
  /\ UNCHANGED <<clock, restarts, reg, srv, agentConn, agentReady, toAgent, toServer,
                 sentOn, listed, serverVars, agentVars>>

\* commandForPendingJob fails: the job is skipped, neither sent nor marked.
DrainSkip(c) ==
  /\ drain[c].pc = "send"
  /\ \E j \in Malformed : Oldest(drain[c].todo, j) /\ DrainNext(c, j)
  /\ UNCHANGED <<clock, restarts, reg, srv, agentConn, agentReady, toAgent, toServer,
                 sentOn, listed, serverVars, agentVars>>

\* One CommandRequest of the drain, oldest job first.
DrainSend(c) ==
  /\ drain[c].pc = "send"
  /\ srv[c] = "open"
  /\ \E j \in Jobs \ Malformed :
       /\ Oldest(drain[c].todo, j)
       /\ WriteToAgent(c, j)
       /\ sentOn' = [sentOn EXCEPT ![c] = @ \cup {j}]
       /\ drain' = [drain EXCEPT ![c].pc = "mark"]
  /\ UNCHANGED <<clock, restarts, reg, srv, agentConn, agentReady, toServer, listed,
                 serverVars, agentVars>>

\* A write of the drain fails, which ends it.
DrainSendFails(c) ==
  /\ drain[c].pc = "send"
  /\ \E j \in Jobs \ Malformed : Oldest(drain[c].todo, j)
  /\ drain' = [drain EXCEPT ![c] = [pc |-> "failed", todo |-> {}]]
  /\ UNCHANGED <<clock, restarts, reg, srv, agentConn, agentReady, toAgent, toServer,
                 sentOn, listed, serverVars, agentVars>>

DrainMark(c) ==
  /\ drain[c].pc = "mark"
  /\ \E j \in Jobs :
       /\ Oldest(drain[c].todo, j)
       /\ MarkJobSent(j) \/ UNCHANGED status
       /\ DrainNext(c, j)
  /\ UNCHANGED <<clock, restarts, expiresAt, output, dispatch, reg, srv, agentConn,
                 agentReady, toAgent, toServer, sentOn, listed, agentVars>>

\* handleCommandResult; a database error only logs, and the result is lost.
\* A handler whose connection is closed meanwhile still commits what it has
\* read; what it has not read is never handled.
HandleCommandResult(c) ==
  /\ toServer[c] # <<>>
  /\ toServer' = [toServer EXCEPT ![c] = Tail(@)]
  /\ \/ CompleteJob(Head(toServer[c]).job, Head(toServer[c]).res)
     \/ UNCHANGED <<status, output>>
  /\ UNCHANGED <<clock, restarts, expiresAt, dispatch, reg, srv, drain, agentConn,
                 agentReady, toAgent, sentOn, listed, agentVars>>

\* serve's Read fails or hits its deadline, which closes the connection.
ServeEnds(c) ==
  /\ srv[c] = "open"
  /\ srv' = [srv EXCEPT ![c] = "closed"]
  /\ sentOn' = [sentOn EXCEPT ![c] = {}]
  /\ listed' = [listed EXCEPT ![c] = {}]
  /\ UNCHANGED <<clock, restarts, reg, drain, agentConn, agentReady, toAgent, toServer,
                 serverVars, agentVars>>

\* The deferred Registry.remove of a handler that has returned; a connection
\* that was replaced is no longer in the registry.
Deregister(c) ==
  /\ reg = c
  /\ srv[c] = "closed"
  /\ reg' = NoConn
  /\ UNCHANGED <<clock, restarts, srv, drain, agentConn, agentReady, toAgent, toServer,
                 sentOn, listed, serverVars, agentVars>>

\* The server process stops: its connections, drains and dispatches die.
ServerRestart ==
  /\ restarts < MaxRestarts
  /\ restarts' = restarts + 1
  /\ reg' = NoConn
  /\ srv' = [c \in Conns |-> IF srv[c] = "open" THEN "closed" ELSE srv[c]]
  /\ toServer' = [c \in Conns |-> <<>>]
  /\ sentOn' = [c \in Conns |-> {}]
  /\ listed' = [c \in Conns |-> {}]
  /\ drain' = [c \in Conns |-> [pc   |-> IF drain[c].pc = "none" THEN "none" ELSE "failed",
                                todo |-> {}]]
  /\ dispatch' = [j \in Jobs |-> [pc   |-> IF dispatch[j].pc = "none" THEN "none" ELSE "done",
                                  conn |-> NoConn]]
  /\ UNCHANGED <<clock, status, expiresAt, output, agentConn, agentReady, toAgent, agentVars>>

-----------------------------------------------------------------------------
(* The agent.                                                              *)

HangUp ==
  /\ agentConn' = NoConn
  /\ agentReady' = FALSE
  /\ toAgent' = [toAgent EXCEPT ![agentConn] = <<>>]

\* connectAndServe reads its first frame: anything but the HelloAck, such as
\* a command dispatched before the Hello was served, makes it hang up.
ReadHelloAck ==
  /\ agentConn # NoConn
  /\ ~agentReady
  /\ toAgent[agentConn] # <<>>
  /\ IF Head(toAgent[agentConn]) = HelloAck
     THEN /\ agentReady' = TRUE
          /\ toAgent' = [toAgent EXCEPT ![agentConn] = Tail(@)]
          /\ UNCHANGED agentConn
     ELSE HangUp
  /\ UNCHANGED <<clock, restarts, reg, srv, drain, toServer, sentOn, listed, serverVars, agentVars>>

\* The read loop starts an executeCommand goroutine for a CommandRequest.
ReadCommand(g) ==
  /\ agentConn # NoConn
  /\ agentReady
  /\ toAgent[agentConn] # <<>>
  /\ Head(toAgent[agentConn]) # HelloAck
  /\ exec[g].pc = "idle"
  /\ exec' = [exec EXCEPT ![g] = [pc   |-> "check", job |-> Head(toAgent[agentConn]),
                                  conn |-> agentConn, res |-> "none"]]
  /\ toAgent' = [toAgent EXCEPT ![agentConn] = Tail(@)]
  /\ UNCHANGED <<clock, restarts, reg, srv, drain, agentConn, agentReady, toServer, sentOn, listed,
                 serverVars, journal, disk, runs, outcomes>>

\* A variant that answers a skipped command with success.
CheckAnswersSkipped(g) ==
  LET j == exec[g].job IN
  /\ exec[g].pc = "check"
  /\ \/ /\ j \in journal
        /\ exec' = [exec EXCEPT ![g].pc = "reply", ![g].res = "succeeded"]
     \/ /\ j \notin journal
        /\ AgentNow > expiresAt[j]
        /\ exec' = [exec EXCEPT ![g].pc = "record", ![g].res = "expired"]
     \/ /\ j \notin journal
        /\ ~(AgentNow > expiresAt[j])
        /\ exec' = [exec EXCEPT ![g].pc = "start"]
  /\ UNCHANGED <<clock, restarts, connVars, serverVars, journal, disk, runs, outcomes>>

\* executeCommand up to its decision: skip a command that Journal.Contains,
\* refuse an expired one, otherwise go on to run it.
CheckCommand(g) ==
  LET j == exec[g].job IN
  /\ exec[g].pc = "check"
  /\ \/ /\ j \in journal
        /\ exec' = [exec EXCEPT ![g] = Idle]
     \/ /\ j \notin journal
        /\ AgentNow > expiresAt[j]
        /\ exec' = [exec EXCEPT ![g].pc = "record", ![g].res = "expired"]
     \/ /\ j \notin journal
        /\ ~(AgentNow > expiresAt[j])
        /\ exec' = [exec EXCEPT ![g].pc = "start"]
  /\ UNCHANGED <<clock, restarts, connVars, serverVars, journal, disk, runs, outcomes>>

\* RunScript or RunPackage starts.  The journal's lock is long released: another
\* goroutine may have recorded the command since the check.
StartRun(g) ==
  /\ exec[g].pc = "start"
  /\ exec' = [exec EXCEPT ![g].pc = "run"]
  /\ runs' = [runs EXCEPT ![exec[g].job] = @ + 1]
  /\ UNCHANGED <<clock, restarts, connVars, serverVars, journal, disk, outcomes>>

\* It returns.
FinishRun(g, res) ==
  /\ exec[g].pc = "run"
  /\ exec' = [exec EXCEPT ![g].pc = "record", ![g].res = res]
  /\ outcomes' = [outcomes EXCEPT ![exec[g].job] = @ \cup {res}]
  /\ UNCHANGED <<clock, restarts, connVars, serverVars, journal, disk, runs>>

\* Journal.Record: the map first, then tmp file and rename, which may fail.
RecordCommand(g) ==
  /\ exec[g].pc = "record"
  /\ journal' = journal \cup {exec[g].job}
  /\ disk' = journal' \/ UNCHANGED disk
  /\ exec' = [exec EXCEPT ![g].pc = "reply"]
  /\ UNCHANGED <<clock, restarts, connVars, serverVars, runs, outcomes>>

\* The result goes to the connection the command came on; a failed write is
\* ignored, and a write the gateway never reads is lost.
Reply(g) ==
  LET c == exec[g].conn IN
  /\ exec[g].pc = "reply"
  /\ exec' = [exec EXCEPT ![g] = Idle]
  /\ IF agentConn = c /\ srv[c] = "open"
     THEN toServer' = [toServer EXCEPT ![c] =
                         Append(@, [job |-> exec[g].job, res |-> exec[g].res])]
     ELSE UNCHANGED toServer
  /\ UNCHANGED <<clock, restarts, reg, srv, drain, agentConn, agentReady, toAgent, sentOn, listed,
                 serverVars, journal, disk, runs, outcomes>>

\* The agent's Read fails: the network, a close by the gateway, a timeout.
Disconnect ==
  /\ agentConn # NoConn
  /\ HangUp
  /\ UNCHANGED <<clock, restarts, reg, srv, drain, toServer, sentOn, listed, serverVars, agentVars>>

\* A variant of NewJournal that starts empty.
AgentRestartForgets ==
  /\ restarts < MaxRestarts
  /\ restarts' = restarts + 1
  /\ exec' = [g \in Goroutines |-> Idle]
  /\ journal' = {}
  /\ agentConn' = NoConn
  /\ agentReady' = FALSE
  /\ toAgent' = [c \in Conns |-> <<>>]
  /\ UNCHANGED <<clock, reg, srv, drain, toServer, sentOn, listed, serverVars,
                 disk, runs, outcomes>>

\* The agent process dies, and its successor reads journal.json.
AgentRestart ==
  /\ restarts < MaxRestarts
  /\ restarts' = restarts + 1
  /\ exec' = [g \in Goroutines |-> Idle]
  /\ journal' = disk
  /\ agentConn' = NoConn
  /\ agentReady' = FALSE
  /\ toAgent' = [c \in Conns |-> <<>>]
  /\ UNCHANGED <<clock, reg, srv, drain, toServer, sentOn, listed, serverVars,
                 disk, runs, outcomes>>

Tick ==
  /\ clock < MaxTime
  /\ clock' = clock + 1
  /\ UNCHANGED <<restarts, serverVars, connVars, agentVars>>

-----------------------------------------------------------------------------
Next ==
  \/ Tick
  \/ ExpireQueuedJobs
  \/ \E j \in Jobs : \/ \E ttl \in 1 .. MaxTTL, b \in BOOLEAN : CreateJob(j, ttl, b)
                     \/ DispatchLookup(j)
                     \/ DispatchFails(j)
                     \/ DispatchSend(j)
                     \/ DispatchSendFails(j)
                     \/ DispatchMark(j)
  \/ \E c \in Conns : \/ Connect(c)
                      \/ ServeHello(c)
                      \/ DrainList(c)
                      \/ DrainListFails(c)
                      \/ DrainSkip(c)
                      \/ DrainSend(c)
                      \/ DrainSendFails(c)
                      \/ DrainMark(c)
                      \/ HandleCommandResult(c)
                      \/ ServeEnds(c)
                      \/ Deregister(c)
  \/ \E g \in Goroutines : \/ ReadCommand(g)
                           \/ CheckCommand(g)
                           \/ StartRun(g)
                           \/ \E res \in Outcomes : FinishRun(g, res)
                           \/ RecordCommand(g)
                           \/ Reply(g)
  \/ ReadHelloAck
  \/ Disconnect
  \/ AgentRestart
  \/ ServerRestart

Spec == Init /\ [][Next]_vars

\* The clock runs and the worker ticks; nothing is assumed of the network,
\* the agent or the users.
FairSpec == Spec /\ WF_vars(Tick) /\ WF_vars(ExpireQueuedJobs)

-----------------------------------------------------------------------------
(* Properties.                                                             *)

\* Once a job has ended, no late MarkJobSent, duplicate or late result, and
\* no sweep changes its status or its output again.
TerminalIsFinal ==
  [][\A j \in Jobs : status[j] \in Terminal => /\ status'[j] = status[j]
                                               /\ output'[j] = output[j]]_vars

\* The output row and the status agree: an agent's result wrote both or
\* neither, and a job that did not end "expired" has its output.
OutputAgrees ==
  \A j \in Jobs : /\ output[j] # "none" => output[j] = status[j]
                  /\ status[j] \in Terminal \ {"expired"} => output[j] = status[j]

\* What the server reports of a run really happened on the device, through
\* every duplicate delivery, reconnect, crash and lost reply.
OutcomeReported ==
  \A j \in Jobs : output[j] \in outcomes[j] \cup {"none", "expired"}

\* Everything in flight is grounded: a command, in a queue, a drain, a
\* goroutine or a frame, is about a job whose INSERT is committed, and a result
\* on its way, through duplicates and reconnects, is one that a run of that job
\* on the device had, or the refusal of an expired job.
Grounded == {r \in Reports : /\ r.job \in Created
                              /\ r.res \in outcomes[r.job] \cup {"expired"}}
QueuesGrounded ==
  /\ \A j \in Jobs : dispatch[j].pc # "none" => j \in Created
  /\ \A c \in Conns : drain[c].todo \subseteq Created
FramesGrounded == toAgent \in [Conns -> Seq(Created \cup {HelloAck})]
ReportsGrounded == toServer \in [Conns -> Seq(Grounded)]
ExecGrounded ==
  \A g \in Goroutines :
    /\ exec[g].pc # "idle" => exec[g].job \in Created
    /\ exec[g].pc \in {"record", "reply"} =>
         [job |-> exec[g].job, res |-> exec[g].res] \in Grounded
Provenance == QueuesGrounded /\ FramesGrounded /\ ReportsGrounded /\ ExecGrounded

\* Once journal.json holds a command, nobody sets out to run it any more, in
\* the process that recorded it or in a later one: the goroutines that run it
\* or are about to are among those that had passed the check before, and a
\* restart leaves none of them.
Passed(j) == {g \in Goroutines : exec[g].job = j /\ exec[g].pc \in {"start", "run"}}
NoRerunAfterDurable ==
  [][\A j \in disk : /\ Passed(j)' \subseteq Passed(j)
                     /\ runs'[j] > runs[j] => \E g \in Passed(j) : exec[g].pc = "start"]_vars

\* No job falls between the immediate dispatch and the drain: while the
\* device's registered connection is open and drained, every live queued job
\* whose dispatch is over has been written to that connection itself, not only
\* to one it replaced; and so has every job that was in the table when the
\* drain read it, dispatched or not, such as one of a process that has no
\* gateway.  What is left out waits for the next drain: a job that came after
\* the drain's read, with no gateway to dispatch it or a dispatch that failed.
\* A job no command can be built for delays none behind it.
NoMissedJob ==
  \A j \in Jobs \ Malformed, c \in Conns :
    (/\ reg = c
     /\ srv[c] = "open"
     /\ drain[c].pc = "done"
     /\ dispatch[j].pc = "done" \/ j \in listed[c]
     /\ status[j] \in Queued
     /\ clock < expiresAt[j]) => j \in sentOn[c]

\* The jobs table goes through the abstract life cycle of a job only.
Lifecycle == INSTANCE JobLifecycle WITH Jobs <- Jobs, status <- status, output <- output
ImplementsLifecycle == Lifecycle!Spec

\* Every job that is created ends, whatever the network and the agent do.
EveryJobEnds == \A j \in Jobs : status[j] = "pending" ~> status[j] \in Terminal

-----------------------------------------------------------------------------
(* A statement of the repository's comments that the code does not keep.   *)

\* exec.go, Journal: "the agent never runs the same command twice, even
\* after a crash-and-reconnect cycle".
RunAtMostOnce == \A j \in Jobs : runs[j] <= 1
=============================================================================
