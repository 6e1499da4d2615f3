-------------------------- MODULE JobDeliveryProofs -------------------------
(***************************************************************************)
(* Theorems about JobDelivery, for every number of jobs, connections and   *)
(* goroutines, every bound and every clock skew.                           *)
(* The last part is about GatewayRegistry, whose connections these are.    *)
(***************************************************************************)
EXTENDS JobDelivery, GatewayRegistry, TLAPS

-----------------------------------------------------------------------------
(* Types.                                                                  *)

\* No frame is a sequence of frames, no result a sequence of results.
LEMMA EmptyChannels == <<>> \in Seq(Frame) /\ <<>> \in Seq(Reports)
  OBVIOUS

\* Every initial state has the types of TypeOK.
LEMMA InitTypeOK == Init => TypeOK
  <1> SUFFICES ASSUME Init PROVE TypeOK
    OBVIOUS
  <1>1. ServerTypes
    BY ConstantsAssumption DEF Init, ServerTypes, DispatchState
  <1>2. ConnTypes
    BY EmptyChannels DEF Init, ConnTypes, DrainState
  <1>3. AgentTypes
    BY DEF Init, AgentTypes, ExecState, Idle
  <1> QED
    BY <1>1, <1>2, <1>3 DEF TypeOK

\* What a component's variables do not share with a step keeps its types.
LEMMA ServerFrame == ServerTypes /\ UNCHANGED <<clock, restarts, serverVars>> => ServerTypes'
  BY DEF ServerTypes, serverVars
LEMMA ConnFrame == ConnTypes /\ UNCHANGED connVars => ConnTypes'
  BY DEF ConnTypes, connVars
LEMMA AgentFrame == AgentTypes /\ UNCHANGED agentVars => AgentTypes'
  BY DEF AgentTypes, agentVars

\* A frame written to the agent is a job or the HelloAck.
LEMMA WriteType ==
  ASSUME NEW c \in Conns, NEW f \in Frame, ConnTypes, WriteToAgent(c, f)
  PROVE  toAgent' \in [Conns -> Seq(Frame)]
  BY DEF ConnTypes, WriteToAgent

\* Every step, also a stuttering one, preserves TypeOK.
LEMMA NextTypeOK == TypeOK /\ [Next]_vars => TypeOK'
  <1> SUFFICES ASSUME TypeOK, [Next]_vars PROVE TypeOK'
    OBVIOUS
  <1>0. ServerTypes /\ ConnTypes /\ AgentTypes
    BY DEF TypeOK
  <1>q. ASSUME ServerTypes', ConnTypes', AgentTypes' PROVE TypeOK'
    BY <1>q DEF TypeOK
  <1>1. CASE Tick
    <2>1. ServerTypes'
      BY <1>0, <1>1, ConstantsAssumption DEF Tick, ServerTypes, serverVars
    <2> QED
      BY <1>0, <1>1, <1>q, <2>1, ConnFrame, AgentFrame DEF Tick
  <1>2. CASE ExpireQueuedJobs
    <2>1. ServerTypes'
      BY <1>0, <1>2 DEF ExpireQueuedJobs, ServerTypes, Terminal
    <2> QED
      BY <1>0, <1>2, <1>q, <2>1, ConnFrame, AgentFrame DEF ExpireQueuedJobs
  <1>3. ASSUME NEW j \in Jobs, NEW ttl \in 1 .. MaxTTL, NEW b \in BOOLEAN, CreateJob(j, ttl, b) PROVE TypeOK'
    <2>1. dispatch' \in [Jobs -> DispatchState]
      BY <1>0, <1>3 DEF CreateJob, ServerTypes, DispatchState
    <2>2. expiresAt' \in [Jobs -> 0 .. MaxTime]
      BY <1>0, <1>3, ConstantsAssumption DEF CreateJob, ServerTypes
    <2>3. ServerTypes'
      BY <1>0, <1>3, <2>1, <2>2 DEF CreateJob, ServerTypes, Queued
    <2> QED
      BY <1>0, <1>3, <1>q, <2>3, ConnFrame, AgentFrame DEF CreateJob
  <1>4. ASSUME NEW j \in Jobs, DispatchLookup(j) PROVE TypeOK'
    <2>1. dispatch' \in [Jobs -> DispatchState]
      BY <1>0, <1>4 DEF DispatchLookup, ServerTypes, ConnTypes, DispatchState
    <2>2. \A i \in Jobs : dispatch'[i].pc = "send" => dispatch'[i].conn \in Conns
      BY <1>0, <1>4 DEF DispatchLookup, ServerTypes, ConnTypes
    <2>3. ServerTypes'
      BY <1>0, <1>4, <2>1, <2>2 DEF DispatchLookup, ServerTypes
    <2> QED
      BY <1>0, <1>4, <1>q, <2>3, ConnFrame, AgentFrame DEF DispatchLookup
  <1>5. ASSUME NEW j \in Jobs, DispatchFails(j) \/ DispatchSendFails(j) PROVE TypeOK'
    <2>1. dispatch' \in [Jobs -> DispatchState]
      BY <1>0, <1>5 DEF DispatchFails, DispatchSendFails, ServerTypes, DispatchState
    <2>2. \A i \in Jobs : dispatch'[i].pc = "send" => dispatch'[i].conn \in Conns
      BY <1>0, <1>5 DEF DispatchFails, DispatchSendFails, ServerTypes, DispatchState
    <2>3. ServerTypes'
      BY <1>0, <1>5, <2>1, <2>2 DEF DispatchFails, DispatchSendFails, ServerTypes
    <2> QED
      BY <1>0, <1>5, <1>q, <2>3, ConnFrame, AgentFrame DEF DispatchFails, DispatchSendFails
  <1>6. ASSUME NEW j \in Jobs, DispatchSend(j) PROVE TypeOK'
    <2>1. dispatch' \in [Jobs -> DispatchState]
      BY <1>0, <1>6 DEF DispatchSend, ServerTypes, DispatchState
    <2>2. ServerTypes'
      <3>1. \A i \in Jobs : dispatch'[i].pc = "send" => dispatch'[i].conn \in Conns
        BY <1>0, <1>6 DEF DispatchSend, ServerTypes, DispatchState
      <3> QED
        BY <1>0, <1>6, <2>1, <3>1 DEF DispatchSend, ServerTypes
    <2>3. toAgent' \in [Conns -> Seq(Frame)] /\ sentOn' \in [Conns -> SUBSET Jobs]
      <3>1. PICK d \in Conns : d = dispatch[j].conn
        BY <1>0, <1>6 DEF DispatchSend, ServerTypes
      <3>2. WriteToAgent(d, j) /\ sentOn' = [sentOn EXCEPT ![d] = @ \cup {j}]
        BY <1>6, <3>1 DEF DispatchSend
      <3>3. toAgent' \in [Conns -> Seq(Frame)]
        BY <1>0, <3>2, WriteType DEF Frame
      <3> QED
        BY <1>0, <3>2, <3>3 DEF ConnTypes
    <2>4. ConnTypes'
      BY <1>0, <1>6, <2>3 DEF DispatchSend, ConnTypes
    <2> QED
      BY <1>0, <1>6, <1>q, <2>2, <2>4, AgentFrame DEF DispatchSend
  <1>7. ASSUME NEW j \in Jobs, DispatchMark(j) PROVE TypeOK'
    <2>1. dispatch' \in [Jobs -> DispatchState]
      BY <1>0, <1>7 DEF DispatchMark, ServerTypes, DispatchState
    <2>2. ServerTypes'
      BY <1>0, <1>7, <2>1 DEF DispatchMark, ServerTypes, MarkJobSent, Queued
    <2> QED
      BY <1>0, <1>7, <1>q, <2>2, ConnFrame, AgentFrame DEF DispatchMark
  <1>8. ASSUME NEW c \in Conns, Connect(c) PROVE TypeOK'
    <2>1. drain' \in [Conns -> DrainState]
      BY <1>0, <1>8 DEF Connect, ConnTypes, DrainState
    <2>2. ConnTypes'
      BY <1>0, <1>8, <2>1, EmptyChannels DEF Connect, ConnTypes
    <2> QED
      BY <1>0, <1>8, <1>q, <2>2, ServerFrame, AgentFrame DEF Connect
  <1>9. ASSUME NEW c \in Conns, ServeHello(c) PROVE TypeOK'
    <2>1. drain' \in [Conns -> DrainState]
      BY <1>0, <1>9 DEF ServeHello, ConnTypes, DrainState
    <2>2. ConnTypes'
      BY <1>0, <1>9, <2>1, WriteType DEF ServeHello, ConnTypes, Frame
    <2> QED
      BY <1>0, <1>9, <1>q, <2>2, ServerFrame, AgentFrame DEF ServeHello
  <1>10. ASSUME NEW c \in Conns, DrainList(c) PROVE TypeOK'
    <2>1. drain' \in [Conns -> DrainState]
      BY <1>0, <1>10 DEF DrainList, ListPendingJobsForDevice, ConnTypes, DrainState
    <2>2. ConnTypes'
      BY <1>0, <1>10, <2>1 DEF DrainList, ConnTypes, Created
    <2> QED
      BY <1>0, <1>10, <1>q, <2>2, ServerFrame, AgentFrame DEF DrainList
  <1>11. ASSUME NEW c \in Conns, DrainListFails(c) \/ DrainSendFails(c) PROVE TypeOK'
    <2>1. drain' \in [Conns -> DrainState]
      <3>1. CASE DrainListFails(c)
        BY <1>0, <3>1 DEF DrainListFails, ConnTypes, DrainState
      <3>2. CASE DrainSendFails(c)
        BY <1>0, <3>2 DEF DrainSendFails, ConnTypes, DrainState
      <3> QED
        BY <1>11, <3>1, <3>2
    <2>2. ConnTypes'
      BY <1>0, <1>11, <2>1 DEF DrainListFails, DrainSendFails, ConnTypes
    <2> QED
      BY <1>0, <1>11, <1>q, <2>2, ServerFrame, AgentFrame DEF DrainListFails, DrainSendFails
  <1>12. ASSUME NEW c \in Conns, DrainSend(c) PROVE TypeOK'
    <2>1. drain' \in [Conns -> DrainState]
      <3>1. drain' = [drain EXCEPT ![c] = [drain[c] EXCEPT !.pc = "mark"]]
        BY <1>0, <1>12 DEF DrainSend, ConnTypes
      <3>2. [drain[c] EXCEPT !.pc = "mark"] \in DrainState
        BY <1>0 DEF ConnTypes, DrainState
      <3> QED
        BY <1>0, <3>1, <3>2 DEF ConnTypes
    <2>2. toAgent' \in [Conns -> Seq(Frame)] /\ sentOn' \in [Conns -> SUBSET Jobs]
      <3>1. PICK j \in Jobs : WriteToAgent(c, j) /\ sentOn' = [sentOn EXCEPT ![c] = @ \cup {j}]
        BY <1>12 DEF DrainSend
      <3>2. toAgent' \in [Conns -> Seq(Frame)]
        BY <1>0, <3>1, WriteType DEF Frame
      <3> QED
        BY <1>0, <3>1, <3>2 DEF ConnTypes
    <2>3. ConnTypes'
      BY <1>0, <1>12, <2>1, <2>2 DEF DrainSend, ConnTypes
    <2> QED
      BY <1>0, <1>12, <1>q, <2>3, ServerFrame, AgentFrame DEF DrainSend
  <1>s. ASSUME NEW c \in Conns, DrainSkip(c) PROVE TypeOK'
    <2>1. drain' \in [Conns -> DrainState]
      BY <1>0, <1>s DEF DrainSkip, DrainNext, ConnTypes, DrainState
    <2>2. ConnTypes'
      BY <1>0, <1>s, <2>1 DEF DrainSkip, ConnTypes
    <2> QED
      BY <1>0, <1>s, <1>q, <2>2, ServerFrame, AgentFrame DEF DrainSkip
  <1>13. ASSUME NEW c \in Conns, DrainMark(c) PROVE TypeOK'
    <2>1. drain' \in [Conns -> DrainState]
      BY <1>0, <1>13 DEF DrainMark, DrainNext, ConnTypes, DrainState
    <2>2. ConnTypes'
      BY <1>0, <1>13, <2>1 DEF DrainMark, ConnTypes
    <2>3. ServerTypes'
      BY <1>0, <1>13 DEF DrainMark, ServerTypes, MarkJobSent, Queued
    <2> QED
      BY <1>0, <1>13, <1>q, <2>2, <2>3, AgentFrame DEF DrainMark
  <1>14. ASSUME NEW c \in Conns, HandleCommandResult(c) PROVE TypeOK'
    <2>1. toServer[c] \in Seq(Reports) /\ toServer[c] # <<>>
      BY <1>0, <1>14 DEF HandleCommandResult, ConnTypes
    <2>2. Head(toServer[c]) \in Reports /\ Tail(toServer[c]) \in Seq(Reports)
      BY <2>1
    <2>3. ConnTypes'
      BY <1>0, <1>14, <2>2 DEF HandleCommandResult, ConnTypes
    <2>4. /\ Head(toServer[c]).job \in Jobs
          /\ Head(toServer[c]).res \in Results
          /\ Head(toServer[c]).res \in Terminal
      BY <2>2, ConstantsAssumption DEF Reports, Results, Terminal
    <2>5. ServerTypes'
      BY <1>0, <1>14, <2>4 DEF HandleCommandResult, CompleteJob, ServerTypes
    <2> QED
      BY <1>0, <1>14, <1>q, <2>3, <2>5, AgentFrame DEF HandleCommandResult
  <1>15. ASSUME NEW c \in Conns, ServeEnds(c) \/ Deregister(c) PROVE TypeOK'
    <2>1. ConnTypes'
      BY <1>0, <1>15, EmptyChannels DEF ServeEnds, Deregister, ConnTypes
    <2> QED
      BY <1>0, <1>15, <1>q, <2>1, ServerFrame, AgentFrame DEF ServeEnds, Deregister
  <1>16. ASSUME NEW g \in Goroutines, ReadCommand(g) PROVE TypeOK'
    <2>1. toAgent[agentConn] \in Seq(Frame) /\ agentConn \in Conns
      BY <1>0, <1>16 DEF ReadCommand, ConnTypes
    <2>2. Head(toAgent[agentConn]) \in Jobs /\ Tail(toAgent[agentConn]) \in Seq(Frame)
      BY <2>1, <1>16 DEF ReadCommand, Frame
    <2>3. ConnTypes'
      BY <1>0, <1>16, <2>1, <2>2 DEF ReadCommand, ConnTypes
    <2>4. exec' \in [Goroutines -> ExecState]
      BY <1>0, <1>16, <2>1, <2>2 DEF ReadCommand, AgentTypes, ExecState
    <2>5. AgentTypes'
      BY <1>0, <1>16, <2>2, <2>4 DEF ReadCommand, AgentTypes, ExecState
    <2> QED
      BY <1>0, <1>16, <1>q, <2>3, <2>5, ServerFrame DEF ReadCommand
  <1>17. ASSUME NEW g \in Goroutines, CheckCommand(g) PROVE TypeOK'
    <2>1. exec' \in [Goroutines -> ExecState]
      BY <1>0, <1>17 DEF CheckCommand, AgentTypes, ExecState, Idle, Results
    <2>2. AgentTypes'
      BY <1>0, <1>17, <2>1 DEF CheckCommand, AgentTypes, ExecState, Idle, Results
    <2> QED
      BY <1>0, <1>17, <1>q, <2>2, ServerFrame, ConnFrame DEF CheckCommand
  <1>r. ASSUME NEW g \in Goroutines, StartRun(g) PROVE TypeOK'
    <2>1. exec' \in [Goroutines -> ExecState]
      BY <1>0, <1>r DEF StartRun, AgentTypes, ExecState
    <2>2. exec[g].job \in Jobs
      BY <1>0, <1>r DEF StartRun, AgentTypes
    <2>3. runs' \in [Jobs -> Nat]
      BY <1>0, <1>r, <2>2 DEF StartRun, AgentTypes
    <2>4. AgentTypes'
      BY <1>0, <1>r, <2>1, <2>2, <2>3 DEF StartRun, AgentTypes, ExecState
    <2> QED
      BY <1>0, <1>r, <1>q, <2>4, ServerFrame, ConnFrame DEF StartRun
  <1>18. ASSUME NEW g \in Goroutines, NEW res \in Outcomes, FinishRun(g, res) PROVE TypeOK'
    <2>0. exec' = [exec EXCEPT ![g] = [exec[g] EXCEPT !.pc = "record", !.res = res]]
      BY <1>0, <1>18 DEF FinishRun, AgentTypes
    <2>1. exec' \in [Goroutines -> ExecState]
      <3>1. exec[g] \in ExecState /\ res \in {"none"} \cup Results
        BY <1>0, <1>18 DEF AgentTypes, Results
      <3>2. [exec[g] EXCEPT !.pc = "record", !.res = res] \in ExecState
        BY <3>1 DEF ExecState
      <3> QED
        BY <1>0, <2>0, <3>2 DEF AgentTypes
    <2>2. AgentTypes'
      BY <1>0, <1>18, <2>1 DEF FinishRun, AgentTypes, ExecState, Results
    <2> QED
      BY <1>0, <1>18, <1>q, <2>2, ServerFrame, ConnFrame DEF FinishRun
  <1>19. ASSUME NEW g \in Goroutines, RecordCommand(g) PROVE TypeOK'
    <2>1. exec' \in [Goroutines -> ExecState]
      BY <1>0, <1>19 DEF RecordCommand, AgentTypes, ExecState
    <2>2. AgentTypes'
      BY <1>0, <1>19, <2>1 DEF RecordCommand, AgentTypes, ExecState
    <2> QED
      BY <1>0, <1>19, <1>q, <2>2, ServerFrame, ConnFrame DEF RecordCommand
  <1>20. ASSUME NEW g \in Goroutines, Reply(g) PROVE TypeOK'
    <2>1. exec' \in [Goroutines -> ExecState]
      BY <1>0, <1>20 DEF Reply, AgentTypes, ExecState, Idle
    <2>2. [job |-> exec[g].job, res |-> exec[g].res] \in Reports
      BY <1>0, <1>20 DEF Reply, AgentTypes, Reports
    <2>3. toServer' \in [Conns -> Seq(Reports)]
      <3>1. PICK c \in Conns : c = exec[g].conn
        BY <1>0, <1>20 DEF Reply, AgentTypes
      <3>2. Append(toServer[c], [job |-> exec[g].job, res |-> exec[g].res]) \in Seq(Reports)
        BY <1>0, <2>2 DEF ConnTypes
      <3> QED
        BY <1>0, <1>20, <3>1, <3>2 DEF Reply, ConnTypes
    <2>4. ConnTypes'
      BY <1>0, <1>20, <2>3 DEF Reply, ConnTypes
    <2>5. AgentTypes'
      BY <1>0, <1>20, <2>1 DEF Reply, AgentTypes, ExecState, Idle
    <2> QED
      BY <1>0, <1>20, <1>q, <2>4, <2>5, ServerFrame DEF Reply
  <1>21. CASE ReadHelloAck
    <2>1. toAgent[agentConn] \in Seq(Frame) /\ agentConn \in Conns
      BY <1>0, <1>21 DEF ReadHelloAck, ConnTypes
    <2>2. Tail(toAgent[agentConn]) \in Seq(Frame)
      BY <2>1, <1>21 DEF ReadHelloAck
    <2>3. ConnTypes'
      BY <1>0, <1>21, <2>1, <2>2, EmptyChannels DEF ReadHelloAck, HangUp, ConnTypes
    <2> QED
      BY <1>0, <1>21, <1>q, <2>3, ServerFrame, AgentFrame DEF ReadHelloAck
  <1>22. CASE Disconnect
    <2>1. ConnTypes'
      BY <1>0, <1>22, EmptyChannels DEF Disconnect, HangUp, ConnTypes
    <2> QED
      BY <1>0, <1>22, <1>q, <2>1, ServerFrame, AgentFrame DEF Disconnect
  <1>23. CASE AgentRestart
    <2>1. ConnTypes'
      BY <1>0, <1>23, EmptyChannels DEF AgentRestart, ConnTypes
    <2>2. AgentTypes'
      BY <1>0, <1>23 DEF AgentRestart, AgentTypes, ExecState, Idle
    <2>3. ServerTypes'
      BY <1>0, <1>23, ConstantsAssumption DEF AgentRestart, ServerTypes, serverVars
    <2> QED
      BY <1>q, <2>1, <2>2, <2>3
  <1>24. CASE ServerRestart
    <2>1. drain' \in [Conns -> DrainState]
      BY <1>0, <1>24 DEF ServerRestart, DrainState
    <2>2. dispatch' \in [Jobs -> DispatchState]
      BY <1>0, <1>24 DEF ServerRestart, DispatchState
    <2>3. ConnTypes'
      BY <1>0, <1>24, <2>1 DEF ServerRestart, ConnTypes
    <2>4. ServerTypes'
      BY <1>0, <1>24, <2>2, ConstantsAssumption DEF ServerRestart, ServerTypes
    <2> QED
      BY <1>0, <1>24, <1>q, <2>3, <2>4, AgentFrame DEF ServerRestart
  <1>25. CASE UNCHANGED vars
    BY <1>0, <1>25, <1>q, ServerFrame, ConnFrame, AgentFrame DEF vars
  <1> QED
    BY <1>1, <1>2, <1>3, <1>4, <1>5, <1>6, <1>7, <1>8, <1>9, <1>10, <1>11, <1>12, <1>13, <1>s,
       <1>r, <1>14, <1>15, <1>16, <1>17, <1>18, <1>19, <1>20, <1>21, <1>22, <1>23, <1>24, <1>25
       DEF Next

\* The variables of JobDelivery keep their types: in particular every status
\* the code writes is one the schema of the jobs table allows.
THEOREM TypeCorrect == Spec => []TypeOK
  BY InitTypeOK, NextTypeOK, PTL DEF Spec

-----------------------------------------------------------------------------
(* The jobs table: what a step of the system can do to it.                 *)

\* The UPDATE of the sweep, without its frame.
Sweep == status' = [j \in Jobs |-> IF status[j] \in Queued /\ expiresAt[j] < clock
                                   THEN "expired" ELSE status[j]]

\* Every step leaves the table alone, inserts a job, marks one sent, sweeps,
\* or completes one with the result at the head of a connection.
LEMMA TableStep ==
  ASSUME TypeOK, [Next]_vars
  PROVE  \/ UNCHANGED <<status, output>>
         \/ \E j \in Jobs : /\ status[j] = "none"
                            /\ status' = [status EXCEPT ![j] = "pending"]
                            /\ UNCHANGED output
         \/ \E j \in Jobs : MarkJobSent(j) /\ UNCHANGED output
         \/ Sweep /\ UNCHANGED output
         \/ \E c \in Conns : /\ toServer[c] # <<>>
                             /\ CompleteJob(Head(toServer[c]).job, Head(toServer[c]).res)
  <1>1. CASE Tick
    BY <1>1 DEF Tick, serverVars
  <1>2. CASE ExpireQueuedJobs
    BY <1>2 DEF ExpireQueuedJobs, Sweep
  <1>3. ASSUME NEW j \in Jobs, NEW ttl \in 1 .. MaxTTL, NEW b \in BOOLEAN, CreateJob(j, ttl, b)
        PROVE  /\ status[j] = "none"
               /\ status' = [status EXCEPT ![j] = "pending"]
               /\ UNCHANGED output
    BY <1>3 DEF CreateJob
  <1>4. ASSUME NEW j \in Jobs, DispatchLookup(j) \/ DispatchFails(j) \/ DispatchSend(j) \/ DispatchSendFails(j)
        PROVE  UNCHANGED <<status, output>>
    BY <1>4 DEF DispatchLookup, DispatchFails, DispatchSend, DispatchSendFails
  <1>5. ASSUME NEW j \in Jobs, DispatchMark(j)
        PROVE  (MarkJobSent(j) \/ UNCHANGED status) /\ UNCHANGED output
    BY <1>5 DEF DispatchMark
  <1>6. ASSUME NEW c \in Conns,
               Connect(c) \/ ServeHello(c) \/ DrainList(c) \/ DrainListFails(c)
                 \/ DrainSkip(c) \/ DrainSend(c) \/ DrainSendFails(c) \/ ServeEnds(c) \/ Deregister(c)
        PROVE  UNCHANGED <<status, output>>
    BY <1>6 DEF Connect, ServeHello, DrainList, DrainListFails, DrainSkip, DrainSend,
       DrainSendFails, ServeEnds, Deregister,
       serverVars
  <1>7. ASSUME NEW c \in Conns, DrainMark(c)
        PROVE  (UNCHANGED status \/ \E j \in Jobs : MarkJobSent(j)) /\ UNCHANGED output
    BY <1>7 DEF DrainMark
  <1>8. ASSUME NEW c \in Conns, HandleCommandResult(c)
        PROVE  \/ UNCHANGED <<status, output>>
               \/ /\ toServer[c] # <<>>
                  /\ CompleteJob(Head(toServer[c]).job, Head(toServer[c]).res)
    BY <1>8 DEF HandleCommandResult
  <1>9. ASSUME NEW g \in Goroutines,
               ReadCommand(g) \/ CheckCommand(g) \/ StartRun(g) \/ RecordCommand(g) \/ Reply(g)
                 \/ \E res \in Outcomes : FinishRun(g, res)
        PROVE  UNCHANGED <<status, output>>
    BY <1>9 DEF ReadCommand, CheckCommand, StartRun, RecordCommand, Reply, FinishRun, serverVars
  <1>10. CASE ReadHelloAck \/ Disconnect \/ AgentRestart \/ ServerRestart \/ UNCHANGED vars
    BY <1>10 DEF ReadHelloAck, Disconnect, AgentRestart, ServerRestart, vars, serverVars
  <1> QED
    BY <1>1, <1>2, <1>3, <1>4, <1>5, <1>6, <1>7, <1>8, <1>9, <1>10 DEF Next

\* The result at the head of a connection names a job and a terminal status.
LEMMA HeadReport ==
  ASSUME TypeOK, NEW c \in Conns, toServer[c] # <<>>
  PROVE  /\ Head(toServer[c]).job \in Jobs
         /\ Head(toServer[c]).res \in Results
         /\ Head(toServer[c]).res \in Terminal
  <1>1. toServer[c] \in Seq(Reports)
    BY DEF TypeOK, ConnTypes
  <1>2. Head(toServer[c]) \in Reports
    BY <1>1
  <1> QED
    BY <1>2, ConstantsAssumption DEF Reports, Results, Terminal

-----------------------------------------------------------------------------
(* The safety of the table.                                                *)

\* Status and output agree initially.
LEMMA InitOutputAgrees == Init => OutputAgrees
  BY DEF Init, OutputAgrees, Terminal

\* Every step keeps status and output in agreement: the only writer of an
\* output writes both, and no writer of a status touches a job with one.
LEMMA NextOutputAgrees == TypeOK /\ OutputAgrees /\ [Next]_vars => OutputAgrees'
  <1> SUFFICES ASSUME TypeOK, OutputAgrees, [Next]_vars PROVE OutputAgrees'
    OBVIOUS
  <1>0. /\ status \in [Jobs -> {"none"} \cup Queued \cup Terminal]
        /\ output \in [Jobs -> {"none"} \cup Results]
        /\ \A r \in Results : r \in Terminal
    BY ConstantsAssumption DEF TypeOK, ServerTypes, Results, Terminal
  <1>1. CASE UNCHANGED <<status, output>>
    BY <1>1 DEF OutputAgrees
  <1>2. ASSUME NEW j \in Jobs, status[j] = "none",
               status' = [status EXCEPT ![j] = "pending"], UNCHANGED output
        PROVE  OutputAgrees'
    BY <1>0, <1>2 DEF OutputAgrees, Terminal
  <1>3. ASSUME NEW j \in Jobs, MarkJobSent(j), UNCHANGED output PROVE OutputAgrees'
    BY <1>0, <1>3 DEF OutputAgrees, MarkJobSent, Queued, Terminal
  <1>4. CASE Sweep /\ UNCHANGED output
    BY <1>0, <1>4 DEF OutputAgrees, Sweep, Queued, Terminal
  <1>5. ASSUME NEW c \in Conns, toServer[c] # <<>>,
               CompleteJob(Head(toServer[c]).job, Head(toServer[c]).res)
        PROVE  OutputAgrees'
    BY <1>0, <1>5, HeadReport DEF OutputAgrees, CompleteJob
  <1> QED
    BY <1>1, <1>2, <1>3, <1>4, <1>5, TableStep

\* In every state, of any number of jobs, connections and goroutines, the
\* output row of a job and its status agree.
THEOREM OutputAlwaysAgrees == Spec => []OutputAgrees
  BY InitTypeOK, NextTypeOK, InitOutputAgrees, NextOutputAgrees, PTL DEF Spec

\* A step leaves the status and the output of an ended job alone.
LEMMA EndedJobStays ==
  ASSUME TypeOK, [Next]_vars, NEW i \in Jobs, status[i] \in Terminal
  PROVE  status'[i] = status[i] /\ output'[i] = output[i]
  <1>0. /\ status \in [Jobs -> {"none"} \cup Queued \cup Terminal]
        /\ output \in [Jobs -> {"none"} \cup Results]
        /\ status[i] \notin Queued /\ status[i] # "none"
    BY DEF TypeOK, ServerTypes, Queued, Terminal
  <1>2. ASSUME NEW j \in Jobs, status[j] = "none",
               status' = [status EXCEPT ![j] = "pending"], UNCHANGED output
        PROVE  status'[i] = status[i] /\ output'[i] = output[i]
    BY <1>0, <1>2
  <1>3. ASSUME NEW j \in Jobs, MarkJobSent(j), UNCHANGED output
        PROVE  status'[i] = status[i] /\ output'[i] = output[i]
    BY <1>0, <1>3 DEF MarkJobSent
  <1>4. CASE Sweep /\ UNCHANGED output
    BY <1>0, <1>4 DEF Sweep
  <1>5. ASSUME NEW c \in Conns, toServer[c] # <<>>,
               CompleteJob(Head(toServer[c]).job, Head(toServer[c]).res)
        PROVE  status'[i] = status[i] /\ output'[i] = output[i]
    BY <1>0, <1>5, HeadReport DEF CompleteJob
  <1> QED
    BY <1>2, <1>3, <1>4, <1>5, TableStep

\* An ended job stays as it ended: no late MarkJobSent, duplicate or late
\* result and no sweep changes its status or its output.
THEOREM EndedJobsAreFinal == Spec => TerminalIsFinal
  <1>1. TypeOK /\ [Next]_vars =>
          [\A j \in Jobs : status[j] \in Terminal => /\ status'[j] = status[j]
                                                     /\ output'[j] = output[j]]_vars
    BY EndedJobStays
  <1> QED
    BY <1>1, InitTypeOK, NextTypeOK, PTL DEF Spec, TerminalIsFinal

-----------------------------------------------------------------------------
(* The journal.                                                            *)

\* What journal.json holds, the running agent knows.
JournalCoversDisk == disk \subseteq journal

\* It does so initially.
LEMMA InitJournal == Init => JournalCoversDisk
  BY DEF Init, JournalCoversDisk

\* No step breaks it: Record writes the map before the file, and a restart
\* reads the file.
LEMMA NextJournal == JournalCoversDisk /\ [Next]_vars => JournalCoversDisk'
  <1> SUFFICES ASSUME JournalCoversDisk, [Next]_vars PROVE JournalCoversDisk'
    OBVIOUS
  <1>1. ASSUME NEW g \in Goroutines, RecordCommand(g) PROVE JournalCoversDisk'
    BY <1>1 DEF RecordCommand, JournalCoversDisk
  <1>2. CASE AgentRestart
    BY <1>2 DEF AgentRestart, JournalCoversDisk
  <1>3. ASSUME NEW g \in Goroutines,
               ReadCommand(g) \/ CheckCommand(g) \/ StartRun(g) \/ Reply(g) \/ \E res \in Outcomes : FinishRun(g, res)
        PROVE  UNCHANGED <<journal, disk>>
    BY <1>3 DEF ReadCommand, CheckCommand, StartRun, Reply, FinishRun
  <1>4. ASSUME NEW j \in Jobs,
               \/ \E ttl \in 1 .. MaxTTL, b \in BOOLEAN : CreateJob(j, ttl, b)
               \/ DispatchLookup(j) \/ DispatchFails(j) \/ DispatchSend(j) \/ DispatchSendFails(j) \/ DispatchMark(j)
        PROVE  UNCHANGED <<journal, disk>>
    BY <1>4 DEF CreateJob, DispatchLookup, DispatchFails, DispatchSend, DispatchSendFails, DispatchMark, agentVars
  <1>5. ASSUME NEW c \in Conns,
               \/ Connect(c) \/ ServeHello(c) \/ DrainList(c) \/ DrainListFails(c)
               \/ DrainSkip(c) \/ DrainSend(c) \/ DrainSendFails(c) \/ DrainMark(c) \/ HandleCommandResult(c) \/ ServeEnds(c) \/ Deregister(c)
        PROVE  UNCHANGED <<journal, disk>>
    BY <1>5 DEF Connect, ServeHello, DrainList, DrainListFails, DrainSkip, DrainSend, DrainSendFails, DrainMark,
                HandleCommandResult, ServeEnds, Deregister, agentVars
  <1>6. CASE \/ Tick \/ ExpireQueuedJobs \/ ReadHelloAck \/ Disconnect \/ ServerRestart
             \/ UNCHANGED vars
    BY <1>6 DEF Tick, ExpireQueuedJobs, ReadHelloAck, Disconnect, ServerRestart, vars, agentVars,
                JournalCoversDisk
  <1>7. UNCHANGED <<journal, disk>> => JournalCoversDisk'
    BY DEF JournalCoversDisk
  <1> QED
    BY <1>1, <1>2, <1>3, <1>4, <1>5, <1>6, <1>7 DEF Next

\* Only CheckCommand lets a goroutine set out to run a command, and only one
\* that the journal lacks; only StartRun counts a run.
LEMMA PassedStep ==
  ASSUME TypeOK, [Next]_vars, NEW i \in journal
  PROVE  /\ Passed(i)' \subseteq Passed(i)
         /\ runs'[i] > runs[i] => \E g \in Passed(i) : exec[g].pc = "start"
  <1>0. /\ i \in Jobs /\ i # HelloAck /\ runs \in [Jobs -> Nat] /\ ~(runs[i] > runs[i])
        /\ exec \in [Goroutines -> ExecState]
    BY ConstantsAssumption DEF TypeOK, AgentTypes, Jobs, HelloAck
  <1> DEFINE Goal == /\ Passed(i)' \subseteq Passed(i)
                     /\ runs'[i] > runs[i] => \E g \in Passed(i) : exec[g].pc = "start"
  <1>f. UNCHANGED <<exec, runs>> => Goal
    BY <1>0 DEF Passed
  <1>1. ASSUME NEW g \in Goroutines, CheckCommand(g) PROVE Goal
    <2>1. /\ runs' = runs /\ \A h \in Goroutines \ {g} : exec'[h] = exec[h]
          /\ exec[g].job = i => exec'[g].pc \notin {"start", "run"}
          /\ exec'[g].pc # "idle" => exec'[g].job = exec[g].job
      BY <1>0, <1>1 DEF CheckCommand, ExecState, Idle
    <2> QED
      BY <1>0, <2>1 DEF Passed
  <1>2. ASSUME NEW g \in Goroutines, StartRun(g) PROVE Goal
    <2>1. /\ \A h \in Goroutines \ {g} : exec'[h] = exec[h]
          /\ exec[g].pc = "start" /\ exec'[g].job = exec[g].job
          /\ runs' = [runs EXCEPT ![exec[g].job] = @ + 1]
      BY <1>0, <1>2 DEF StartRun, ExecState
    <2>2. Passed(i)' \subseteq Passed(i)
      BY <1>0, <2>1 DEF Passed
    <2>3. CASE exec[g].job = i
      BY <2>1, <2>2, <2>3 DEF Passed
    <2>4. CASE exec[g].job # i
      BY <1>0, <2>1, <2>2, <2>4
    <2> QED
      BY <2>3, <2>4
  <1>3. ASSUME NEW g \in Goroutines,
               ReadCommand(g) \/ RecordCommand(g) \/ Reply(g) \/ \E res \in Outcomes : FinishRun(g, res)
        PROVE  Goal
    <2>1. /\ runs' = runs /\ \A h \in Goroutines \ {g} : exec'[h] = exec[h]
          /\ exec'[g].pc \notin {"start", "run"}
      BY <1>0, <1>3 DEF ReadCommand, RecordCommand, Reply, FinishRun, ExecState, Idle
    <2> QED
      BY <1>0, <2>1 DEF Passed
  <1>4. ASSUME NEW j \in Jobs,
               \/ \E ttl \in 1 .. MaxTTL, b \in BOOLEAN : CreateJob(j, ttl, b)
               \/ DispatchLookup(j) \/ DispatchFails(j) \/ DispatchSend(j) \/ DispatchSendFails(j)
               \/ DispatchMark(j)
        PROVE  UNCHANGED <<exec, runs>>
    BY <1>4 DEF CreateJob, DispatchLookup, DispatchFails, DispatchSend, DispatchSendFails,
       DispatchMark, agentVars
  <1>5. ASSUME NEW c \in Conns,
               \/ Connect(c) \/ ServeHello(c) \/ DrainList(c) \/ DrainListFails(c)
               \/ DrainSkip(c) \/ DrainSend(c) \/ DrainSendFails(c) \/ DrainMark(c)
               \/ HandleCommandResult(c) \/ ServeEnds(c) \/ Deregister(c)
        PROVE  UNCHANGED <<exec, runs>>
    BY <1>5 DEF Connect, ServeHello, DrainList, DrainListFails, DrainSkip, DrainSend,
       DrainSendFails, DrainMark, HandleCommandResult, ServeEnds, Deregister, agentVars
  <1>6. ASSUME \/ Tick \/ ExpireQueuedJobs \/ ReadHelloAck \/ Disconnect \/ ServerRestart
               \/ UNCHANGED vars
        PROVE  UNCHANGED <<exec, runs>>
    BY <1>6 DEF Tick, ExpireQueuedJobs, ReadHelloAck, Disconnect, ServerRestart, vars, agentVars
  <1>7. ASSUME AgentRestart PROVE Goal
    BY <1>0, <1>7 DEF AgentRestart, Passed, Idle
  <1> HIDE DEF Goal
  <1>8. Goal
    BY <1>f, <1>1, <1>2, <1>3, <1>4, <1>5, <1>6, <1>7 DEF Next
  <1> QED
    BY <1>8 DEF Goal

\* Once journal.json holds a command, no goroutine of this or of a later agent
\* passes the check of executeCommand with it: whoever still starts it had
\* passed the check before it was recorded.
THEOREM DurableIsNeverRerun == Spec => NoRerunAfterDurable
  <1>1. TypeOK /\ JournalCoversDisk /\ [Next]_vars =>
          [\A j \in disk : /\ Passed(j)' \subseteq Passed(j)
                           /\ runs'[j] > runs[j] => \E g \in Passed(j) : exec[g].pc = "start"]_vars
    BY PassedStep DEF JournalCoversDisk
  <1> QED
    BY <1>1, InitTypeOK, NextTypeOK, InitJournal, NextJournal, PTL DEF Spec, NoRerunAfterDurable

-----------------------------------------------------------------------------
(* What is in flight.                                                      *)

\* A sequence over a set is one over every larger set.
LEMMA SeqGrows == ASSUME NEW S, NEW T, S \subseteq T PROVE Seq(S) \subseteq Seq(T)
  <1> SUFFICES ASSUME NEW s \in Seq(S) PROVE s \in Seq(T)
    OBVIOUS
  <1>1. Len(s) \in Nat /\ s \in [1 .. Len(s) -> S]
    OBVIOUS
  <1>2. s \in [1 .. Len(s) -> T]
    BY <1>1
  <1> QED
    BY <1>1, <1>2

\* Rows are never deleted: a created job stays created.
LEMMA CreatedGrows == ASSUME TypeOK, [Next]_vars PROVE Created \subseteq Created'
  <1> SUFFICES ASSUME NEW i \in Jobs, status[i] # "none" PROVE status'[i] # "none"
    BY DEF Created
  <1>0. status \in [Jobs -> {"none"} \cup Queued \cup Terminal]
    BY DEF TypeOK, ServerTypes
  <1>2. ASSUME NEW j \in Jobs, status[j] = "none",
               status' = [status EXCEPT ![j] = "pending"]
        PROVE  status'[i] # "none"
    BY <1>0, <1>2
  <1>3. ASSUME NEW j \in Jobs, MarkJobSent(j) PROVE status'[i] # "none"
    BY <1>0, <1>3 DEF MarkJobSent
  <1>4. CASE Sweep
    BY <1>0, <1>4 DEF Sweep
  <1>5. ASSUME NEW c \in Conns, toServer[c] # <<>>,
               CompleteJob(Head(toServer[c]).job, Head(toServer[c]).res)
        PROVE  status'[i] # "none"
    BY <1>0, <1>5, HeadReport DEF CompleteJob, Terminal
  <1> QED
    BY <1>2, <1>3, <1>4, <1>5, TableStep

\* The history of outcomes only grows.
LEMMA OutcomesGrow ==
  ASSUME TypeOK, [Next]_vars PROVE \A i \in Jobs : outcomes[i] \subseteq outcomes'[i]
  <1>0. outcomes \in [Jobs -> SUBSET Outcomes]
    BY DEF TypeOK, AgentTypes
  <1>1. ASSUME NEW g \in Goroutines, NEW res \in Outcomes, FinishRun(g, res)
        PROVE  \A i \in Jobs : outcomes[i] \subseteq outcomes'[i]
    BY <1>0, <1>1 DEF FinishRun
  <1>3. ASSUME NEW g \in Goroutines, ReadCommand(g) \/ CheckCommand(g) \/ StartRun(g) \/ RecordCommand(g) \/ Reply(g)
        PROVE  UNCHANGED outcomes
    BY <1>3 DEF ReadCommand, CheckCommand, StartRun, RecordCommand, Reply
  <1>4. ASSUME NEW j \in Jobs,
               \/ \E ttl \in 1 .. MaxTTL, b \in BOOLEAN : CreateJob(j, ttl, b)
               \/ DispatchLookup(j) \/ DispatchFails(j) \/ DispatchSend(j) \/ DispatchSendFails(j) \/ DispatchMark(j)
        PROVE  UNCHANGED outcomes
    BY <1>4 DEF CreateJob, DispatchLookup, DispatchFails, DispatchSend, DispatchSendFails, DispatchMark, agentVars
  <1>5. ASSUME NEW c \in Conns,
               \/ Connect(c) \/ ServeHello(c) \/ DrainList(c) \/ DrainListFails(c)
               \/ DrainSkip(c) \/ DrainSend(c) \/ DrainSendFails(c) \/ DrainMark(c) \/ HandleCommandResult(c) \/ ServeEnds(c) \/ Deregister(c)
        PROVE  UNCHANGED outcomes
    BY <1>5 DEF Connect, ServeHello, DrainList, DrainListFails, DrainSkip, DrainSend, DrainSendFails, DrainMark,
                HandleCommandResult, ServeEnds, Deregister, agentVars
  <1>6. CASE \/ Tick \/ ExpireQueuedJobs \/ ReadHelloAck \/ Disconnect \/ ServerRestart
             \/ AgentRestart \/ UNCHANGED vars
    BY <1>6 DEF Tick, ExpireQueuedJobs, ReadHelloAck, Disconnect, ServerRestart, AgentRestart,
                vars, agentVars
  <1> QED
    BY <1>0, <1>1, <1>3, <1>4, <1>5, <1>6 DEF Next

\* So what is grounded stays so.
LEMMA GroundedGrows == ASSUME TypeOK, [Next]_vars PROVE Grounded \subseteq Grounded'
  BY CreatedGrows, OutcomesGrow DEF Grounded, Reports

\* A step that leaves a part of the system alone leaves it grounded.
LEMMA GroundedFrame ==
  ASSUME TypeOK, [Next]_vars, Provenance
  PROVE  /\ UNCHANGED <<dispatch, drain>> => QueuesGrounded'
         /\ toAgent \in [Conns -> Seq(Created' \cup {HelloAck})]
         /\ toServer \in [Conns -> Seq(Grounded')]
         /\ UNCHANGED exec => ExecGrounded'
  <1>1. Created \subseteq Created' /\ Grounded \subseteq Grounded'
    BY CreatedGrows, GroundedGrows
  <1>2. Seq(Created \cup {HelloAck}) \subseteq Seq(Created' \cup {HelloAck})
    BY <1>1, SeqGrows
  <1>3. Seq(Grounded) \subseteq Seq(Grounded')
    BY <1>1, SeqGrows
  <1>4. UNCHANGED <<dispatch, drain>> => QueuesGrounded'
    BY <1>1 DEF Provenance, QueuesGrounded
  <1>5. UNCHANGED exec => ExecGrounded'
    BY <1>1 DEF Provenance, ExecGrounded
  <1>6. toAgent \in [Conns -> Seq(Created' \cup {HelloAck})]
    BY <1>2 DEF Provenance, FramesGrounded
  <1>7. toServer \in [Conns -> Seq(Grounded')]
    BY <1>3 DEF Provenance, ReportsGrounded
  <1> QED
    BY <1>4, <1>5, <1>6, <1>7

\* Nothing is in flight initially.
LEMMA InitProvenance == Init => Provenance
  <1> SUFFICES ASSUME Init PROVE Provenance
    OBVIOUS
  <1>1. <<>> \in Seq(Created \cup {HelloAck}) /\ <<>> \in Seq(Grounded)
    OBVIOUS
  <1> QED
    BY <1>1 DEF Init, Provenance, QueuesGrounded, FramesGrounded, ReportsGrounded, ExecGrounded,
       Idle

\* A command of a created job, or the HelloAck, may be written to the agent.
LEMMA WriteGrounded ==
  ASSUME TypeOK, [Next]_vars, Provenance,
         NEW c \in Conns, NEW f \in Created \cup {HelloAck}, WriteToAgent(c, f)
  PROVE  FramesGrounded'
  <1>1. f \in Created' \cup {HelloAck} /\ toAgent \in [Conns -> Seq(Created' \cup {HelloAck})]
    BY CreatedGrows, GroundedFrame
  <1>2. Append(toAgent[c], f) \in Seq(Created' \cup {HelloAck})
    BY <1>1
  <1> QED
    BY <1>1, <1>2 DEF WriteToAgent, FramesGrounded

\* Every step keeps what is in flight grounded.
LEMMA NextProvenance == TypeOK /\ Provenance /\ [Next]_vars => Provenance'
  <1> SUFFICES ASSUME TypeOK, Provenance, [Next]_vars PROVE Provenance'
    OBVIOUS
  <1>0. /\ UNCHANGED <<dispatch, drain>> => QueuesGrounded'
        /\ UNCHANGED toAgent => FramesGrounded'
        /\ UNCHANGED toServer => ReportsGrounded'
        /\ UNCHANGED exec => ExecGrounded'
    BY GroundedFrame DEF FramesGrounded, ReportsGrounded
  <1>g. Created \subseteq Created' /\ Grounded \subseteq Grounded'
    BY CreatedGrows, GroundedGrows
  <1>e. /\ \A S : <<>> \in Seq(S)
        /\ toAgent \in [Conns -> Seq(Created' \cup {HelloAck})]
        /\ toServer \in [Conns -> Seq(Grounded')]
    BY GroundedFrame
  <1>t. /\ ServerTypes /\ ConnTypes /\ AgentTypes
        /\ QueuesGrounded /\ FramesGrounded /\ ReportsGrounded /\ ExecGrounded
    BY DEF TypeOK, Provenance
  <1>q. ASSUME QueuesGrounded', FramesGrounded', ReportsGrounded', ExecGrounded' PROVE Provenance'
    BY <1>q DEF Provenance
  <1>1. CASE Tick \/ ExpireQueuedJobs \/ UNCHANGED vars
    BY <1>0, <1>1, <1>q DEF Tick, ExpireQueuedJobs, vars, serverVars, connVars, agentVars
  <1>2. ASSUME NEW j \in Jobs, NEW ttl \in 1 .. MaxTTL, NEW b \in BOOLEAN, CreateJob(j, ttl, b) PROVE Provenance'
    <2>1. j \in Created'
      BY <1>2, <1>t DEF CreateJob, Created, ServerTypes
    <2>2. QueuesGrounded'
      BY <1>2, <1>t, <1>g, <2>1 DEF CreateJob, QueuesGrounded, ServerTypes, DispatchState, connVars
    <2> QED
      BY <1>0, <1>2, <1>q, <2>2 DEF CreateJob, connVars, agentVars
  <1>3. ASSUME NEW j \in Jobs,
               DispatchLookup(j) \/ DispatchFails(j) \/ DispatchSendFails(j) \/ DispatchMark(j)
        PROVE  Provenance'
    <2>1. dispatch[j].pc # "none" /\ drain' = drain
      BY <1>3 DEF DispatchLookup, DispatchFails, DispatchSendFails, DispatchMark, connVars
    <2>2. \A i \in Jobs : i # j => dispatch'[i] = dispatch[i]
      BY <1>3, <1>t DEF DispatchLookup, DispatchFails, DispatchSendFails, DispatchMark, ServerTypes
    <2>3. QueuesGrounded'
      BY <1>t, <1>g, <2>1, <2>2 DEF QueuesGrounded
    <2> QED
      BY <1>0, <1>3, <1>q, <2>3 DEF DispatchLookup, DispatchFails, DispatchSendFails, DispatchMark, connVars, agentVars
  <1>4. ASSUME NEW j \in Jobs, DispatchSend(j) PROVE Provenance'
    <2>1. dispatch[j].pc # "none" /\ drain' = drain /\ j \in Created
      BY <1>4, <1>t DEF DispatchSend, QueuesGrounded
    <2>2. \A i \in Jobs : i # j => dispatch'[i] = dispatch[i]
      BY <1>4, <1>t DEF DispatchSend, ServerTypes
    <2>3. QueuesGrounded'
      BY <1>t, <1>g, <2>1, <2>2 DEF QueuesGrounded
    <2>4. PICK d \in Conns : d = dispatch[j].conn
      BY <1>4, <1>t DEF DispatchSend, ServerTypes
    <2>5. WriteToAgent(d, j) \/ UNCHANGED toAgent
      BY <1>4, <2>4 DEF DispatchSend
    <2>6. FramesGrounded'
      BY <1>0, <2>1, <2>5, WriteGrounded
    <2> QED
      BY <1>0, <1>4, <1>q, <2>3, <2>6 DEF DispatchSend, agentVars
  <1>5. ASSUME NEW c \in Conns, Connect(c) PROVE Provenance'
    <2>1. QueuesGrounded'
      BY <1>5, <1>t, <1>g DEF Connect, QueuesGrounded, ConnTypes, DrainState, serverVars
    <2> QED
      BY <1>0, <1>5, <1>q, <2>1 DEF Connect, agentVars
  <1>6. ASSUME NEW c \in Conns, ServeHello(c) PROVE Provenance'
    <2>1. QueuesGrounded'
      BY <1>6, <1>t, <1>g DEF ServeHello, QueuesGrounded, ConnTypes, DrainState, serverVars
    <2>2. FramesGrounded'
      BY <1>6, WriteGrounded DEF ServeHello
    <2> QED
      BY <1>0, <1>6, <1>q, <2>1, <2>2 DEF ServeHello, agentVars
  <1>7. ASSUME NEW c \in Conns, DrainList(c) PROVE Provenance'
    <2>1. ListPendingJobsForDevice \subseteq Created
      BY DEF ListPendingJobsForDevice, Created, Queued
    <2>2. QueuesGrounded'
      BY <1>7, <1>t, <1>g, <2>1 DEF DrainList, QueuesGrounded, ConnTypes, serverVars
    <2> QED
      BY <1>0, <1>7, <1>q, <2>2 DEF DrainList, agentVars
  <1>8. ASSUME NEW c \in Conns, DrainListFails(c) PROVE Provenance'
    <2>1. QueuesGrounded'
      BY <1>8, <1>t, <1>g DEF DrainListFails, QueuesGrounded, ConnTypes, DrainState, serverVars
    <2> QED
      BY <1>0, <1>8, <1>q, <2>1 DEF DrainListFails, agentVars
  <1>9. ASSUME NEW c \in Conns, DrainSend(c) \/ DrainSendFails(c) PROVE Provenance'
    <2>1. \/ drain' = [drain EXCEPT ![c].pc = "mark"]
          \/ drain' = [drain EXCEPT ![c] = [pc |-> "failed", todo |-> {}]]
      BY <1>9 DEF DrainSend, DrainSendFails
    <2>2. \A d \in Conns : drain'[d].todo \subseteq drain[d].todo
      <3>1. CASE drain' = [drain EXCEPT ![c].pc = "mark"]
        BY <1>t, <3>1 DEF ConnTypes, DrainState
      <3>2. CASE drain' = [drain EXCEPT ![c] = [pc |-> "failed", todo |-> {}]]
        BY <1>t, <3>2 DEF ConnTypes
      <3> QED
        BY <2>1, <3>1, <3>2
    <2>3. QueuesGrounded'
      BY <1>9, <1>t, <1>g, <2>2 DEF DrainSend, DrainSendFails, QueuesGrounded, serverVars
    <2>4. UNCHANGED toAgent \/ \E j \in drain[c].todo : WriteToAgent(c, j)
      BY <1>9 DEF DrainSend, DrainSendFails, Oldest
    <2>5. FramesGrounded'
      BY <1>0, <1>t, <2>4, WriteGrounded DEF QueuesGrounded
    <2> QED
      BY <1>0, <1>9, <1>q, <2>3, <2>5 DEF DrainSend, DrainSendFails, agentVars
  <1>s. ASSUME NEW c \in Conns, DrainSkip(c) PROVE Provenance'
    <2>1. \A d \in Conns : drain'[d].todo \subseteq drain[d].todo
      BY <1>s, <1>t DEF DrainSkip, DrainNext, ConnTypes, DrainState
    <2>2. QueuesGrounded'
      BY <1>s, <1>t, <1>g, <2>1 DEF DrainSkip, QueuesGrounded, serverVars
    <2> QED
      BY <1>0, <1>s, <1>q, <2>2 DEF DrainSkip, agentVars
  <1>10. ASSUME NEW c \in Conns, DrainMark(c) PROVE Provenance'
    <2>1. \A d \in Conns : drain'[d].todo \subseteq drain[d].todo
      BY <1>10, <1>t DEF DrainMark, DrainNext, ConnTypes, DrainState
    <2>2. QueuesGrounded'
      BY <1>10, <1>t, <1>g, <2>1 DEF DrainMark, QueuesGrounded
    <2> QED
      BY <1>0, <1>10, <1>q, <2>2 DEF DrainMark, agentVars
  <1>11. ASSUME NEW c \in Conns, HandleCommandResult(c) PROVE Provenance'
    <2>1. toServer[c] \in Seq(Grounded') /\ toServer[c] # <<>>
      BY <1>11, <1>e DEF HandleCommandResult
    <2>2. Tail(toServer[c]) \in Seq(Grounded')
      BY <2>1
    <2>3. ReportsGrounded'
      BY <1>11, <1>e, <2>2 DEF HandleCommandResult, ReportsGrounded
    <2> QED
      BY <1>0, <1>11, <1>q, <2>3 DEF HandleCommandResult, agentVars
  <1>12. ASSUME NEW c \in Conns, ServeEnds(c) \/ Deregister(c) PROVE Provenance'
    BY <1>0, <1>12, <1>q DEF ServeEnds, Deregister, serverVars, agentVars
  <1>13. ASSUME NEW g \in Goroutines, ReadCommand(g) PROVE Provenance'
    <2>1. toAgent[agentConn] \in Seq(Created' \cup {HelloAck}) /\ agentConn \in Conns
      BY <1>13, <1>t, <1>e DEF ReadCommand, ConnTypes
    <2>2. /\ Head(toAgent[agentConn]) \in Created'
          /\ Tail(toAgent[agentConn]) \in Seq(Created' \cup {HelloAck})
      BY <1>13, <2>1 DEF ReadCommand
    <2>3. FramesGrounded'
      BY <1>13, <1>e, <2>1, <2>2 DEF ReadCommand, FramesGrounded
    <2>4. ExecGrounded'
      BY <1>13, <1>t, <1>g, <2>2 DEF ReadCommand, ExecGrounded, AgentTypes
    <2> QED
      BY <1>0, <1>13, <1>q, <2>3, <2>4 DEF ReadCommand, serverVars
  <1>14. ASSUME NEW g \in Goroutines, CheckCommand(g) PROVE Provenance'
    <2>1. exec[g].job \in Created' /\ exec[g] \in ExecState /\ exec[g].job \in Jobs
      BY <1>14, <1>t, <1>g DEF CheckCommand, ExecGrounded, AgentTypes
    <2>2. [job |-> exec[g].job, res |-> "expired"] \in Grounded'
      BY <2>1 DEF Grounded, Reports, Results
    <2>3. /\ exec'[g].pc # "idle" => exec'[g].job = exec[g].job
          /\ exec'[g].pc \in {"record", "reply"} => exec'[g].pc = "record" /\ exec'[g].res = "expired"
          /\ \A h \in Goroutines \ {g} : exec'[h] = exec[h]
      BY <1>14, <1>t, <2>1 DEF CheckCommand, AgentTypes, ExecState, Idle
    <2>4. ExecGrounded'
      BY <1>t, <1>g, <2>1, <2>2, <2>3 DEF ExecGrounded
    <2> QED
      BY <1>0, <1>14, <1>q, <2>4 DEF CheckCommand, serverVars, connVars
  <1>r. ASSUME NEW g \in Goroutines, StartRun(g) PROVE Provenance'
    <2>1. /\ exec'[g].job = exec[g].job /\ exec'[g].pc = "run" /\ exec[g].pc = "start"
          /\ \A h \in Goroutines \ {g} : exec'[h] = exec[h]
      BY <1>r, <1>t DEF StartRun, AgentTypes, ExecState
    <2>2. ExecGrounded'
      BY <1>t, <1>g, <2>1 DEF ExecGrounded
    <2> QED
      BY <1>0, <1>r, <1>q, <2>2 DEF StartRun, serverVars, connVars
  <1>15. ASSUME NEW g \in Goroutines, NEW res \in Outcomes, FinishRun(g, res) PROVE Provenance'
    <2>1. exec[g].job \in Created' /\ exec[g] \in ExecState /\ exec[g].job \in Jobs
      BY <1>15, <1>t, <1>g DEF FinishRun, ExecGrounded, AgentTypes
    <2>2. res \in outcomes'[exec[g].job]
      BY <1>15, <1>t, <2>1 DEF FinishRun, AgentTypes
    <2>3. [job |-> exec[g].job, res |-> res] \in Grounded'
      BY <2>1, <2>2 DEF Grounded, Reports, Results
    <2>4. /\ exec'[g].job = exec[g].job /\ exec'[g].res = res
          /\ \A h \in Goroutines \ {g} : exec'[h] = exec[h]
      BY <1>15, <1>t, <2>1 DEF FinishRun, AgentTypes, ExecState
    <2>5. ExecGrounded'
      BY <1>t, <1>g, <2>1, <2>3, <2>4 DEF ExecGrounded
    <2> QED
      BY <1>0, <1>15, <1>q, <2>5 DEF FinishRun, serverVars, connVars
  <1>16. ASSUME NEW g \in Goroutines, RecordCommand(g) PROVE Provenance'
    <2>1. /\ exec'[g].job = exec[g].job /\ exec'[g].res = exec[g].res
          /\ exec[g].pc = "record"
          /\ \A h \in Goroutines \ {g} : exec'[h] = exec[h]
      BY <1>16, <1>t DEF RecordCommand, AgentTypes, ExecState
    <2>2. ExecGrounded'
      BY <1>t, <1>g, <2>1 DEF ExecGrounded
    <2> QED
      BY <1>0, <1>16, <1>q, <2>2 DEF RecordCommand, serverVars, connVars
  <1>17. ASSUME NEW g \in Goroutines, Reply(g) PROVE Provenance'
    <2>1. [job |-> exec[g].job, res |-> exec[g].res] \in Grounded'
      BY <1>17, <1>t, <1>g DEF Reply, ExecGrounded
    <2>2. PICK c \in Conns : c = exec[g].conn
      BY <1>17, <1>t DEF Reply, AgentTypes
    <2>3. Append(toServer[c], [job |-> exec[g].job, res |-> exec[g].res]) \in Seq(Grounded')
      BY <1>e, <2>1
    <2>4. ReportsGrounded'
      BY <1>17, <1>e, <2>2, <2>3 DEF Reply, ReportsGrounded
    <2>5. ExecGrounded'
      BY <1>17, <1>t, <1>g DEF Reply, ExecGrounded, AgentTypes, Idle
    <2> QED
      BY <1>0, <1>17, <1>q, <2>4, <2>5 DEF Reply, serverVars
  <1>18. CASE ReadHelloAck
    <2>1. toAgent[agentConn] \in Seq(Created' \cup {HelloAck}) /\ agentConn \in Conns
      BY <1>18, <1>t, <1>e DEF ReadHelloAck, ConnTypes
    <2>2. Tail(toAgent[agentConn]) \in Seq(Created' \cup {HelloAck})
      BY <1>18, <2>1 DEF ReadHelloAck
    <2>3. FramesGrounded'
      BY <1>18, <1>e, <2>1, <2>2 DEF ReadHelloAck, HangUp, FramesGrounded
    <2> QED
      BY <1>0, <1>18, <1>q, <2>3 DEF ReadHelloAck, serverVars, agentVars
  <1>19. CASE Disconnect
    <2>1. FramesGrounded'
      BY <1>19, <1>e DEF Disconnect, HangUp, FramesGrounded
    <2> QED
      BY <1>0, <1>19, <1>q, <2>1 DEF Disconnect, serverVars, agentVars
  <1>20. CASE AgentRestart
    <2>1. FramesGrounded'
      BY <1>20, <1>e DEF AgentRestart, FramesGrounded
    <2>2. ExecGrounded'
      BY <1>20 DEF AgentRestart, ExecGrounded, Idle
    <2> QED
      BY <1>0, <1>20, <1>q, <2>1, <2>2 DEF AgentRestart, serverVars
  <1>21. CASE ServerRestart
    <2>1. QueuesGrounded'
      BY <1>21, <1>t, <1>g DEF ServerRestart, QueuesGrounded
    <2>2. ReportsGrounded'
      BY <1>21, <1>e DEF ServerRestart, ReportsGrounded
    <2> QED
      BY <1>0, <1>21, <1>q, <2>1, <2>2 DEF ServerRestart, agentVars
  <1> QED
    BY <1>1, <1>2, <1>3, <1>4, <1>5, <1>6, <1>7, <1>8, <1>9, <1>10, <1>11, <1>12, <1>13,
       <1>14, <1>15, <1>16, <1>17, <1>18, <1>19, <1>20, <1>21, <1>s, <1>r DEF Next

\* Every command in flight is about a committed job, and every result in
\* flight is one that a run of the job had, or a refusal.
THEOREM InFlightIsGrounded == Spec => []Provenance
  BY InitTypeOK, NextTypeOK, InitProvenance, NextProvenance, PTL DEF Spec

-----------------------------------------------------------------------------
(* What the table reports, and the refinement.                             *)

\* An output is written only from a grounded result.
LEMMA NextOutcomeReported ==
  TypeOK /\ Provenance /\ OutcomeReported /\ [Next]_vars => OutcomeReported'
  <1> SUFFICES ASSUME TypeOK, Provenance, OutcomeReported, [Next]_vars PROVE OutcomeReported'
    OBVIOUS
  <1>0. \A i \in Jobs : outcomes[i] \subseteq outcomes'[i]
    BY OutcomesGrow
  <1>1. CASE UNCHANGED output
    BY <1>0, <1>1 DEF OutcomeReported
  <1>2. ASSUME NEW c \in Conns, toServer[c] # <<>>,
               CompleteJob(Head(toServer[c]).job, Head(toServer[c]).res)
        PROVE  OutcomeReported'
    <2>1. toServer[c] \in Seq(Grounded)
      BY DEF Provenance, ReportsGrounded
    <2>2. Head(toServer[c]) \in Grounded
      BY <1>2, <2>1
    <2>3. output \in [Jobs -> {"none"} \cup Results]
      BY DEF TypeOK, ServerTypes
    <2> QED
      BY <1>0, <1>2, <2>2, <2>3 DEF CompleteJob, OutcomeReported, Grounded, Reports
  <1> QED
    BY <1>1, <1>2, TableStep

\* Every output the server stores is one a run on the device had, or the
\* agent's refusal of an expired job.
THEOREM OutputsAreReal == Spec => []OutcomeReported
  <1>1. Init => OutcomeReported
    BY DEF Init, OutcomeReported
  <1> QED
    BY <1>1, InitTypeOK, NextTypeOK, InitProvenance, NextProvenance, NextOutcomeReported, PTL
       DEF Spec

\* Every step of the system is a step of the abstract life cycle or none.
LEMMA NextLifecycle ==
  TypeOK /\ Provenance /\ [Next]_vars => [Lifecycle!Next]_(Lifecycle!vars)
  <1> SUFFICES ASSUME TypeOK, Provenance, [Next]_vars PROVE [Lifecycle!Next]_(Lifecycle!vars)
    OBVIOUS
  <1>0. status \in [Jobs -> {"none"} \cup Queued \cup Terminal]
    BY DEF TypeOK, ServerTypes
  <1>1. CASE UNCHANGED <<status, output>>
    BY <1>1 DEF Lifecycle!vars
  <1>2. ASSUME NEW j \in Jobs, status[j] = "none",
               status' = [status EXCEPT ![j] = "pending"], UNCHANGED output
        PROVE  Lifecycle!Next
    BY <1>2 DEF Lifecycle!Next, Lifecycle!Create
  <1>3. ASSUME NEW j \in Jobs, MarkJobSent(j), UNCHANGED output
        PROVE  Lifecycle!Next \/ UNCHANGED <<status, output>>
    BY <1>3 DEF Lifecycle!Next, Lifecycle!MarkSent, Lifecycle!Queued, MarkJobSent, Queued
  <1>4. CASE Sweep /\ UNCHANGED output
    <2> DEFINE S == {j \in Jobs : status[j] \in Queued /\ expiresAt[j] < clock}
    <2>1. status' = [j \in Jobs |-> IF j \in S THEN "expired" ELSE status[j]]
      BY <1>4 DEF Sweep
    <2>2. Lifecycle!ExpireAll(S)
      BY <1>4, <2>1 DEF Lifecycle!ExpireAll, Lifecycle!Queued, Queued
    <2>3. S \in SUBSET Jobs
      OBVIOUS
    <2> HIDE DEF S
    <2> QED
      BY <2>2, <2>3 DEF Lifecycle!Next
  <1>5. ASSUME NEW c \in Conns, toServer[c] # <<>>,
               CompleteJob(Head(toServer[c]).job, Head(toServer[c]).res)
        PROVE  Lifecycle!Next \/ UNCHANGED <<status, output>>
    <2>1. toServer[c] \in Seq(Grounded)
      BY DEF Provenance, ReportsGrounded
    <2>2. Head(toServer[c]) \in Grounded
      BY <1>5, <2>1
    <2>3. PICK j \in Jobs, s \in Terminal : /\ j = Head(toServer[c]).job
                                            /\ s = Head(toServer[c]).res
      BY <1>5, HeadReport
    <2>4. status[j] # "none"
      BY <2>2, <2>3 DEF Grounded, Created
    <2>5. Lifecycle!Complete(j, s) \/ UNCHANGED <<status, output>>
      BY <1>0, <1>5, <2>3, <2>4 DEF CompleteJob, Lifecycle!Complete, Lifecycle!Queued, Queued
    <2> QED
      BY <2>3, <2>5 DEF Lifecycle!Next, Lifecycle!Terminal, Terminal
  <1>6. UNCHANGED <<status, output>> => UNCHANGED Lifecycle!vars
    BY DEF Lifecycle!vars
  <1> QED
    BY <1>1, <1>2, <1>3, <1>4, <1>5, <1>6, TableStep

\* The delivery of jobs, with its dispatches, drains, connections, goroutines,
\* crashes and sweeps, implements the abstract life cycle of a job.
THEOREM DeliveryImplementsLifecycle == Spec => ImplementsLifecycle
  <1>1. Init => Lifecycle!Init
    BY DEF Init, Lifecycle!Init
  <1> QED
    BY <1>1, InitTypeOK, NextTypeOK, InitProvenance, NextProvenance, NextLifecycle, PTL
       DEF Spec, ImplementsLifecycle, Lifecycle!Spec

-----------------------------------------------------------------------------
(* No job falls between the dispatch and the drain.                        *)

\* The jobs that are still to be delivered.
Live == {j \in Jobs \ Malformed : status[j] \in Queued /\ clock < expiresAt[j]}

\* Who will yet write a job to connection c: its drain, the job's own
\* dispatch, or nobody because looking the job up failed.
AwaitsDrain(c, j)    == drain[c].pc \in {"none", "hello", "list", "failed"} \/ j \in drain[c].todo
AwaitsDispatch(c, j) == \/ dispatch[j].pc \in {"none", "lookup", "failed"}
                        \/ dispatch[j].pc = "send" /\ dispatch[j].conn = c

\* While c is the registered connection and its end is open, every live job
\* was written to it or has somebody who will, and one that its drain has read
\* was written or waits in the drain.
Covered(c) ==
  /\ \A j \in Live : j \in sentOn[c] \/ AwaitsDrain(c, j) \/ AwaitsDispatch(c, j)
  /\ \A j \in Live \cap listed[c] : j \in sentOn[c] \/ AwaitsDrain(c, j)
  /\ drain[c].pc = "mark" => \A j \in Jobs : Oldest(drain[c].todo, j) => j \in sentOn[c]
  /\ drain[c].pc = "done" => drain[c].todo = {}
CoverInv == \A c \in Conns : /\ reg = c /\ srv[c] = "open" => Covered(c)
                             /\ listed[c] \subseteq Created

\* A job that is to be delivered was so before, or has just been created.
LEMMA LiveStep ==
  ASSUME TypeOK, [Next]_vars
  PROVE  \/ \E j \in Jobs, ttl \in 1 .. MaxTTL, b \in BOOLEAN : CreateJob(j, ttl, b)
         \/ Live' \subseteq Live
  <1>0. /\ clock \in Int /\ clock' \in Int /\ \A j \in Jobs : expiresAt[j] \in Int
    <2>1. TypeOK'
      BY NextTypeOK
    <2> QED
      BY <2>1, ConstantsAssumption DEF TypeOK, ServerTypes
  <1>q. ASSUME expiresAt' = expiresAt, clock <= clock',
               \A j \in Jobs : status'[j] \in Queued => status[j] \in Queued
        PROVE  Live' \subseteq Live
    BY <1>0, <1>q DEF Live
  <1>m. ASSUME NEW j \in Jobs, MarkJobSent(j) \/ UNCHANGED status
        PROVE  \A k \in Jobs : status'[k] \in Queued => status[k] \in Queued
    BY <1>m DEF MarkJobSent, TypeOK, ServerTypes
  <1>1. CASE Tick
    BY <1>0, <1>1, <1>q DEF Tick, serverVars
  <1>2. CASE ExpireQueuedJobs
    <2>1. \A j \in Jobs : status'[j] \in Queued => status[j] \in Queued
      BY <1>2 DEF ExpireQueuedJobs, Queued
    <2> QED
      BY <1>0, <1>2, <1>q, <2>1 DEF ExpireQueuedJobs
  <1>3. ASSUME NEW j \in Jobs, DispatchLookup(j) \/ DispatchFails(j) \/ DispatchSend(j) \/ DispatchSendFails(j)
        PROVE  Live' \subseteq Live
    BY <1>0, <1>3, <1>q DEF DispatchLookup, DispatchFails, DispatchSend, DispatchSendFails
  <1>4. ASSUME NEW j \in Jobs, DispatchMark(j) PROVE Live' \subseteq Live
    BY <1>0, <1>4, <1>m, <1>q DEF DispatchMark
  <1>5. ASSUME NEW c \in Conns, \/ Connect(c) \/ ServeHello(c) \/ DrainList(c) \/ DrainListFails(c)
                                \/ DrainSkip(c) \/ DrainSend(c) \/ DrainSendFails(c) \/ ServeEnds(c) \/ Deregister(c)
        PROVE  Live' \subseteq Live
    BY <1>0, <1>5, <1>q DEF Connect, ServeHello, DrainList, DrainListFails, DrainSkip, DrainSend, DrainSendFails,
       ServeEnds, Deregister, serverVars
  <1>6. ASSUME NEW c \in Conns, DrainMark(c) PROVE Live' \subseteq Live
    BY <1>0, <1>6, <1>m, <1>q DEF DrainMark
  <1>7. ASSUME NEW c \in Conns, HandleCommandResult(c) PROVE Live' \subseteq Live
    <2>1. toServer[c] # <<>> /\ expiresAt' = expiresAt /\ clock' = clock
      BY <1>7 DEF HandleCommandResult
    <2>2. Head(toServer[c]).job \in Jobs /\ Head(toServer[c]).res \in Terminal
      BY <2>1, HeadReport
    <2>3. \A j \in Jobs : status'[j] \in Queued => status[j] \in Queued
      BY <1>7, <2>2 DEF HandleCommandResult, CompleteJob, TypeOK, ServerTypes, Queued, Terminal
    <2> QED
      BY <1>0, <1>q, <2>1, <2>3
  <1>8. ASSUME NEW g \in Goroutines,
               \/ ReadCommand(g) \/ CheckCommand(g) \/ StartRun(g) \/ \E res \in Outcomes : FinishRun(g, res)
               \/ RecordCommand(g) \/ Reply(g)
        PROVE  Live' \subseteq Live
    BY <1>0, <1>8, <1>q DEF ReadCommand, CheckCommand, StartRun, FinishRun, RecordCommand, Reply, serverVars
  <1>9. CASE ReadHelloAck \/ Disconnect \/ AgentRestart \/ ServerRestart
    BY <1>0, <1>9, <1>q DEF ReadHelloAck, Disconnect, AgentRestart, ServerRestart, serverVars
  <1>10. CASE UNCHANGED vars
    BY <1>0, <1>10, <1>q DEF vars, serverVars
  <1> QED
    BY <1>1, <1>2, <1>3, <1>4, <1>5, <1>6, <1>7, <1>8, <1>9, <1>10 DEF Next

\* A step that inserts no job adds none to be delivered.
LEMMA LiveShrinks ==
  ASSUME TypeOK, [Next]_vars, \A j \in Jobs : status[j] = "none" => status'[j] # "pending"
  PROVE  Live' \subseteq Live
  <1>1. ASSUME NEW j \in Jobs, NEW ttl \in 1 .. MaxTTL, NEW b \in BOOLEAN, CreateJob(j, ttl, b) PROVE FALSE
    BY <1>1 DEF CreateJob, TypeOK, ServerTypes
  <1> QED
    BY <1>1, LiveStep

\* Nothing is registered at the start.
LEMMA InitCover == Init => CoverInv
  BY ConstantsAssumption DEF Init, CoverInv

\* A step that touches neither dispatch, drain nor registry.
LEMMA CoverFrame ==
  ASSUME CoverInv, UNCHANGED <<reg, srv, drain, dispatch, sentOn, listed>>, Live' \subseteq Live,
         Created \subseteq Created'
  PROVE  CoverInv'
  BY DEF CoverInv, Covered, AwaitsDrain, AwaitsDispatch

\* A step of one job's dispatch, which leaves the job written or awaited.
LEMMA DispatchCover ==
  ASSUME CoverInv, NEW j \in Jobs, UNCHANGED <<reg, srv, drain, listed>>,
         \A c \in Conns : sentOn[c] \subseteq sentOn'[c],
         Live' \subseteq Live \cup {j}, j \in Live' \ Live => j \notin Created,
         Created \subseteq Created',
         \A k \in Jobs : k # j => dispatch'[k] = dispatch[k],
         \A c \in Conns : reg = c /\ srv[c] = "open" /\ j \in Live' =>
           j \in sentOn'[c] \/ AwaitsDrain(c, j)' \/ AwaitsDispatch(c, j)'
  PROVE  CoverInv'
  <1>0. \A c \in Conns : listed'[c] \subseteq Created'
    BY DEF CoverInv
  <1> SUFFICES ASSUME NEW c \in Conns, reg = c, srv[c] = "open" PROVE Covered(c)'
    BY <1>0 DEF CoverInv
  <1>1. Covered(c)
    BY DEF CoverInv
  <1>2. ASSUME NEW k \in Live', k # j
        PROVE  k \in sentOn'[c] \/ AwaitsDrain(c, k)' \/ AwaitsDispatch(c, k)'
    <2>1. k \in Live /\ k \in Jobs
      BY <1>2 DEF Live
    <2> QED
      BY <1>1, <1>2, <2>1 DEF Covered, AwaitsDrain, AwaitsDispatch
  <1>3. \A k \in Live' : k \in sentOn'[c] \/ AwaitsDrain(c, k)' \/ AwaitsDispatch(c, k)'
    BY <1>2
  <1>4. drain'[c].pc = "mark" => \A k \in Jobs : Oldest(drain'[c].todo, k) => k \in sentOn'[c]
    BY <1>1 DEF Covered
  <1>5. \A k \in Live' \cap listed'[c] : k \in sentOn'[c] \/ AwaitsDrain(c, k)'
    <2> SUFFICES ASSUME NEW k \in Live', k \in listed[c]
                 PROVE  k \in sentOn'[c] \/ AwaitsDrain(c, k)'
      OBVIOUS
    <2>1. k \in Live
      BY DEF CoverInv
    <2> QED
      BY <1>1, <2>1 DEF Covered, AwaitsDrain
  <1>6. drain'[c].pc = "done" => drain'[c].todo = {}
    BY <1>1 DEF Covered
  <1> QED
    BY <1>3, <1>4, <1>5, <1>6 DEF Covered

\* A step of one connection's drain, which leaves every job written or awaited.
LEMMA DrainCover ==
  ASSUME TypeOK, CoverInv, NEW d \in Conns, UNCHANGED <<reg, srv, dispatch>>,
         \A c \in Conns : sentOn[c] \subseteq sentOn'[c],
         Live' \subseteq Live, Created \subseteq Created',
         \A c \in Conns : c # d => drain'[c] = drain[c] /\ listed'[c] = listed[c],
         listed'[d] = listed[d] \/ (listed'[d] = Created /\ \A j \in Live : AwaitsDrain(d, j)'),
         Covered(d) => /\ \A j \in Live : AwaitsDrain(d, j) => j \in sentOn'[d] \/ AwaitsDrain(d, j)'
                       /\ drain'[d].pc = "mark" =>
                            \A j \in Jobs : Oldest(drain'[d].todo, j) => j \in sentOn'[d]
                       /\ drain'[d].pc = "done" => drain'[d].todo = {}
  PROVE  CoverInv'
  <1>0. \A c \in Conns : listed'[c] \subseteq Created'
    BY DEF CoverInv
  <1> SUFFICES ASSUME NEW c \in Conns, reg = c, srv[c] = "open" PROVE Covered(c)'
    BY <1>0 DEF CoverInv
  <1>1. Covered(c)
    BY DEF CoverInv
  <1>2. CASE c = d
    <2>1. ASSUME NEW k \in Live'
          PROVE  /\ k \in sentOn'[c] \/ AwaitsDrain(c, k)' \/ AwaitsDispatch(c, k)'
                 /\ k \in listed'[c] => k \in sentOn'[c] \/ AwaitsDrain(c, k)'
      <3>1. k \in Live /\ (AwaitsDispatch(c, k) => AwaitsDispatch(c, k)')
        BY <2>1 DEF AwaitsDispatch
      <3>2. /\ k \in sentOn[c] \/ AwaitsDrain(c, k) \/ AwaitsDispatch(c, k)
            /\ k \in listed[c] => k \in sentOn[c] \/ AwaitsDrain(c, k)
        BY <1>1, <3>1 DEF Covered
      <3>3. AwaitsDrain(c, k) => k \in sentOn'[c] \/ AwaitsDrain(c, k)'
        BY <1>1, <1>2, <3>1 DEF AwaitsDrain
      <3>4. k \in listed'[c] => k \in listed[c] \/ AwaitsDrain(c, k)'
        BY <1>2, <3>1
      <3> QED
        BY <3>1, <3>2, <3>3, <3>4
    <2> QED
      BY <1>1, <1>2, <2>1 DEF Covered
  <1>3. CASE c # d
    <2>1. ASSUME NEW k \in Live'
          PROVE  /\ k \in sentOn'[c] \/ AwaitsDrain(c, k)' \/ AwaitsDispatch(c, k)'
                 /\ k \in listed'[c] => k \in sentOn'[c] \/ AwaitsDrain(c, k)'
      BY <1>1, <1>3, <2>1 DEF Covered, AwaitsDrain, AwaitsDispatch
    <2> QED
      BY <1>1, <1>3, <2>1 DEF Covered
  <1> QED
    BY <1>2, <1>3

\* The steps of the immediate dispatch.
LEMMA DispatchSteps ==
  ASSUME TypeOK, CoverInv, NEW j \in Jobs,
         \/ \E ttl \in 1 .. MaxTTL, b \in BOOLEAN : CreateJob(j, ttl, b)
         \/ DispatchLookup(j) \/ DispatchFails(j) \/ DispatchSend(j) \/ DispatchSendFails(j) \/ DispatchMark(j)
  PROVE  CoverInv'
  <1>0. /\ dispatch \in [Jobs -> DispatchState] /\ sentOn \in [Conns -> SUBSET Jobs]
        /\ status \in [Jobs -> {"none"} \cup Queued \cup Terminal]
        /\ expiresAt \in [Jobs -> 0 .. MaxTime] /\ reg \in Conns \cup {NoConn}
        /\ dispatch[j].pc = "send" => dispatch[j].conn \in Conns
    BY DEF TypeOK, ServerTypes, ConnTypes
  <1>c. Created \subseteq Created'
    <2>1. Next
      BY DEF Next
    <2> QED
      BY <2>1, CreatedGrows
  <1>1. ASSUME NEW ttl \in 1 .. MaxTTL, NEW b \in BOOLEAN, CreateJob(j, ttl, b) PROVE CoverInv'
    <2>1. /\ UNCHANGED <<reg, srv, drain, sentOn, listed, clock>>
          /\ status' = [status EXCEPT ![j] = "pending"] /\ status[j] = "none"
          /\ expiresAt' = [expiresAt EXCEPT ![j] = clock + ttl]
          /\ dispatch' = [dispatch EXCEPT ![j].pc = IF b THEN "lookup" ELSE "failed"]
      BY <1>1 DEF CreateJob, connVars
    <2>2. Live' \subseteq Live \cup {j} /\ j \notin Created
      BY <1>0, <2>1 DEF Live, Created
    <2>3. /\ dispatch'[j].pc \in {"lookup", "failed"}
          /\ \A k \in Jobs : k # j => dispatch'[k] = dispatch[k]
      BY <1>0, <2>1 DEF DispatchState
    <2> QED
      BY <1>c, <2>1, <2>2, <2>3, DispatchCover DEF AwaitsDispatch
  <1>2. ASSUME DispatchLookup(j) \/ DispatchFails(j) \/ DispatchSend(j) \/ DispatchSendFails(j) \/ DispatchMark(j)
        PROVE  CoverInv'
    <2>1. Live' \subseteq Live
      <3>1. status' = status \/ MarkJobSent(j)
        BY <1>2 DEF DispatchLookup, DispatchFails, DispatchSend, DispatchSendFails, DispatchMark
      <3>2. \A k \in Jobs : status[k] = "none" => status'[k] # "pending"
        BY <1>0, <3>1 DEF MarkJobSent, Queued
      <3>3. Next
        BY <1>2 DEF Next
      <3> QED
        BY <3>2, <3>3, LiveShrinks
    <2>2. UNCHANGED <<reg, srv, drain, listed>> /\ \A k \in Jobs : k # j => dispatch'[k] = dispatch[k]
      BY <1>0, <1>2 DEF DispatchLookup, DispatchFails, DispatchSend, DispatchSendFails, DispatchMark, connVars
    <2>3. \A c \in Conns : sentOn[c] \subseteq sentOn'[c]
      BY <1>0, <1>2 DEF DispatchLookup, DispatchFails, DispatchSend, DispatchSendFails, DispatchMark, connVars
    <2>4. ASSUME NEW c \in Conns, reg = c, srv[c] = "open", j \in Live'
          PROVE  j \in sentOn'[c] \/ AwaitsDrain(c, j)' \/ AwaitsDispatch(c, j)'
      <3>0. j \in sentOn[c] \/ AwaitsDrain(c, j) \/ AwaitsDispatch(c, j)
        BY <2>1, <2>4 DEF CoverInv, Covered
      <3>1. CASE j \in sentOn[c] \/ AwaitsDrain(c, j)
        BY <2>2, <2>3, <3>1 DEF AwaitsDrain
      <3>2. CASE AwaitsDispatch(c, j)
        <4>1. CASE DispatchLookup(j)
          <5>1. dispatch'[j] = [pc |-> "send", conn |-> c]
            BY <1>0, <2>4, <4>1, ConstantsAssumption DEF DispatchLookup
          <5> QED
            BY <5>1 DEF AwaitsDispatch
        <4>2. CASE DispatchFails(j)
          BY <1>0, <4>2 DEF DispatchFails, AwaitsDispatch, DispatchState
        <4>3. CASE DispatchSend(j)
          <5>1. dispatch[j].pc = "send" /\ dispatch[j].conn = c
            BY <3>2, <4>3 DEF DispatchSend, AwaitsDispatch
          <5> QED
            BY <1>0, <4>3, <5>1 DEF DispatchSend
        <4>5. CASE DispatchSendFails(j)
          <5>1. dispatch[j].pc = "send" /\ dispatch[j].conn = c
            BY <3>2, <4>5 DEF DispatchSendFails, AwaitsDispatch
          <5>2. dispatch'[j].pc = "failed"
            BY <1>0, <2>4, <4>5, <5>1 DEF DispatchSendFails
          <5> QED
            BY <5>2 DEF AwaitsDispatch
        <4>4. CASE DispatchMark(j)
          BY <3>2, <4>4 DEF DispatchMark, AwaitsDispatch
        <4> QED
          BY <1>2, <4>1, <4>2, <4>3, <4>4, <4>5
      <3> QED
        BY <3>0, <3>1, <3>2
    <2> QED
      BY <1>c, <2>1, <2>2, <2>3, <2>4, DispatchCover
  <1> QED
    BY <1>1, <1>2

\* The steps of the drain.
LEMMA DrainSteps ==
  ASSUME TypeOK, CoverInv, NEW d \in Conns,
         \/ ServeHello(d) \/ DrainList(d) \/ DrainListFails(d) \/ DrainSkip(d) \/ DrainSend(d) \/ DrainSendFails(d)
         \/ DrainMark(d)
  PROVE  CoverInv'
  <1>0. /\ drain \in [Conns -> DrainState] /\ sentOn \in [Conns -> SUBSET Jobs]
        /\ listed \in [Conns -> SUBSET Jobs]
        /\ status \in [Jobs -> {"none"} \cup Queued \cup Terminal]
    BY DEF TypeOK, ServerTypes, ConnTypes
  <1>1. Live' \subseteq Live
    <2>1. status' = status \/ \E j \in Jobs : MarkJobSent(j)
      BY DEF ServeHello, DrainList, DrainListFails, DrainSkip, DrainSend, DrainSendFails, DrainMark, serverVars
    <2>2. \A k \in Jobs : status[k] = "none" => status'[k] # "pending"
      BY <1>0, <2>1 DEF MarkJobSent, Queued
    <2>3. Next
      BY DEF Next
    <2> QED
      BY <2>2, <2>3, LiveShrinks
  <1>2. UNCHANGED <<reg, srv, dispatch>>
    BY DEF ServeHello, DrainList, DrainListFails, DrainSkip, DrainSend, DrainSendFails, DrainMark, serverVars
  <1>3. \A c \in Conns : sentOn[c] \subseteq sentOn'[c]
    BY <1>0 DEF ServeHello, DrainList, DrainListFails, DrainSkip, DrainSend, DrainSendFails, DrainMark
  <1>c. Created \subseteq Created'
    <2>1. Next
      BY DEF Next
    <2> QED
      BY <2>1, CreatedGrows
  <1>l. /\ \A c \in Conns : c # d => listed'[c] = listed[c]
        /\ listed'[d] = listed[d] \/ (listed'[d] = Created /\ \A j \in Live : AwaitsDrain(d, j)')
    <2>1. CASE DrainList(d)
      <3>1. drain'[d].todo = ListPendingJobsForDevice /\ listed' = [listed EXCEPT ![d] = Created]
        BY <1>0, <2>1 DEF DrainList
      <3>2. clock \in Int /\ \A j \in Jobs : expiresAt[j] \in Int
        BY DEF TypeOK, ServerTypes
      <3>3. Live \subseteq ListPendingJobsForDevice
        BY <3>2 DEF Live, ListPendingJobsForDevice
      <3> QED
        BY <1>0, <3>1, <3>3 DEF AwaitsDrain
    <2>2. CASE ~DrainList(d)
      BY <2>2 DEF ServeHello, DrainListFails, DrainSkip, DrainSend, DrainSendFails, DrainMark
    <2> QED
      BY <2>1, <2>2
  <1>4. \A c \in Conns : c # d => drain'[c] = drain[c]
    BY <1>0 DEF ServeHello, DrainList, DrainListFails, DrainSkip, DrainSend, DrainSendFails, DrainMark, DrainNext
  <1> DEFINE Goal == /\ \A j \in Live : AwaitsDrain(d, j) => j \in sentOn'[d] \/ AwaitsDrain(d, j)'
                     /\ drain'[d].pc = "mark" =>
                          \A j \in Jobs : Oldest(drain'[d].todo, j) => j \in sentOn'[d]
                     /\ drain'[d].pc = "done" => drain'[d].todo = {}
  <1>5. ASSUME Covered(d) PROVE Goal
    <2>1. CASE ServeHello(d) \/ DrainListFails(d) \/ DrainSendFails(d)
      <3>1. drain'[d].pc \in {"list", "failed"}
        BY <1>0, <2>1 DEF ServeHello, DrainListFails, DrainSendFails, DrainState
      <3> QED
        BY <3>1 DEF AwaitsDrain
    <2>2. CASE DrainList(d)
      <3>1. drain'[d] = [pc   |-> IF ListPendingJobsForDevice = {} THEN "done" ELSE "send",
                         todo |-> ListPendingJobsForDevice]
        BY <1>0, <2>2 DEF DrainList
      <3>2. Live \subseteq ListPendingJobsForDevice
        <4>1. clock \in Int /\ \A j \in Jobs : expiresAt[j] \in Int
          BY DEF TypeOK, ServerTypes
        <4> QED
          BY <4>1 DEF Live, ListPendingJobsForDevice
      <3> QED
        BY <3>1, <3>2 DEF AwaitsDrain
    <2>3. CASE DrainSkip(d)
      <3>1. PICK j \in Malformed : DrainNext(d, j)
        BY <2>3 DEF DrainSkip
      <3>2. drain'[d] = [pc   |-> IF drain[d].todo = {j} THEN "done" ELSE "send",
                         todo |-> drain[d].todo \ {j}]
        BY <1>0, <3>1 DEF DrainNext
      <3>3. j \notin Live /\ drain[d].pc = "send"
        BY <2>3, <3>1 DEF Live, DrainSkip
      <3> QED
        BY <3>2, <3>3 DEF AwaitsDrain
    <2>4. CASE DrainSend(d)
      <3>1. PICK j \in Jobs : Oldest(drain[d].todo, j)
        BY <2>4 DEF DrainSend
      <3>2. /\ \A k \in Jobs : Oldest(drain[d].todo, k) => k = j
            /\ drain[d].pc = "send"
        BY <1>0, <2>4, <3>1, ConstantsAssumption DEF Oldest, Jobs, DrainSend
      <3>3. /\ sentOn' = [sentOn EXCEPT ![d] = sentOn[d] \cup {j}]
            /\ drain' = [drain EXCEPT ![d].pc = "mark"]
        BY <2>4, <3>2 DEF DrainSend
      <3>4. drain'[d].pc = "mark" /\ drain'[d].todo = drain[d].todo /\ j \in sentOn'[d]
        BY <1>0, <3>3 DEF DrainState
      <3> QED
        BY <3>2, <3>4 DEF AwaitsDrain
    <2>5. CASE DrainMark(d)
      <3>1. PICK j \in Jobs : Oldest(drain[d].todo, j) /\ DrainNext(d, j)
        BY <2>5 DEF DrainMark
      <3>2. drain[d].pc = "mark" /\ sentOn' = sentOn /\ j \in sentOn[d]
        BY <1>5, <2>5, <3>1 DEF DrainMark, Covered
      <3>3. drain'[d] = [pc   |-> IF drain[d].todo = {j} THEN "done" ELSE "send",
                         todo |-> drain[d].todo \ {j}]
        BY <1>0, <3>1 DEF DrainNext
      <3> QED
        BY <3>2, <3>3 DEF AwaitsDrain
    <2> QED
      BY <2>1, <2>2, <2>3, <2>4, <2>5
  <1> QED
    BY <1>1, <1>2, <1>3, <1>4, <1>5, <1>c, <1>l, DrainCover

\* The steps of the registry.
LEMMA RegistrySteps ==
  ASSUME TypeOK, CoverInv,
         (\E d \in Conns : Connect(d) \/ ServeEnds(d) \/ Deregister(d)) \/ ServerRestart
  PROVE  CoverInv'
  <1>0. /\ drain \in [Conns -> DrainState] /\ sentOn \in [Conns -> SUBSET Jobs]
        /\ listed \in [Conns -> SUBSET Jobs]
        /\ srv \in [Conns -> {"new", "open", "closed"}]
    BY DEF TypeOK, ConnTypes
  <1>1. ASSUME NEW d \in Conns, Connect(d) PROVE CoverInv'
    <2>1. reg' = d /\ drain'[d].pc = "hello" /\ \A c \in Conns : listed'[c] \subseteq listed[c]
      BY <1>0, <1>1 DEF Connect, DrainState
    <2>2. Created' = Created
      BY <1>1 DEF Connect, serverVars, Created
    <2> QED
      BY <2>1, <2>2 DEF CoverInv, Covered, AwaitsDrain
  <1>2. ASSUME NEW d \in Conns, ServeEnds(d) PROVE CoverInv'
    <2>1. Live' \subseteq Live /\ Created' = Created
      <3>1. Next /\ \A k \in Jobs : status[k] = "none" => status'[k] # "pending"
        BY <1>2 DEF Next, ServeEnds, serverVars
      <3> QED
        BY <1>2, <3>1, LiveShrinks DEF ServeEnds, serverVars, Created
    <2>2. ASSUME NEW c \in Conns, reg' = c, srv'[c] = "open" PROVE Covered(c)'
      <3>1. reg = c /\ c # d /\ srv[c] = "open"
        BY <1>0, <1>2, <2>2 DEF ServeEnds
      <3>2. /\ sentOn'[c] = sentOn[c] /\ listed'[c] = listed[c]
            /\ UNCHANGED <<drain, dispatch>>
        BY <1>0, <1>2, <3>1 DEF ServeEnds, serverVars
      <3>3. Covered(c)
        BY <3>1 DEF CoverInv
      <3> QED
        BY <2>1, <3>2, <3>3 DEF Covered, AwaitsDrain, AwaitsDispatch
    <2>3. \A c \in Conns : listed'[c] \subseteq listed[c]
      BY <1>0, <1>2 DEF ServeEnds
    <2> QED
      BY <2>1, <2>2, <2>3 DEF CoverInv
  <1>3. CASE ServerRestart \/ \E d \in Conns : Deregister(d)
    <2>1. Created' = Created /\ reg' = NoConn /\ \A c \in Conns : listed'[c] \subseteq listed[c]
      BY <1>3 DEF ServerRestart, Deregister, serverVars, Created
    <2> QED
      BY <2>1, ConstantsAssumption DEF CoverInv
  <1> QED
    BY <1>1, <1>2, <1>3

\* Every step preserves the cover.
LEMMA NextCover == TypeOK /\ CoverInv /\ [Next]_vars => CoverInv'
  <1> SUFFICES ASSUME TypeOK, CoverInv, [Next]_vars PROVE CoverInv'
    OBVIOUS
  <1> DEFINE Rest == \/ Tick \/ ExpireQueuedJobs \/ ReadHelloAck \/ Disconnect \/ AgentRestart
                     \/ \E c \in Conns : HandleCommandResult(c)
                     \/ \E g \in Goroutines :
                          \/ ReadCommand(g) \/ CheckCommand(g) \/ StartRun(g)
                          \/ \E res \in Outcomes : FinishRun(g, res)
                          \/ RecordCommand(g) \/ Reply(g)
  <1>1. CASE Rest \/ UNCHANGED vars
    <2>1. UNCHANGED <<reg, srv, drain, dispatch, sentOn, listed>>
      <3>1. CASE UNCHANGED vars
        BY <3>1 DEF vars, serverVars, connVars
      <3>2. CASE \/ Tick \/ ExpireQueuedJobs \/ ReadHelloAck \/ Disconnect \/ AgentRestart
                 \/ \E c \in Conns : HandleCommandResult(c)
        BY <3>2 DEF Tick, ExpireQueuedJobs, ReadHelloAck, Disconnect, AgentRestart,
           HandleCommandResult, serverVars, connVars
      <3>3. CASE \E g \in Goroutines : \/ ReadCommand(g) \/ CheckCommand(g) \/ StartRun(g)
                                       \/ \E res \in Outcomes : FinishRun(g, res)
                                       \/ RecordCommand(g) \/ Reply(g)
        BY <3>3 DEF ReadCommand, CheckCommand, StartRun, FinishRun, RecordCommand, Reply, serverVars, connVars
      <3> QED
        BY <1>1, <3>1, <3>2, <3>3
    <2>2. ASSUME NEW j \in Jobs, NEW ttl \in 1 .. MaxTTL, NEW b \in BOOLEAN, CreateJob(j, ttl, b) PROVE CoverInv'
      BY <2>2, DispatchSteps
    <2> QED
      BY <2>1, <2>2, LiveStep, CreatedGrows, CoverFrame
  <1>2. CASE Next /\ ~Rest
    BY <1>2, DispatchSteps, DrainSteps, RegistrySteps DEF Next
  <1> QED
    BY <1>1, <1>2

\* drainPendingJobs together with deliverJobs: while a device's registered connection is open and
\* its drain over, every job that is queued and not expired, and whose dispatch is over or that
\* was in the table when the drain read it, was written to that very connection, however
\* connections replaced each other in between.
THEOREM NoJobFallsBetween == Spec => []NoMissedJob
  <1>1. CoverInv => NoMissedJob
    BY DEF CoverInv, Covered, AwaitsDrain, AwaitsDispatch, NoMissedJob, Live
  <1> QED
    BY <1>1, InitTypeOK, NextTypeOK, InitCover, NextCover, PTL DEF Spec

-----------------------------------------------------------------------------
(***************************************************************************)
(* The registry behind these connections, handler by handler: theorems     *)
(* about GatewayRegistry, for every number of connections that the agent   *)
(* of a device opens.                                                      *)
(***************************************************************************)

\* What the properties rest on: no number is above the number of adds, and the
\* decommissioning handler writes to or closes a connection it looked up.
RegOrderBounded == \A c \in Sockets : order[c] <= adds
RegDecomHolds == decom.pc \in {"write", "close"} => decom.conn \in Sockets

\* The inductive invariant.
RegInv == /\ RegistryTypeOK
          /\ RegOrderBounded
          /\ RegDecomHolds
          /\ NoDanglingEntry
          /\ NewestIsRegistered
          /\ OneLiveConnection

-----------------------------------------------------------------------------
\* The empty registry satisfies the invariant.
LEMMA RegInitInv == RegistryInit => RegInv
  BY NoSocketAssumption DEF RegistryInit, RegInv, RegistryTypeOK, Steps, RegOrderBounded,
     RegDecomHolds, NoDanglingEntry, NewestIsRegistered, OneLiveConnection

\* A step that leaves the handlers and the registry alone, and whose
\* decommissioning handler stays typed, keeps the invariant.
LEMMA RegOtherFrame ==
  ASSUME RegInv, UNCHANGED handlerVars, RegistryTypeOK', RegDecomHolds'
  PROVE  RegInv'
  BY DEF handlerVars, RegInv, RegOrderBounded, NoDanglingEntry, NewestIsRegistered,
     OneLiveConnection

\* Every step of a handler, of the decommissioning request and of the agent
\* preserves the invariant.
LEMMA RegNextInv == RegInv /\ [RegistryNext]_registryVars => RegInv'
  <1> SUFFICES ASSUME RegInv, [RegistryNext]_registryVars PROVE RegInv'
    OBVIOUS
  <1> USE NoSocketAssumption
  <1>1. ASSUME NEW c \in Sockets, Accept(c) PROVE RegInv'
    <2>1. RegistryTypeOK' /\ RegDecomHolds'
      BY <1>1 DEF RegInv, RegistryTypeOK, RegDecomHolds, Accept, Steps, decomVars
    <2>2. RegOrderBounded'
      BY <1>1 DEF RegInv, RegistryTypeOK, RegOrderBounded, Accept
    <2>3. NoDanglingEntry' /\ NewestIsRegistered'
      BY <1>1 DEF RegInv, RegistryTypeOK, NoDanglingEntry, NewestIsRegistered, Accept
    <2>4. OneLiveConnection'
      BY <1>1 DEF RegInv, RegistryTypeOK, OneLiveConnection, Accept
    <2> QED
      BY <2>1, <2>2, <2>3, <2>4 DEF RegInv
  <1>2. ASSUME NEW c \in Sockets, LookupDevice(c) \/ AuthFails(c) PROVE RegInv'
    <2>0. /\ pc[c] \in {"challenge", "verify"}
          /\ \/ pc' = [pc EXCEPT ![c] = "verify"]
             \/ pc' = [pc EXCEPT ![c] = "done"]
          /\ closed' = closed \/ closed' = closed \cup {c}
          /\ UNCHANGED <<prev, entry, adds, order, agentEnd, decomVars>>
      BY <1>2 DEF LookupDevice, AuthFails
    <2>1. RegistryTypeOK' /\ RegDecomHolds'
      BY <2>0 DEF RegInv, RegistryTypeOK, RegDecomHolds, Steps, agentEnd, decomVars
    <2>2. RegOrderBounded'
      BY <2>0 DEF RegInv, RegistryTypeOK, RegOrderBounded
    <2>3. NoDanglingEntry' /\ NewestIsRegistered'
      BY <2>0 DEF RegInv, RegistryTypeOK, NoDanglingEntry, NewestIsRegistered
    <2>4. OneLiveConnection'
      BY <2>0 DEF RegInv, RegistryTypeOK, OneLiveConnection
    <2> QED
      BY <2>1, <2>2, <2>3, <2>4 DEF RegInv
  <1>3. ASSUME NEW c \in Sockets, AddStore(c) PROVE RegInv'
    <2>1. RegistryTypeOK' /\ RegDecomHolds'
      BY <1>3 DEF RegInv, RegistryTypeOK, RegDecomHolds, AddStore, Steps, agentEnd,
         decomVars
    <2>2. RegOrderBounded'
      BY <1>3 DEF RegInv, RegistryTypeOK, RegOrderBounded, AddStore
    <2>3. NoDanglingEntry' /\ NewestIsRegistered'
      BY <1>3 DEF RegInv, RegistryTypeOK, RegOrderBounded, NoDanglingEntry,
         NewestIsRegistered, AddStore
    \* The connection that leaves the registry is the one c will close; the
    \* others that wait to be closed wait for a handler other than c's.
    <2>4. ASSUME NEW e \in Sockets, pc'[e] \in {"replace", "serve"}, e \notin closed', e # entry'
          PROVE  \E d \in Sockets : pc'[d] = "replace" /\ prev'[d] = e
      <3>1. e # c /\ pc[e] \in {"replace", "serve"} /\ e \notin closed
        BY <1>3, <2>4 DEF AddStore, RegInv, RegistryTypeOK
      <3>2. CASE e = entry
        BY <1>3, <3>2 DEF AddStore, RegInv, RegistryTypeOK
      <3>3. CASE e # entry
        <4>1. PICK d \in Sockets : pc[d] = "replace" /\ prev[d] = e
          BY <3>1, <3>3 DEF RegInv, OneLiveConnection
        <4> QED
          BY <1>3, <4>1 DEF AddStore, RegInv, RegistryTypeOK
      <3> QED
        BY <3>2, <3>3
    <2> QED
      BY <2>1, <2>2, <2>3, <2>4 DEF RegInv, OneLiveConnection
  <1>4. ASSUME NEW c \in Sockets, AddClosePrevious(c) PROVE RegInv'
    <2>1. RegistryTypeOK' /\ RegDecomHolds'
      BY <1>4 DEF RegInv, RegistryTypeOK, RegDecomHolds, AddClosePrevious, Steps, agentEnd,
         decomVars
    <2>2. RegOrderBounded'
      BY <1>4 DEF RegInv, RegistryTypeOK, RegOrderBounded, AddClosePrevious
    <2>3. NoDanglingEntry' /\ NewestIsRegistered'
      BY <1>4 DEF RegInv, RegistryTypeOK, NoDanglingEntry, NewestIsRegistered,
         AddClosePrevious
    <2>4. ASSUME NEW e \in Sockets, pc'[e] \in {"replace", "serve"}, e \notin closed', e # entry'
          PROVE  \E d \in Sockets : pc'[d] = "replace" /\ prev'[d] = e
      <3>1. pc[e] \in {"replace", "serve"} /\ e \notin closed /\ e # entry /\ e # prev[c]
        BY <1>4, <2>4 DEF AddClosePrevious, RegInv, RegistryTypeOK
      <3>2. PICK d \in Sockets : pc[d] = "replace" /\ prev[d] = e
        BY <3>1 DEF RegInv, OneLiveConnection
      <3> QED
        BY <1>4, <3>1, <3>2 DEF AddClosePrevious, RegInv, RegistryTypeOK
    <2> QED
      BY <2>1, <2>2, <2>3, <2>4 DEF RegInv, OneLiveConnection
  <1>5. ASSUME NEW c \in Sockets, ServeReturns(c) PROVE RegInv'
    <2>1. RegistryTypeOK' /\ RegDecomHolds'
      BY <1>5 DEF RegInv, RegistryTypeOK, RegDecomHolds, ServeReturns, Steps, agentEnd,
         decomVars
    <2>2. RegOrderBounded'
      BY <1>5 DEF RegInv, RegistryTypeOK, RegOrderBounded, ServeReturns
    <2>3. NoDanglingEntry' /\ NewestIsRegistered'
      BY <1>5 DEF RegInv, RegistryTypeOK, NoDanglingEntry, NewestIsRegistered, ServeReturns
    <2>4. OneLiveConnection'
      BY <1>5 DEF RegInv, RegistryTypeOK, OneLiveConnection, ServeReturns
    <2> QED
      BY <2>1, <2>2, <2>3, <2>4 DEF RegInv
  <1>6. ASSUME NEW c \in Sockets, Remove(c) PROVE RegInv'
    <2>1. RegistryTypeOK' /\ RegDecomHolds'
      BY <1>6 DEF RegInv, RegistryTypeOK, RegDecomHolds, Remove, Steps, agentEnd, decomVars
    <2>2. RegOrderBounded'
      BY <1>6 DEF RegInv, RegistryTypeOK, RegOrderBounded, Remove
    <2>3. NoDanglingEntry' /\ NewestIsRegistered'
      BY <1>6 DEF RegInv, RegistryTypeOK, NoDanglingEntry, NewestIsRegistered, Remove
    <2>4. OneLiveConnection'
      BY <1>6 DEF RegInv, RegistryTypeOK, OneLiveConnection, Remove
    <2> QED
      BY <2>1, <2>2, <2>3, <2>4 DEF RegInv
  <1>7. CASE (\E b \in BOOLEAN : DecommissionDevice(b)) \/ SendLookup \/ SendWrite \/ KickLookup
    <2>1. RegistryTypeOK' /\ RegDecomHolds'
      BY <1>7 DEF RegInv, RegistryTypeOK, RegDecomHolds, DecommissionDevice, SendLookup,
         SendWrite, KickLookup, handlerVars, agentEnd
    <2> QED
      BY <1>7, <2>1, RegOtherFrame DEF DecommissionDevice, SendLookup, SendWrite, KickLookup
  <1>8. CASE KickClose
    <2>1. RegistryTypeOK' /\ RegDecomHolds'
      BY <1>8 DEF RegInv, RegistryTypeOK, RegDecomHolds, KickClose, agentEnd
    <2>2. RegOrderBounded' /\ NoDanglingEntry' /\ NewestIsRegistered'
      BY <1>8 DEF RegInv, RegOrderBounded, NoDanglingEntry, NewestIsRegistered, KickClose
    <2>3. OneLiveConnection'
      BY <1>8 DEF RegInv, OneLiveConnection, KickClose
    <2> QED
      BY <2>1, <2>2, <2>3 DEF RegInv
  <1>9. CASE ReadDecommission \/ Redial
    <2>1. RegistryTypeOK' /\ RegDecomHolds'
      BY <1>9 DEF RegInv, RegistryTypeOK, RegDecomHolds, ReadDecommission, Redial,
         handlerVars, decomVars
    <2> QED
      BY <1>9, <2>1, RegOtherFrame DEF ReadDecommission, Redial
  <1>10. CASE UNCHANGED registryVars
    <2>1. RegistryTypeOK' /\ RegDecomHolds'
      BY <1>10 DEF registryVars, handlerVars, agentEnd, decomVars, RegInv, RegistryTypeOK,
         RegDecomHolds
    <2> QED
      BY <1>10, <2>1, RegOtherFrame DEF registryVars
  <1> QED
    BY <1>1, <1>2, <1>3, <1>4, <1>5, <1>6, <1>7, <1>8, <1>9, <1>10 DEF RegistryNext

\* Registry.add and Registry.remove keep the map right: it names a connection
\* whose handler is serving, and of those the one added last, whichever old
\* handler removes itself late.
THEOREM RegistryIsRight == RegistrySpec => []RegistryInv
  <1>1. RegInv => RegistryInv
    BY DEF RegInv, RegistryInv
  <1> QED
    BY <1>1, RegInitInv, RegNextInv, PTL DEF RegistrySpec

\* A device has at most one connection that nobody is about to close: every
\* other open one is held by the Registry.add that replaced it, however many
\* connections replace each other at once.
THEOREM AtMostOneLive == RegistrySpec => []OneLiveConnection
  <1>1. RegInv => OneLiveConnection
    BY DEF RegInv
  <1> QED
    BY <1>1, RegInitInv, RegNextInv, PTL DEF RegistrySpec
=============================================================================
