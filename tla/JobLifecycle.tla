---------------------------- MODULE JobLifecycle ----------------------------
(***************************************************************************)
(* What the jobs table promises to its readers (the API, the web UI, the   *)
(* deployment reconciler), whatever the gateway, the agent, the network    *)
(* and the worker do: a job is queued (pending, then possibly sent), ends  *)
(* exactly once in a terminal status, and has an output row exactly when   *)
(* an agent's result ended it.  It names no connection, message or         *)
(* process; JobDelivery implements it.                                     *)
(***************************************************************************)
CONSTANT Jobs          \* the identities of the rows

VARIABLES status,      \* status[j]: jobs.status, "none" before the INSERT
          output       \* output[j]: the status that came with job_outputs' row

vars == <<status, output>>

Queued   == {"pending", "sent"}
Terminal == {"succeeded", "failed", "timed_out", "expired"}
Statuses == {"none"} \cup Queued \cup Terminal

Init == /\ status = [j \in Jobs |-> "none"]
        /\ output = [j \in Jobs |-> "none"]

Create(j) == /\ status[j] = "none"
             /\ status' = [status EXCEPT ![j] = "pending"]
             /\ UNCHANGED output

MarkSent(j) == /\ status[j] \in Queued
               /\ status' = [status EXCEPT ![j] = "sent"]
               /\ UNCHANGED output

Complete(j, s) == /\ status[j] \in Queued
                  /\ status' = [status EXCEPT ![j] = s]
                  /\ output' = [output EXCEPT ![j] = s]

\* The sweep ends any set of queued jobs at once, with no output row.
ExpireAll(S) == /\ \A j \in S : status[j] \in Queued
                /\ status' = [j \in Jobs |-> IF j \in S THEN "expired" ELSE status[j]]
                /\ UNCHANGED output

Next == \/ \E j \in Jobs : \/ Create(j)
                           \/ MarkSent(j)
                           \/ \E s \in Terminal : Complete(j, s)
        \/ \E S \in SUBSET Jobs : ExpireAll(S)

Spec == Init /\ [][Next]_vars
=============================================================================
