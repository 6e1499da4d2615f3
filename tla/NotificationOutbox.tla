-------------------------- MODULE NotificationOutbox ------------------------
(***************************************************************************)
(* The notification outbox of one tenant and the workers that drain it     *)
(* (store/alerts.go: EnqueueDeliveries, ClaimDueDeliveries,                *)
(* MarkDeliverySent, MarkDeliveryError; worker.deliverNotifications).      *)
(* A worker claims a batch in one transaction, which also schedules the    *)
(* retry, sends outside any transaction, and records each outcome in a     *)
(* transaction of its own.  Nothing renews a claim: a batch that takes     *)
(* longer than the backoff is claimed again by another worker.             *)
(*                                                                         *)
(* Time is the number of clock units until next_attempt_at.                *)
(***************************************************************************)
EXTENDS Naturals, FiniteSets

CONSTANTS
  NDeliveries,  \* deliveries ever enqueued (bound)
  Senders,      \* worker processes
  Wired,        \* the ones that were given a Notifier
  Batch,        \* deliveryBatch
  MaxAttempts,  \* maxDeliveryAttempts
  MaxBackoff,   \* the cap of the backoff
  IntBits,      \* 2^IntBits is the first power of two that is no int (31)
  MaxSendFaults \* crashes of a worker and failed outcome records (bound)

Deliveries == 1 .. NDeliveries   \* numbered in the order of created_at

ASSUME OutboxAssumption ==
  /\ NDeliveries \in Nat /\ Batch \in Nat \ {0} /\ MaxAttempts \in Nat \ {0}
  /\ MaxBackoff \in Nat \ {0} /\ MaxSendFaults \in Nat /\ IntBits \in Nat
  /\ Wired \subseteq Senders

VARIABLES
  status,   \* notification_deliveries.status, "none" before the INSERT
  attempts, \* .attempts
  wait,     \* .next_attempt_at - now()
  claim,    \* claim[w][d]: the attempt number w claimed d with, 0 if not
  sending,  \* sending[w]: the delivery whose outcome w will record, and it
  sendFaults,
  received  \* history: received[d]: successful sends of d

outboxVars == <<status, attempts, wait, claim, sending, sendFaults, received>>

NotSending == [delivery |-> 0, ok |-> FALSE]
NoClaim    == [d \in Deliveries |-> 0]

OutboxTypeOK ==
  /\ status \in [Deliveries -> {"none", "pending", "sent", "failed"}]
  /\ attempts \in [Deliveries -> Nat]
  /\ wait \in [Deliveries -> 0 .. MaxBackoff]
  /\ claim \in [Senders -> [Deliveries -> Nat]]
  /\ sending \in [Senders -> [delivery : Deliveries \cup {0}, ok : BOOLEAN]]
  /\ sendFaults \in 0 .. MaxSendFaults
  /\ received \in [Deliveries -> Nat]

OutboxInit ==
  /\ status = [d \in Deliveries |-> "none"]
  /\ attempts = [d \in Deliveries |-> 0]
  /\ wait = [d \in Deliveries |-> 0]
  /\ claim = [w \in Senders |-> NoClaim]
  /\ sending = [w \in Senders |-> NotSending]
  /\ sendFaults = 0
  /\ received = [d \in Deliveries |-> 0]

\* EnqueueDeliveries, part of the transaction that opens or resolves an alert.
Enqueue(d) ==
  /\ status[d] = "none"
  /\ \A e \in Deliveries : e < d => status[e] # "none"
  /\ status' = [status EXCEPT ![d] = "pending"]
  /\ UNCHANGED <<attempts, wait, claim, sending, sendFaults, received>>

Smaller(m, n) == IF m <= n THEN m ELSE n

\* least(power(2, attempts)::int, cap), with the attempts before this claim.  The
\* conversion raises an error for a power that is out of the range of an int.
Backoff(d) == Smaller(2 ^ attempts[d], MaxBackoff)
Overflows(d) == attempts[d] >= IntBits

Due == {d \in Deliveries : status[d] = "pending" /\ wait[d] = 0}

\* The oldest due deliveries, at most Batch of them.
Claimable == {d \in Due : Cardinality({e \in Due : e < d}) < Batch}

Idle(w) == claim[w] = NoClaim /\ sending[w] = NotSending

\* Variants: one that takes a delivery out of the queue while it is sent, one
\* that counts an attempt only in the claim.
ClaimTakes(w) ==
  /\ Idle(w)
  /\ Claimable # {}
  /\ status' = [d \in Deliveries |-> IF d \in Claimable THEN "sending" ELSE status[d]]
  /\ attempts' = [d \in Deliveries |-> attempts[d] + (IF d \in Claimable THEN 1 ELSE 0)]
  /\ claim' = [claim EXCEPT ![w] = [d \in Deliveries |-> IF d \in Claimable THEN attempts'[d] ELSE 0]]
  /\ UNCHANGED <<wait, sending, sendFaults, received>>
ClaimUncounted(w) ==
  /\ Idle(w)
  /\ Claimable # {}
  /\ wait' = [d \in Deliveries |-> IF d \in Claimable THEN Backoff(d) ELSE wait[d]]
  /\ claim' = [claim EXCEPT ![w] = [d \in Deliveries |-> IF d \in Claimable THEN attempts[d] + 1 ELSE 0]]
  /\ UNCHANGED <<status, attempts, sending, sendFaults, received>>

\* deliverNotifications returns at once without a Notifier.  ClaimDueDeliveries:
\* a transaction sees the rows another one has claimed as locked (skipped) or as
\* no longer due, and one row whose backoff overflows makes all of it fail.
ClaimDue(w) ==
  /\ w \in Wired
  /\ Idle(w)
  /\ Claimable # {}
  /\ \A d \in Claimable : ~Overflows(d)
  /\ attempts' = [d \in Deliveries |-> attempts[d] + (IF d \in Claimable THEN 1 ELSE 0)]
  /\ wait' = [d \in Deliveries |-> IF d \in Claimable THEN Backoff(d) ELSE wait[d]]
  /\ claim' = [claim EXCEPT ![w] = [d \in Deliveries |-> IF d \in Claimable THEN attempts'[d] ELSE 0]]
  /\ UNCHANGED <<status, sending, sendFaults, received>>

\* sendNotification: the SMTP or webhook call, which may fail.
Send(w, d, ok) ==
  /\ sending[w] = NotSending
  /\ claim[w][d] # 0
  /\ sending' = [sending EXCEPT ![w] = [delivery |-> d, ok |-> ok]]
  /\ received' = [received EXCEPT ![d] = @ + (IF ok THEN 1 ELSE 0)]
  /\ UNCHANGED <<status, attempts, wait, claim, sendFaults>>

\* A variant with a budget that is one attempt short.
OutcomeBudgetShort(w) ==
  LET d == sending[w].delivery IN
  status' = [status EXCEPT ![d] = IF sending[w].ok THEN "sent"
                                  ELSE IF claim[w][d] + 1 >= MaxAttempts THEN "failed"
                                  ELSE "pending"]

\* MarkDeliverySent, or MarkDeliveryError with the attempt number of the claim;
\* both write whatever the row's status has become since.
Outcome(w) ==
  LET d == sending[w].delivery IN
  status' = [status EXCEPT ![d] = IF sending[w].ok THEN "sent"
                                  ELSE IF claim[w][d] >= MaxAttempts THEN "failed"
                                  ELSE "pending"]

Done(w) == /\ claim' = [claim EXCEPT ![w][sending[w].delivery] = 0]
           /\ sending' = [sending EXCEPT ![w] = NotSending]

RecordOutcome(w) ==
  /\ sending[w] # NotSending
  /\ Outcome(w)
  /\ Done(w)
  /\ UNCHANGED <<attempts, wait, sendFaults, received>>

\* The transaction that records the outcome fails; the worker goes on.
RecordFails(w) ==
  /\ sending[w] # NotSending
  /\ sendFaults < MaxSendFaults
  /\ sendFaults' = sendFaults + 1
  /\ Done(w)
  /\ UNCHANGED <<status, attempts, wait, received>>

Crash(w) ==
  /\ ~Idle(w)
  /\ sendFaults < MaxSendFaults
  /\ sendFaults' = sendFaults + 1
  /\ claim' = [claim EXCEPT ![w] = NoClaim]
  /\ sending' = [sending EXCEPT ![w] = NotSending]
  /\ UNCHANGED <<status, attempts, wait, received>>

Tick ==
  /\ wait' = [d \in Deliveries |-> IF wait[d] = 0 THEN 0 ELSE wait[d] - 1]
  /\ UNCHANGED <<status, attempts, claim, sending, sendFaults, received>>

SenderStep(w) ==
  \/ ClaimDue(w)
  \/ \E d \in Deliveries, ok \in BOOLEAN : Send(w, d, ok)
  \/ RecordOutcome(w)

OutboxNext ==
  \/ \E d \in Deliveries : Enqueue(d)
  \/ \E w \in Senders : \/ ClaimDue(w)
                        \/ \E d \in Deliveries, ok \in BOOLEAN : Send(w, d, ok)
                        \/ RecordOutcome(w)
                        \/ RecordFails(w)
                        \/ Crash(w)
  \/ Tick

OutboxSpec == OutboxInit /\ [][OutboxNext]_outboxVars

\* Workers tick (a send ends by its timeout) and time passes.
OutboxFairSpec == OutboxSpec /\ WF_outboxVars(Tick) /\ \A w \in Senders : WF_outboxVars(SenderStep(w))

-----------------------------------------------------------------------------
(* Properties.                                                             *)

\* A delivery marked sent was sent: no crash, retry or stale outcome of
\* another worker turns an unsent notification into a sent one.
SentWasReceived == \A d \in Deliveries : status[d] = "sent" => received[d] > 0

\* A delivery is given up only after its whole budget of attempts.
FailedSpentBudget == \A d \in Deliveries : status[d] = "failed" => attempts[d] >= MaxAttempts

\* A claim in hand is one of the row's attempts, and no two workers hold the
\* same attempt: an outcome is recorded for the attempt it belongs to.
ClaimsAreDistinct ==
  \A d \in Deliveries, v \in Senders, w \in Senders :
    /\ claim[w][d] <= attempts[d]
    /\ (v # w /\ claim[w][d] # 0) => claim[v][d] # claim[w][d]

\* "at-least-once, never lost" (worker/alerts.go): where a worker has a Notifier,
\* every enqueued notification is eventually sent or has used up its attempts,
\* unless a delivery has been claimed so often, with no outcome recorded, that
\* its backoff overflows and the claims of the tenant fail from then on.
NeverLost ==
  Wired # {} =>
    \A d \in Deliveries :
      status[d] = "pending" ~> \/ status[d] \in {"sent", "failed"}
                               \/ \E e \in Deliveries : status[e] = "pending" /\ Overflows(e)

\* What ClaimDueDeliveries keeps of the rows and the claims of its workers.
ClaimInv == OutboxTypeOK /\ ClaimsAreDistinct

\* MarkDeliverySent and MarkDeliveryError write over whatever the row has
\* become: still, a row says sent or failed only when it is true.
StatusIsEarned == SentWasReceived /\ FailedSpentBudget
=============================================================================
