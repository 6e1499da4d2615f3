-------------------------- MODULE EnrollmentBudget --------------------------
(***************************************************************************)
(* What an enrollment token promises the operator who issued it: a token   *)
(* issued for n uses admits at most n devices, every use it loses is a     *)
(* device it admitted, and none is admitted once it is closed.  Enrollment *)
(* implements this specification (Enrollment!ImplementsBudget).            *)
(***************************************************************************)
EXTENDS Naturals

CONSTANTS Tokens,    \* enrollment tokens
          Devices,   \* device ids
          Limits     \* the numbers of uses a token can be issued for

VARIABLES left,      \* left[t]: uses token t still has
          admitted,  \* admitted[t]: the devices token t let in
          phase      \* phase[t]: "unissued", "open" or "closed"

vars == <<left, admitted, phase>>

Init == /\ left = [t \in Tokens |-> 0]
        /\ admitted = [t \in Tokens |-> {}]
        /\ phase = [t \in Tokens |-> "unissued"]

Issue(t, n) == /\ phase[t] = "unissued"
               /\ phase' = [phase EXCEPT ![t] = "open"]
               /\ left' = [left EXCEPT ![t] = n]
               /\ UNCHANGED admitted

(* A device is let in by one token only, and never twice. *)
Admit(t, d) == /\ phase[t] = "open"
               /\ left[t] > 0
               /\ \A u \in Tokens : d \notin admitted[u]
               /\ left' = [left EXCEPT ![t] = @ - 1]
               /\ admitted' = [admitted EXCEPT ![t] = @ \cup {d}]
               /\ UNCHANGED phase

(* Several tokens close at once when the site they are for is deleted. *)
Close(T) == /\ \A t \in T : phase[t] = "open"
            /\ phase' = [t \in Tokens |-> IF t \in T THEN "closed" ELSE phase[t]]
            /\ UNCHANGED <<left, admitted>>

Next == \/ \E t \in Tokens, n \in Limits : Issue(t, n)
        \/ \E t \in Tokens, d \in Devices : Admit(t, d)
        \/ \E T \in SUBSET Tokens : Close(T)

Spec == Init /\ [][Next]_vars
=============================================================================
