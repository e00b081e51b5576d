--------------------------- MODULE SerialIssuance ---------------------------
(***************************************************************************)
(* What issuing loans from the browser promises, without requests, leases, *)
(* nonces or retries.  One loan is issued at a time.  Its chain steps are  *)
(* taken in order: a step's transaction goes out when every step before it *)
(* has run, runs at most once, and the record moves on when it has run.    *)
(* So the chain is never more than one step ahead of the record, nor the   *)
(* record ahead of the chain.  A loan that failed or was issued never runs *)
(* a transaction again.  A loan may be dropped from the list; what it had  *)
(* sent may still run, and it never comes back.                            *)
(***************************************************************************)
EXTENDS Integers

CONSTANTS
    Loans,
    ChainSteps    \* chain steps of a loan; its rate notice is one more

VARIABLES
    status,       \* "absent", "open", "review", "failed" or "issued"
    confirmed,    \* confirmed[l]: how many steps are recorded as done
    posted,       \* posted[l][s]: transactions that went out for step s
    runs          \* runs[l][s]: how often step s changed the chain

vars == <<status, confirmed, posted, runs>>

Steps == 1..ChainSteps
Never == [s \in Steps |-> 0]

Init ==
    /\ status = [l \in Loans |-> "absent"]
    /\ confirmed = [l \in Loans |-> 0]
    /\ posted = [l \in Loans |-> Never]
    /\ runs = [l \in Loans |-> Never]

(* A new loan, while no other is being issued. *)
Begin(l) ==
    /\ status[l] = "absent"
    /\ posted[l] = Never
    /\ runs[l] = Never
    /\ \A k \in Loans : status[k] # "open"
    /\ status' = [status EXCEPT ![l] = "open"]
    /\ UNCHANGED <<confirmed, posted, runs>>

(* A listed loan works on the first step it has not confirmed. *)
Due(l, s) ==
    /\ status[l] \in {"absent", "open", "review"}
    /\ status[l] # "absent" => s = confirmed[l] + 1

Post(l, s) ==
    /\ Due(l, s)
    /\ posted[l][s] = 0
    /\ \A k \in Steps : k < s => runs[l][k] = 1
    /\ posted' = [posted EXCEPT ![l][s] = 1]
    /\ UNCHANGED <<status, confirmed, runs>>

Run(l, s) ==
    /\ Due(l, s)
    /\ posted[l][s] = 1
    /\ runs[l][s] = 0
    /\ \A k \in Steps : k < s => runs[l][k] = 1
    /\ runs' = [runs EXCEPT ![l][s] = 1]
    /\ UNCHANGED <<status, confirmed, posted>>

(* The last step to confirm is the rate notice, which is not on the chain. *)
Confirm(l) ==
    /\ status[l] = "open"
    /\ confirmed[l] <= ChainSteps
    /\ confirmed[l] < ChainSteps => runs[l][confirmed[l] + 1] = 1
    /\ confirmed' = [confirmed EXCEPT ![l] = @ + 1]
    /\ UNCHANGED <<status, posted, runs>>

Complete(l) ==
    /\ status[l] = "open"
    /\ confirmed[l] = ChainSteps + 1
    /\ \A s \in Steps : runs[l][s] = 1
    /\ status' = [status EXCEPT ![l] = "issued"]
    /\ UNCHANGED <<confirmed, posted, runs>>

(* Its transaction went out and is known never to run. *)
Fail(l) ==
    /\ status[l] = "open"
    /\ confirmed[l] < ChainSteps
    /\ posted[l][confirmed[l] + 1] = 1
    /\ runs[l][confirmed[l] + 1] = 0
    /\ status' = [status EXCEPT ![l] = "failed"]
    /\ UNCHANGED <<confirmed, posted, runs>>

(* The host is to look at it; its transaction may still run. *)
Review(l) ==
    /\ status[l] = "open"
    /\ confirmed[l] < ChainSteps
    /\ status' = [status EXCEPT ![l] = "review"]
    /\ UNCHANGED <<confirmed, posted, runs>>

(* A desk reset drops unfinished loans. *)
Drop(ls) ==
    /\ \A l \in ls : status[l] \in {"open", "review", "failed"}
    /\ status' = [l \in Loans |-> IF l \in ls THEN "absent" ELSE status[l]]
    /\ confirmed' = [l \in Loans |-> IF l \in ls THEN 0 ELSE confirmed[l]]
    /\ UNCHANGED <<posted, runs>>

Next ==
    \/ \E l \in Loans :
          Begin(l) \/ Confirm(l) \/ Complete(l) \/ Fail(l) \/ Review(l)
    \/ \E l \in Loans, s \in Steps : Post(l, s) \/ Run(l, s)
    \/ \E ls \in SUBSET Loans : Drop(ls)

Spec == Init /\ [][Next]_vars
=============================================================================
