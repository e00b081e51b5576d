---------------------------- MODULE MCIssuance ----------------------------
(***************************************************************************)
(* Instances of Issuance for TLC: two request slots, so that every pair of *)
(* handlers interleaves, one or two users, an issuance of one or two chain *)
(* transactions and the notice.                                            *)
(***************************************************************************)
EXTENDS Issuance, TLC

CONSTANTS alice, bob, r1, r2

OneUser == {alice}
TwoUsers == {alice, bob}
MCRequests == {r1, r2}
LoanTerms == {[symbol |-> "A", rate |-> 1]}
TwoLoans == {[symbol |-> "A", rate |-> 1], [symbol |-> "B", rate |-> 1]}
TwoRates == {[symbol |-> "A", rate |-> 1], [symbol |-> "A", rate |-> 2]}
ThreeTerms == TwoRates \cup TwoLoans
NoJobs == {}
Tick == {"tick"}
TickAndConsent == {"tick", "consent"}
NobodyResets == {}

(* Request slots are interchangeable, and so are users when both or none   *)
(* may reset.                                                              *)
Slots == Permutations(MCRequests)
SlotsAndUsers == Permutations(MCRequests) \cup Permutations(TwoUsers)
===========================================================================
