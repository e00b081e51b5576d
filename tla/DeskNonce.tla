----------------------------- MODULE DeskNonce -----------------------------
(***************************************************************************)
(* web/src/lib/desk-nonce.ts: which nonce the next transaction of a desk   *)
(* wallet gets.  "Fill the first unreserved nonce, not highest + 1."       *)
(***************************************************************************)
EXTENDS Integers, FiniteSets

(* The statuses of an intent that reserve its nonce; a pending intent past *)
(* its expiry does not, and has status "expired" here.                     *)
Reserving == {"pending", "executed"}

(* nextUnreservedNonce: the loop upwards from the chain's nonce ends at    *)
(* the first number that is free.                                          *)
NextUnreservedNonce(n, chainNonce, reserved) ==
    /\ n \notin reserved
    /\ \A m \in chainNonce..(n - 1) : m \in reserved
(* Where the loop can end: it passes each reserved nonce at most once.      *)
Candidates(chainNonce, reserved) == chainNonce..(chainNonce + Cardinality(reserved))
=============================================================================
