---------------------------- MODULE MCMembership ----------------------------
(* Instances of Membership for TLC. *)
EXTENDS Membership

CONSTANTS u1, u2, i1, i2, c1, c2

TwoUsers == {u1, u2}
TwoInstances == {i1, i2}
TwoCalls == {c1, c2}
NoDesks == {}
=============================================================================
