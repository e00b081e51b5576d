---------------------------- MODULE MCDeskWallet ----------------------------
(* An instance of DeskWallet for TLC: two requests in flight. *)
EXTENDS DeskWallet

CONSTANTS c1, c2

TwoCalls == {c1, c2}
=============================================================================
