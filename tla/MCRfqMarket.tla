---------------------------- MODULE MCRfqMarket ----------------------------
(* An instance of RfqMarket for TLC: two user desks besides the two        *)
(* automated ones, and two requests in flight.                             *)
EXTENDS RfqMarket

CONSTANTS alice, bob, bot, demo, c1, c2

MCDesks == {alice, bob, bot, demo}
MCCalls == {c1, c2}
(* The demonstration sells, the others buy. *)
BuyOnly == {"buy"}
=============================================================================
