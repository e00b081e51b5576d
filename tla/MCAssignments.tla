--------------------------- MODULE MCAssignments ---------------------------
(* Instances of Assignments for TLC: one server with files, and two server *)
(* instances on Redis.                                                     *)
EXTENDS Assignments

CONSTANTS x1, x2, i1, i2, c1, c2

OneTrade == {x1}
TwoTrades == {x1, x2}
NoManual == {}
SecondManual == {x2}
OneInstance == {i1}
TwoInstances == {i1, i2}
OneCall == {c1}
TwoCalls == {c1, c2}
BuyerAutomated == {"buyer"}
BothAutomated == {"seller", "buyer"}
=============================================================================
