---------------------------- MODULE MCInterest ----------------------------
(* An instance of Interest for TLC: three wallets, batches of one credit.  *)
EXTENDS Interest, TLC

CONSTANTS h1, h2, h3, a1, a2

ThreeWallets == <<h1, h2, h3>>
ThreePars == (h1 :> 1) @@ (h2 :> 2) @@ (h3 :> 0)
TwoRates == (a1 :> 725) @@ (a2 :> 900)
OnePayable == {h1}
TwoAgents == {a1, a2}
===========================================================================
