----------------------- MODULE MCSettlementEngine -------------------------
(***************************************************************************)
(* Instances of SettlementEngine for TLC.  Two desks; the loan holder      *)
(* sells.  Par and cash are one or two units, the clock has a handful of   *)
(* seconds, and the margin is 2 with a block lag of 1 (10 and a fraction   *)
(* of a second in the deployed contract).                                  *)
(***************************************************************************)
EXTENDS SettlementEngine

CONSTANTS holder, taker

MCDesks == {holder, taker}

Sell(par, cash, settleAt, expiresAt) ==
    [buyer |-> taker, seller |-> holder, par |-> par, cash |-> cash,
     settleAt |-> settleAt, expiresAt |-> expiresAt]
BuyBack(settleAt, expiresAt) ==
    [buyer |-> holder, seller |-> taker, par |-> 1, cash |-> 1,
     settleAt |-> settleAt, expiresAt |-> expiresAt]

(* One trade in depth: windows that start now or later, a window that ends *)
(* before the margin has passed, and two instructions createTrade rejects. *)
OneInstruction == {Sell(1, 1, 1, 4), Sell(1, 1, 2, 3), Sell(1, 1, 2, 2),
                   [Sell(1, 1, 1, 4) EXCEPT !.buyer = holder]}
OneWindows == {<<1, 4>>, <<3, 5>>, <<0, 0>>}
OneBalance == [tok \in Tokens |->
                 [d \in MCDesks |-> IF (tok = "loan") = (d = holder) THEN 1 ELSE 0]]
(* The seller may withdraw its loan allowance and grant it again; the      *)
(* buyer's KYC may lapse on the loan token and the cash token be paused.   *)
OneGranted == [tok \in Tokens |-> [d \in MCDesks |-> 1]]
OneAllowance == {<<"loan", holder, 0>>, <<"loan", holder, 1>>, <<"cash", taker, 1>>}
OneEligible == {<<"loan", MCDesks>>, <<"loan", {holder}>>,
                <<"cash", MCDesks>>, <<"cash", {}>>}

(* Trades that compete for the same par, and one that gives it back, so    *)
(* that a trade that failed for want of par may succeed when reissued.     *)
TwoInstructions == {Sell(2, 1, 0, 2), Sell(1, 2, 0, 2), BuyBack(0, 2)}
TwoWindows == {<<1, 2>>}
TwoBalance == [tok \in Tokens |->
                 [d \in MCDesks |-> IF (tok = "loan") = (d = holder) THEN 2 ELSE 0]]
TwoGranted == [tok \in Tokens |-> [d \in MCDesks |-> 3]]
TwoAllowance == {}
TwoEligible == {<<"loan", MCDesks>>}

===========================================================================
