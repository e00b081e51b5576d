------------------------------- MODULE DvP --------------------------------
(***************************************************************************)
(* What the settlement engine promises, without its clock, hashes and      *)
(* schedules: a deal has fixed economics from the moment it is proposed,   *)
(* it is exchanged at most once, only while both sides stand behind it,    *)
(* and an exchange moves the loan one way and the cash the other in one    *)
(* step.  Nothing else moves a balance.                                    *)
(***************************************************************************)
EXTENDS Integers

CONSTANTS
    Desks, NoDesk, DealIds,
    Offers,      \* economics that may be proposed
    StartBalance

VARIABLES
    deal,     \* "none", "open", "done" or "dead"
    economics,\* who sells what to whom for how much
    agreed,   \* the sides that stand behind the deal
    holdings  \* holdings[token][desk]

vars == <<deal, economics, agreed, holdings>>

NoEconomics == [buyer |-> NoDesk, seller |-> NoDesk, par |-> 0, cash |-> 0]

Init ==
    /\ deal = [x \in DealIds |-> "none"]
    /\ economics = [x \in DealIds |-> NoEconomics]
    /\ agreed = [x \in DealIds |-> {}]
    /\ holdings = StartBalance

Propose(x, e) ==
    /\ deal[x] = "none"
    /\ {e.buyer, e.seller} \subseteq Desks
    /\ e.buyer # e.seller
    /\ e.par > 0
    /\ e.cash > 0
    /\ deal' = [deal EXCEPT ![x] = "open"]
    /\ economics' = [economics EXCEPT ![x] = e]
    /\ UNCHANGED <<agreed, holdings>>

Agree(x, side) ==
    /\ deal[x] = "open"
    /\ agreed' = [agreed EXCEPT ![x] = @ \cup {side}]
    /\ UNCHANGED <<deal, economics, holdings>>

(* The deal must be agreed afresh. *)
Reopen(x) ==
    /\ deal[x] = "open"
    /\ agreed' = [agreed EXCEPT ![x] = {}]
    /\ UNCHANGED <<deal, economics, holdings>>

Transfer(h, from, to, amount) ==
    [h EXCEPT ![from] = @ - amount, ![to] = @ + amount]

Exchange(x) ==
    LET e == economics[x] IN
    /\ deal[x] = "open"
    /\ agreed[x] = {"buyer", "seller"}
    /\ holdings["loan"][e.seller] >= e.par
    /\ holdings["cash"][e.buyer] >= e.cash
    /\ deal' = [deal EXCEPT ![x] = "done"]
    /\ holdings' = [holdings EXCEPT
          !["loan"] = Transfer(@, e.seller, e.buyer, e.par),
          !["cash"] = Transfer(@, e.buyer, e.seller, e.cash)]
    /\ UNCHANGED <<economics, agreed>>

Abandon(x) ==
    /\ deal[x] = "open"
    /\ deal' = [deal EXCEPT ![x] = "dead"]
    /\ UNCHANGED <<economics, agreed, holdings>>

Next ==
    \E x \in DealIds :
        \/ \E e \in Offers : Propose(x, e)
        \/ \E side \in {"buyer", "seller"} : Agree(x, side)
        \/ Reopen(x)
        \/ Exchange(x)
        \/ Abandon(x)

Spec == Init /\ [][Next]_vars
===========================================================================
