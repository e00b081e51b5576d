---------------------- MODULE SettlementEngineProofs ----------------------
(***************************************************************************)
(* Proofs about SettlementEngine for every set of desks, every list of     *)
(* instructions and windows, and every bound.                              *)
(***************************************************************************)
EXTENDS SettlementEngine, FiniteSetTheorems, TLAPS

(* What survives of a trade record when settle or cancel concludes it, and *)
(* what its hash depends on: the two facts most steps below use.           *)
LEMMA ConcludeType ==
    ASSUME TypeOK, NEW id \in TradeIds, NEW outcome \in States \ {"None"},
           trades[id].state # "None", Conclude(id, outcome)
    PROVE  /\ trades' \in [TradeIds -> Trades]
           /\ trades'[id].state = outcome
           /\ trades'[id].schedule = 0
           /\ \A x \in TradeIds \ {id} : trades'[x] = trades[x]
           /\ \A x \in TradeIds : trades'[x].terms = trades[x].terms
           /\ \A x \in TradeIds : trades'[x].approved = trades[x].approved
           /\ \A x \in TradeIds : trades'[x].state # "None" <=> trades[x].state # "None"
  <1>1. trades[id] \in Trades
    BY DEF TypeOK
  <1>2. trades' = [trades EXCEPT ![id] = [trades[id] EXCEPT !.state = outcome, !.schedule = 0]]
    BY <1>1 DEF Conclude, TypeOK, Trades
  <1>3. [trades[id] EXCEPT !.state = outcome, !.schedule = 0] \in Trades
    BY <1>1 DEF Trades
  <1>4. QED
    BY <1>1, <1>2, <1>3 DEF TypeOK, Trades

(* Moving both legs keeps balances and allowances natural numbers, because *)
(* each leg was checked against both and buyer and seller differ.          *)
LEMMA ExecuteLegsType ==
    ASSUME TypeOK, NEW id \in TradeIds, trades[id].state # "None",
           LegsSucceed(trades[id].terms), ExecuteLegs(trades[id].terms)
    PROVE  /\ balance' \in [Tokens -> [Desks -> Nat]]
           /\ allowance' \in [Tokens -> [Desks -> Nat]]
  <1> DEFINE t == trades[id].terms
  <1>1. /\ t.buyer \in Desks /\ t.seller \in Desks /\ t.buyer # t.seller
        /\ t.par \in Nat /\ t.cash \in Nat
    BY DEF TypeOK, Trades, Terms
  <1>2. /\ t.par <= balance["loan"][t.seller] /\ t.par <= allowance["loan"][t.seller]
        /\ t.cash <= balance["cash"][t.buyer] /\ t.cash <= allowance["cash"][t.buyer]
    BY DEF LegsSucceed, TransferAllowed
  <1>3. /\ balance \in [Tokens -> [Desks -> Nat]]
        /\ allowance \in [Tokens -> [Desks -> Nat]]
    BY DEF TypeOK
  <1>4. \A bal \in [Desks -> Nat], from \in Desks, to \in Desks, n \in Nat :
            (from # to /\ n <= bal[from]) => Moved(bal, from, to, n) \in [Desks -> Nat]
    BY DEF Moved
  <1>5. /\ Moved(balance["loan"], t.seller, t.buyer, t.par) \in [Desks -> Nat]
        /\ Moved(balance["cash"], t.buyer, t.seller, t.cash) \in [Desks -> Nat]
    BY <1>1, <1>2, <1>3, <1>4 DEF Tokens
  <1>6. balance' \in [Tokens -> [Desks -> Nat]]
    BY <1>3, <1>5 DEF ExecuteLegs, Tokens
  <1>7. allowance' \in [Tokens -> [Desks -> Nat]]
    <2>1. /\ [allowance["loan"] EXCEPT ![t.seller] = @ - t.par] \in [Desks -> Nat]
          /\ [allowance["cash"] EXCEPT ![t.buyer] = @ - t.cash] \in [Desks -> Nat]
      BY <1>1, <1>2, <1>3 DEF Tokens
    <2> QED BY <1>3, <2>1 DEF ExecuteLegs, Tokens
  <1>8. QED
    BY <1>6, <1>7

(* Either way settle concludes a trade, balances and allowances stay       *)
(* natural numbers and the trade records keep their form.                  *)
LEMMA SettleBodyType ==
    ASSUME TypeOK, NEW id \in TradeIds, Settleable(id), SettleBody(id)
    PROVE  /\ trades' \in [TradeIds -> Trades]
           /\ \A x \in TradeIds : trades'[x].terms = trades[x].terms
           /\ \A x \in TradeIds : trades'[x].approved = trades[x].approved
           /\ \A x \in TradeIds : trades'[x].state # "None" <=> trades[x].state # "None"
           /\ balance' \in [Tokens -> [Desks -> Nat]]
           /\ allowance' \in [Tokens -> [Desks -> Nat]]
           /\ \A x \in TradeIds \ {id} : trades'[x] = trades[x]
           /\ trades'[id].schedule = 0
           /\ \/ /\ trades'[id].state = "Settled"
                 /\ LegsSucceed(trades[id].terms)
                 /\ ExecuteLegs(trades[id].terms)
              \/ /\ trades'[id].state = "Failed"
                 /\ ~LegsSucceed(trades[id].terms)
                 /\ balance' = balance
  <1>1. trades[id].state # "None" /\ {"Settled", "Failed"} \subseteq States \ {"None"}
    BY DEF Settleable, States
  <1> trades[id] \in Trades
    BY DEF TypeOK
  <1>2. CASE LegsSucceed(trades[id].terms) /\ ExecuteLegs(trades[id].terms)
             /\ Conclude(id, "Settled")
    <2>1. Conclude(id, "Settled") /\ "Settled" \in States \ {"None"}
      BY <1>1, <1>2
    <2>2. /\ trades' \in [TradeIds -> Trades]
          /\ trades'[id].state = "Settled"
          /\ trades'[id].schedule = 0
          /\ \A x \in TradeIds \ {id} : trades'[x] = trades[x]
          /\ \A x \in TradeIds : trades'[x].terms = trades[x].terms
          /\ \A x \in TradeIds : trades'[x].approved = trades[x].approved
          /\ \A x \in TradeIds : trades'[x].state # "None" <=> trades[x].state # "None"
      BY <1>1, <2>1, ConcludeType
    <2>3. /\ balance' \in [Tokens -> [Desks -> Nat]]
          /\ allowance' \in [Tokens -> [Desks -> Nat]]
      BY <1>1, <1>2, ExecuteLegsType
    <2>4. QED
      BY <1>2, <2>2, <2>3
  <1>3. CASE /\ ~LegsSucceed(trades[id].terms)
             /\ Conclude(id, "Failed") /\ UNCHANGED <<balance, allowance>>
    BY <1>1, <1>3, ConcludeType DEF TypeOK
  <1>4. QED
    BY <1>2, <1>3 DEF SettleBody

(* Type correctness: in particular no token balance or allowance is ever   *)
(* driven below zero, and every trade that exists has two distinct desks.  *)
THEOREM TypeCorrect == Spec => []TypeOK
  <1>1. Init => TypeOK
    <2> SUFFICES ASSUME Init PROVE TypeOK
      OBVIOUS
    <2>1. NoTrade \in Trades /\ NoHash \in Hashes /\ NoTrade.state = "None"
      BY DEF NoTrade, Trades, NoTerms, Terms, States, NoHash, Hashes
    <2>2. 1 \in 1..(MaxTrades + 1)
      BY ConstantsAssumption
    <2>3. QED
      BY <2>1, <2>2, ConstantsAssumption DEF Init, TypeOK
  <1>2. TypeOK /\ [Next]_vars => TypeOK'
    <2> SUFFICES ASSUME TypeOK, [Next]_vars PROVE TypeOK'
      OBVIOUS
    <2>1. ASSUME NEW i \in Instructions, CreateTrade(i) PROVE TypeOK'
      <3>1. i \in Terms /\ i.buyer \in Desks /\ i.seller \in Desks /\ i.buyer # i.seller
        BY <2>1, ConstantsAssumption DEF CreateTrade, ValidInstruction, Terms
      <3>2. [NoTrade EXCEPT !.state = "AwaitingApprovals", !.terms = i] \in Trades
        BY <3>1 DEF NoTrade, NoTerms, Trades, States
      <3>3. nextTradeId' \in 1..(MaxTrades + 1)
        BY <2>1, ConstantsAssumption DEF CreateTrade, TradeIds, TypeOK
      <3>4. trades' \in [TradeIds -> Trades]
        BY <2>1, <3>2 DEF CreateTrade, TypeOK
      <3>5. \A id \in TradeIds : trades'[id].state # "None" =>
                /\ trades'[id].terms.buyer \in Desks
                /\ trades'[id].terms.seller \in Desks
                /\ trades'[id].terms.buyer # trades'[id].terms.seller
        BY <2>1, <3>1 DEF CreateTrade, TypeOK, NoTrade
      <3>6. QED
        BY <2>1, <3>3, <3>4, <3>5 DEF CreateTrade, TypeOK, tokenVars, hssVars
    <2>2. ASSUME NEW id \in TradeIds, NEW d \in Desks, SignApproval(id, d) PROVE TypeOK'
      <3>1. Hash(id) \in Hashes
        BY DEF TypeOK, Trades, Hash, Hashes, TradeIds
      <3>2. QED
        BY <2>2, <3>1 DEF SignApproval, TypeOK, engineVars, tokenVars, hssVars
    <2>3. ASSUME NEW m \in signed, Approve(m) PROVE TypeOK'
      <3> DEFINE t == trades[m.id]
      <3>1. m.id \in TradeIds /\ m.hash \in Hashes /\ t \in Trades
        BY DEF TypeOK
      <3>2. PICK side \in Sides :
              /\ t.state = "AwaitingApprovals"
              /\ bound' = [bound EXCEPT ![m.id][side] = m.hash]
              /\ \/ /\ trades' = [trades EXCEPT ![m.id].approved = @ \cup {side}]
                    /\ UNCHANGED hssVars
                 \/ \/ ScheduleAccepted(m.id, [t EXCEPT !.approved = Sides, !.state = "Scheduled"])
                    \/ ScheduleUnavailable(m.id, [t EXCEPT !.approved = Sides, !.state = "Scheduled"])
        BY <2>3, Zenon DEF Approve
      <3>3. bound' \in [TradeIds -> [Sides -> Hashes]]
        BY <3>1, <3>2 DEF TypeOK
      <3>4. UNCHANGED <<now, nextTradeId, balance, allowance, eligible>> /\ signed' \subseteq signed
        BY <2>3 DEF Approve, tokenVars
      <3> DEFINE both == [t EXCEPT !.approved = Sides, !.state = "Scheduled"]
      <3>5. /\ trades' \in [TradeIds -> Trades]
            /\ \A x \in TradeIds : trades'[x].terms = trades[x].terms
            /\ \A x \in TradeIds : trades'[x].state # "None" => trades[x].state # "None"
            /\ hssCount' \in Nat
            /\ pending' \subseteq [addr : Nat, id : TradeIds, expiry : Nat]
        <4>1. both \in Trades /\ both.terms = t.terms
          BY <3>1 DEF Trades, States
        <4>2. CASE trades' = [trades EXCEPT ![m.id].approved = @ \cup {side}] /\ UNCHANGED hssVars
          BY <3>1, <4>2 DEF TypeOK, Trades, hssVars
        <4>3. CASE ScheduleAccepted(m.id, both)
          <5>1. hssCount + 1 \in Nat
            BY DEF TypeOK
          <5>2. [both EXCEPT !.schedule = hssCount + 1] \in Trades
            BY <4>1, <5>1 DEF Trades
          <5>3. ScheduleExpiry(both.terms) \in Nat
            BY <4>1, MarginAssumption DEF ScheduleExpiry, Trades, Terms, TypeOK
          <5>4. QED
            BY <3>1, <3>2, <4>1, <4>3, <5>1, <5>2, <5>3 DEF ScheduleAccepted, TypeOK, Trades
        <4>4. CASE ScheduleUnavailable(m.id, both)
          BY <3>1, <3>2, <4>1, <4>4 DEF ScheduleUnavailable, TypeOK, hssVars, Trades
        <4>5. QED
          BY <3>2, <4>2, <4>3, <4>4
      <3>6. QED
        BY <3>3, <3>4, <3>5 DEF TypeOK
    <2>4. ASSUME NEW id \in TradeIds, Settle(id) PROVE TypeOK'
      BY <2>4, SettleBodyType DEF Settle, TypeOK, hssVars
    <2>5. ASSUME NEW s \in pending, NetworkExecutes(s) PROVE TypeOK'
      <3>1. s.id \in TradeIds
        BY DEF TypeOK
      <3>2. CASE Settleable(s.id) /\ SettleBody(s.id)
        BY <2>5, <3>1, <3>2, SettleBodyType DEF NetworkExecutes, TypeOK
      <3>3. CASE UNCHANGED <<trades, balance, allowance>>
        BY <2>5, <3>3 DEF NetworkExecutes, TypeOK
      <3>4. QED
        BY <2>5, <3>2, <3>3 DEF NetworkExecutes
    <2>6. ASSUME NEW id \in TradeIds, NEW caller \in Desks \cup {Venue}, NEW w \in Windows,
                 Reissue(id, caller, w)
          PROVE TypeOK'
      <3> DEFINE t == trades[id]
      <3>1. w[1] \in Nat /\ w[2] \in Nat /\ t \in Trades /\ t.state = "Failed"
        BY <2>6, ConstantsAssumption DEF TypeOK, Reissue
      <3> DEFINE new == [t EXCEPT !.state = "AwaitingApprovals", !.approved = {},
                            !.terms = [t.terms EXCEPT !.settleAt = w[1], !.expiresAt = w[2]]]
      <3>2. new \in Trades /\ new.terms.buyer = t.terms.buyer /\ new.terms.seller = t.terms.seller
        BY <3>1 DEF Trades, Terms, States
      <3>3. trades' = [trades EXCEPT ![id] = new]
        BY <2>6, <3>1 DEF Reissue, TypeOK, Trades
      <3> HIDE DEF new
      <3>4. trades' \in [TradeIds -> Trades]
        BY <3>2, <3>3 DEF TypeOK
      <3>5. \A x \in TradeIds : trades'[x].state # "None" =>
                /\ trades'[x].terms.buyer \in Desks
                /\ trades'[x].terms.seller \in Desks
                /\ trades'[x].terms.buyer # trades'[x].terms.seller
        BY <3>1, <3>2, <3>3 DEF TypeOK
      <3>6. QED
        BY <2>6, <3>4, <3>5 DEF Reissue, TypeOK, tokenVars, hssVars
    <2>7. ASSUME NEW id \in TradeIds, NEW caller \in Desks \cup {Venue}, Cancel(id, caller)
          PROVE TypeOK'
      <3>1. "Cancelled" \in States \ {"None"} /\ trades[id].state # "None"
        BY <2>7 DEF States, Cancel
      <3>2. QED
        BY <2>7, <3>1, ConcludeType DEF Cancel, TypeOK, tokenVars
    <2>8. ASSUME NEW c \in AllowanceChoices, SetAllowance(c[1], c[2], c[3]) PROVE TypeOK'
      <3>1. c[1] \in Tokens /\ c[2] \in Desks /\ c[3] \in Nat
        BY ConstantsAssumption
      <3>2. QED
        BY <2>8, <3>1 DEF SetAllowance, TypeOK, engineVars, hssVars
    <2>9. ASSUME NEW c \in EligibleChoices, SetEligible(c[1], c[2]) PROVE TypeOK'
      <3>1. c[1] \in Tokens /\ c[2] \in SUBSET Desks
        BY ConstantsAssumption
      <3>2. QED
        BY <2>9, <3>1 DEF SetEligible, TypeOK, engineVars, hssVars
    <2>10. CASE Tick
      BY <2>10 DEF Tick, TypeOK, engineVars, tokenVars, hssVars
    <2>11. CASE UNCHANGED vars
      BY <2>11 DEF vars, TypeOK
    <2>12. QED
      BY <2>1, <2>2, <2>3, <2>4, <2>5, <2>6, <2>7, <2>8, <2>9, <2>10, <2>11 DEF Next
  <1>3. QED
    BY <1>1, <1>2, PTL DEF Spec

---------------------------------------------------------------------------
(* Consent.  ConsentToFinalTerms is not inductive: an approval counts long *)
(* before the trade is Scheduled, so the invariant speaks of every side    *)
(* that has approved in the current round, whatever the state.             *)

ConsentInv ==
    \A id \in TradeIds :
        /\ \A side \in trades[id].approved : bound[id][side] = Hash(id)
        /\ trades[id].state \in {"Scheduled", "Settled"} => trades[id].approved = Sides
        /\ trades[id].state = "None" => trades[id].approved = {}

(* An approval that reaches a block binds exactly the terms it was signed  *)
(* for and disturbs no other trade.                                        *)
LEMMA ApproveEffect ==
    ASSUME TypeOK, NEW m \in signed, Approve(m)
    PROVE  \E side \in Sides :
             LET id == m.id IN
             /\ id \in TradeIds
             /\ trades[id].state = "AwaitingApprovals"
             /\ m.hash = Hash(id)
             /\ bound' = [bound EXCEPT ![id][side] = m.hash]
             /\ trades' \in [TradeIds -> Trades]
             /\ \A x \in TradeIds : trades'[x].terms = trades[x].terms
             /\ \A x \in TradeIds \ {id} : trades'[x] = trades[x]
             /\ trades'[id].approved = trades[id].approved \cup {side}
             /\ trades'[id].state \in {"AwaitingApprovals", "Scheduled"}
             /\ trades'[id].state = "Scheduled" => trades'[id].approved = Sides
             /\ balance' = balance
             /\ \/ UNCHANGED hssVars /\ trades'[id].schedule = trades[id].schedule
                \/ /\ trades'[id].schedule = hssCount + 1
                   /\ trades'[id].state = "Scheduled"
                   /\ hssCount' = hssCount + 1
                   /\ pending' = pending \cup
                        {[addr |-> hssCount + 1, id |-> id,
                          expiry |-> ScheduleExpiry(trades[id].terms)]}
  <1> DEFINE t == trades[m.id]
             both == [t EXCEPT !.approved = Sides, !.state = "Scheduled"]
  <1>1. m.id \in TradeIds /\ t \in Trades
    BY DEF TypeOK
  <1>2. PICK side \in Sides :
          /\ t.state = "AwaitingApprovals"
          /\ m.hash = Hash(m.id)
          /\ bound' = [bound EXCEPT ![m.id][side] = m.hash]
          /\ \/ /\ trades' = [trades EXCEPT ![m.id].approved = @ \cup {side}]
                /\ UNCHANGED hssVars
             \/ /\ t.approved \cup {side} = Sides
                /\ ScheduleAccepted(m.id, both) \/ ScheduleUnavailable(m.id, both)
    BY Zenon DEF Approve, MatchesTerms
  <1>3. balance' = balance
    BY DEF Approve, MatchesTerms, tokenVars
  <1>4. /\ both \in Trades /\ both.terms = t.terms /\ both.approved = Sides
        /\ both.state = "Scheduled" /\ both.schedule = t.schedule
    BY <1>1 DEF Trades, States
  <1>5. CASE trades' = [trades EXCEPT ![m.id].approved = @ \cup {side}] /\ UNCHANGED hssVars
    <2> DEFINE more == [t EXCEPT !.approved = @ \cup {side}]
    <2>1. /\ more \in Trades /\ more.terms = t.terms /\ more.state = t.state
          /\ more.approved = t.approved \cup {side} /\ more.schedule = t.schedule
      BY <1>1 DEF Trades
    <2>2. trades' = [trades EXCEPT ![m.id] = more]
      BY <1>5
    <2> HIDE DEF more
    <2>3. trades'[m.id] = more /\ \A x \in TradeIds \ {m.id} : trades'[x] = trades[x]
      BY <1>1, <2>2 DEF TypeOK
    <2>4. trades' \in [TradeIds -> Trades] /\ \A x \in TradeIds : trades'[x].terms = trades[x].terms
      BY <2>1, <2>2, <2>3 DEF TypeOK
    <2>5. QED
      BY <1>1, <1>2, <1>3, <1>5, <2>1, <2>3, <2>4
  <1>6. CASE t.approved \cup {side} = Sides /\ ScheduleAccepted(m.id, both)
    <2> DEFINE sched == [both EXCEPT !.schedule = hssCount + 1]
    <2> HIDE DEF both
    <2>0. hssCount + 1 \in Nat
      BY DEF TypeOK
    <2>1. /\ sched \in Trades /\ sched.terms = t.terms /\ sched.state = "Scheduled"
          /\ sched.approved = Sides /\ sched.schedule = hssCount + 1
      BY <1>4, <2>0 DEF Trades
    <2>2. /\ trades' = [trades EXCEPT ![m.id] = sched]
          /\ hssCount' = hssCount + 1
          /\ pending' = pending \cup {[addr |-> hssCount + 1, id |-> m.id,
                                        expiry |-> ScheduleExpiry(t.terms)]}
      BY <1>4, <1>6 DEF ScheduleAccepted
    <2> HIDE DEF sched
    <2>3. trades'[m.id] = sched /\ \A x \in TradeIds \ {m.id} : trades'[x] = trades[x]
      BY <1>1, <2>2 DEF TypeOK
    <2>4. trades' \in [TradeIds -> Trades] /\ \A x \in TradeIds : trades'[x].terms = trades[x].terms
      BY <2>1, <2>2, <2>3 DEF TypeOK
    <2>5. QED
      BY <1>1, <1>2, <1>3, <1>6, <2>1, <2>2, <2>3, <2>4
  <1>7. CASE t.approved \cup {side} = Sides /\ ScheduleUnavailable(m.id, both)
    <2>1. trades' = [trades EXCEPT ![m.id] = both] /\ UNCHANGED hssVars
      BY <1>7 DEF ScheduleUnavailable
    <2> HIDE DEF both
    <2>2. trades'[m.id] = both /\ \A x \in TradeIds \ {m.id} : trades'[x] = trades[x]
      BY <1>1, <2>1 DEF TypeOK
    <2>3. trades' \in [TradeIds -> Trades] /\ \A x \in TradeIds : trades'[x].terms = trades[x].terms
      BY <1>4, <2>1, <2>2 DEF TypeOK
    <2>4. QED
      BY <1>1, <1>2, <1>3, <1>4, <1>7, <2>1, <2>2, <2>3
  <1>8. QED
    BY <1>2, <1>5, <1>6, <1>7

(* An approval is recorded with the terms it was given for, and no step    *)
(* changes terms without clearing the approvals given for them.            *)
LEMMA ConsentStep == TypeOK /\ ConsentInv /\ [Next]_vars => ConsentInv'
  <1> SUFFICES ASSUME TypeOK, ConsentInv, [Next]_vars PROVE ConsentInv'
    OBVIOUS
  <1>1. ASSUME NEW i \in Instructions, CreateTrade(i) PROVE ConsentInv'
    BY <1>1 DEF CreateTrade, ConsentInv, NoTrade, TypeOK, Hash
  <1>2. ASSUME NEW id \in TradeIds, NEW d \in Desks, SignApproval(id, d) PROVE ConsentInv'
    BY <1>2 DEF SignApproval, ConsentInv, engineVars, Hash
  <1>3. ASSUME NEW m \in signed, Approve(m) PROVE ConsentInv'
    <2>1. PICK side \in Sides :
           /\ m.id \in TradeIds
           /\ m.hash = Hash(m.id)
           /\ bound' = [bound EXCEPT ![m.id][side] = m.hash]
           /\ \A x \in TradeIds : trades'[x].terms = trades[x].terms
           /\ \A x \in TradeIds \ {m.id} : trades'[x] = trades[x]
           /\ trades'[m.id].approved = trades[m.id].approved \cup {side}
           /\ trades'[m.id].state \in {"AwaitingApprovals", "Scheduled"}
           /\ trades'[m.id].state = "Scheduled" => trades'[m.id].approved = Sides
      BY <1>3, ApproveEffect
    <2>2. \A x \in TradeIds : Hash(x)' = Hash(x)
      BY <2>1 DEF Hash
    <2>3. \A x \in TradeIds : \A other \in Sides :
            other \in trades'[x].approved => bound'[x][other] = Hash(x)'
      BY <2>1, <2>2 DEF ConsentInv, TypeOK
    <2>4. \A x \in TradeIds : trades'[x].approved \subseteq Sides
      BY <2>1 DEF TypeOK, Trades
    <2>5. QED
      BY <2>1, <2>3, <2>4 DEF ConsentInv
  <1>4. ASSUME NEW id \in TradeIds, Settleable(id), SettleBody(id), UNCHANGED bound
        PROVE ConsentInv'
    <2>1. trades[id].state = "Scheduled"
      BY <1>4 DEF Settleable
    <2>2. QED
      BY <1>4, <2>1, SettleBodyType DEF ConsentInv, Hash
  <1>5. ASSUME NEW id \in TradeIds, Settle(id) PROVE ConsentInv'
    BY <1>4, <1>5 DEF Settle
  <1>6. ASSUME NEW s \in pending, NetworkExecutes(s) PROVE ConsentInv'
    <2>1. s.id \in TradeIds
      BY DEF TypeOK
    <2>2. CASE Settleable(s.id) /\ SettleBody(s.id)
      BY <1>4, <1>6, <2>1, <2>2 DEF NetworkExecutes
    <2>3. CASE UNCHANGED trades
      BY <1>6, <2>3 DEF NetworkExecutes, ConsentInv, Hash
    <2>4. QED
      BY <1>6, <2>2, <2>3 DEF NetworkExecutes
  <1>7. ASSUME NEW id \in TradeIds, NEW caller \in Desks \cup {Venue}, NEW w \in Windows,
               Reissue(id, caller, w)
        PROVE ConsentInv'
    <2>1. trades[id] \in Trades
      BY DEF TypeOK
    <2>2. /\ trades'[id].approved = {} /\ trades'[id].state = "AwaitingApprovals"
          /\ \A x \in TradeIds \ {id} : trades'[x] = trades[x]
          /\ bound' = bound
      BY <1>7, <2>1 DEF Reissue, TypeOK, Trades
    <2>3. QED
      BY <2>2 DEF ConsentInv, Hash
  <1>8. ASSUME NEW id \in TradeIds, NEW caller \in Desks \cup {Venue}, Cancel(id, caller)
        PROVE ConsentInv'
    <2>1. "Cancelled" \in States \ {"None"} /\ trades[id].state # "None"
      BY <1>8 DEF States, Cancel
    <2>2. /\ \A x \in TradeIds : trades'[x].terms = trades[x].terms
          /\ \A x \in TradeIds : trades'[x].approved = trades[x].approved
          /\ \A x \in TradeIds \ {id} : trades'[x] = trades[x]
          /\ bound' = bound
      BY <1>8, <2>1, ConcludeType DEF Cancel
    <2>3. trades'[id].state = "Cancelled"
      BY <1>8, <2>1, ConcludeType DEF Cancel
    <2>4. QED
      BY <2>2, <2>3 DEF ConsentInv, Hash
  <1>9. ASSUME UNCHANGED <<trades, bound>> PROVE ConsentInv'
    BY <1>9 DEF ConsentInv, Hash
  <1>10. QED
    BY <1>1, <1>2, <1>3, <1>5, <1>6, <1>7, <1>8, <1>9
       DEF Next, SetAllowance, SetEligible, Tick, vars, engineVars

(* The inductive invariant behind consent holds in every behaviour.        *)
LEMMA ConsentInvariant == Spec => []ConsentInv
  <1>1. Init => ConsentInv
    BY DEF Init, ConsentInv, NoTrade
  <1>2. QED
    BY <1>1, ConsentStep, TypeCorrect, PTL DEF Spec

(* Each side of a trade that may settle, or has, approved exactly its      *)
(* final terms.                                                            *)
THEOREM ConsentSafety == Spec => []ConsentToFinalTerms
  <1>1. ConsentInv => ConsentToFinalTerms
    BY DEF ConsentInv, ConsentToFinalTerms
  <1>2. QED
    BY <1>1, ConsentInvariant, PTL

---------------------------------------------------------------------------
(* Schedules.  Addresses are handed out in order, so the address HSS gives *)
(* next is in no trade and on no pending schedule.                         *)

ScheduleInv ==
    /\ \A s \in pending : s.addr \in 1..hssCount
    /\ \A id \in TradeIds :
          /\ trades[id].schedule <= hssCount
          /\ trades[id].schedule # 0 => trades[id].state = "Scheduled"
          /\ \A other \in TradeIds \ {id} :
                trades[id].schedule # 0 => trades[other].schedule # trades[id].schedule
          /\ \A s \in pending : s.addr = trades[id].schedule =>
                s.id = id /\ s.expiry - BlockLag >= trades[id].terms.settleAt

(* The step that concludes a trade gives its address up and only shrinks   *)
(* the set of pending schedules.                                           *)
LEMMA ConcludedScheduleInv ==
    ASSUME TypeOK, ScheduleInv, NEW id \in TradeIds,
           trades'[id].schedule = 0,
           \A x \in TradeIds \ {id} : trades'[x] = trades[x],
           pending' \subseteq pending, hssCount' = hssCount
    PROVE  ScheduleInv'
  <1>1. hssCount \in Nat
    BY DEF TypeOK
  <1>2. \A s \in pending' : s.addr \in 1..hssCount'
    BY DEF ScheduleInv
  <1>3. \A s \in pending' : s.addr # 0
    BY <1>1, <1>2
  <1>4. ASSUME NEW x \in TradeIds
        PROVE  /\ trades'[x].schedule <= hssCount'
               /\ trades'[x].schedule # 0 => trades'[x].state = "Scheduled"
               /\ \A other \in TradeIds \ {x} :
                     trades'[x].schedule # 0 => trades'[other].schedule # trades'[x].schedule
               /\ \A s \in pending' : s.addr = trades'[x].schedule =>
                     s.id = x /\ s.expiry - BlockLag >= trades'[x].terms.settleAt
    BY <1>1, <1>3 DEF ScheduleInv
  <1>5. QED
    BY <1>2, <1>4 DEF ScheduleInv

(* The inductive step: what the network holds and what the trades record   *)
(* stay in agreement.                                                      *)
LEMMA ScheduleStep == TypeOK /\ ScheduleInv /\ [Next]_vars => ScheduleInv'
  <1> SUFFICES ASSUME TypeOK, ScheduleInv, [Next]_vars PROVE ScheduleInv'
    OBVIOUS
  <1>1. ASSUME NEW i \in Instructions, CreateTrade(i) PROVE ScheduleInv'
    <2>1. nextTradeId \in TradeIds /\ trades'[nextTradeId].schedule = 0
      BY <1>1 DEF CreateTrade, TypeOK, NoTrade
    <2>2. \A x \in TradeIds \ {nextTradeId} : trades'[x] = trades[x]
      BY <1>1 DEF CreateTrade, TypeOK
    <2>3. QED
      BY <1>1, <2>1, <2>2, ConcludedScheduleInv DEF CreateTrade, hssVars
  <1>2. ASSUME NEW m \in signed, Approve(m) PROVE ScheduleInv'
    <2> DEFINE id == m.id
    <2>1. /\ id \in TradeIds
          /\ trades[id].state = "AwaitingApprovals"
          /\ trades' \in [TradeIds -> Trades]
          /\ \A x \in TradeIds : trades'[x].terms = trades[x].terms
          /\ \A x \in TradeIds \ {id} : trades'[x] = trades[x]
          /\ \/ UNCHANGED hssVars /\ trades'[id].schedule = trades[id].schedule
             \/ /\ trades'[id].schedule = hssCount + 1
                /\ trades'[id].state = "Scheduled"
                /\ hssCount' = hssCount + 1
                /\ pending' = pending \cup
                     {[addr |-> hssCount + 1, id |-> id,
                       expiry |-> ScheduleExpiry(trades[id].terms)]}
      BY <1>2, ApproveEffect
    <2>2. trades[id].schedule = 0
      BY <2>1 DEF ScheduleInv
    <2>3. CASE UNCHANGED hssVars /\ trades'[id].schedule = trades[id].schedule
      BY <2>1, <2>2, <2>3, ConcludedScheduleInv DEF hssVars
    <2>4. CASE /\ trades'[id].schedule = hssCount + 1
               /\ trades'[id].state = "Scheduled"
               /\ hssCount' = hssCount + 1
               /\ pending' = pending \cup
                    {[addr |-> hssCount + 1, id |-> id,
                      expiry |-> ScheduleExpiry(trades[id].terms)]}
      <3> DEFINE new == [addr |-> hssCount + 1, id |-> id,
                         expiry |-> ScheduleExpiry(trades[id].terms)]
      <3>1. /\ hssCount \in Nat /\ now \in Nat
            /\ \A x \in TradeIds : trades[x].schedule \in Nat /\ trades[x].terms.settleAt \in Nat
        BY DEF TypeOK, Trades, Terms
      <3>2. new.addr = hssCount + 1 /\ new.id = id
            /\ new.expiry - BlockLag >= trades[id].terms.settleAt
        BY <2>1, <3>1, MarginAssumption DEF ScheduleExpiry
      <3>3. \A s \in pending : s.addr \in 1..hssCount
        BY DEF ScheduleInv
      <3>4. pending' = pending \cup {new}
        BY <2>4
      <3> HIDE DEF new
      <3>5. \A s \in pending' : s.addr \in 1..hssCount'
        BY <2>4, <3>1, <3>2, <3>3, <3>4
      <3>6. ASSUME NEW x \in TradeIds
            PROVE  /\ trades'[x].schedule <= hssCount'
                   /\ trades'[x].schedule # 0 => trades'[x].state = "Scheduled"
                   /\ \A other \in TradeIds \ {x} :
                        trades'[x].schedule # 0 => trades'[other].schedule # trades'[x].schedule
        BY <2>1, <2>4, <3>1 DEF ScheduleInv
      <3>7. ASSUME NEW x \in TradeIds, NEW s \in pending', s.addr = trades'[x].schedule
            PROVE  s.id = x /\ s.expiry - BlockLag >= trades'[x].terms.settleAt
        <4>1. CASE x = id
          BY <2>1, <2>4, <3>1, <3>2, <3>3, <3>4, <3>7, <4>1
        <4>2. CASE x # id
          <5>1. trades'[x] = trades[x] /\ trades[x].schedule <= hssCount
            BY <2>1, <4>2 DEF ScheduleInv
          <5>2. s \in pending
            BY <3>1, <3>2, <3>4, <3>7, <5>1
          <5>3. QED
            BY <3>7, <5>1, <5>2 DEF ScheduleInv
        <4>3. QED
          BY <4>1, <4>2
      <3>8. QED
        BY <3>5, <3>6, <3>7 DEF ScheduleInv
    <2>5. QED
      BY <2>1, <2>3, <2>4
  <1>3. ASSUME NEW id \in TradeIds, Settleable(id), SettleBody(id),
               pending' \subseteq pending, hssCount' = hssCount
        PROVE  ScheduleInv'
    BY <1>3, SettleBodyType, ConcludedScheduleInv
  <1>4. ASSUME NEW id \in TradeIds, Settle(id) PROVE ScheduleInv'
    BY <1>3, <1>4 DEF Settle, hssVars
  <1>5. ASSUME NEW s \in pending, NetworkExecutes(s) PROVE ScheduleInv'
    <2>1. s.id \in TradeIds /\ pending' \subseteq pending /\ hssCount' = hssCount
      BY <1>5 DEF TypeOK, NetworkExecutes
    <2>2. CASE Settleable(s.id) /\ SettleBody(s.id)
      BY <1>3, <2>1, <2>2
    <2>3. CASE UNCHANGED trades
      BY <2>1, <2>3 DEF ScheduleInv
    <2>4. QED
      BY <1>5, <2>2, <2>3 DEF NetworkExecutes
  <1>6. ASSUME NEW id \in TradeIds, NEW caller \in Desks \cup {Venue}, NEW w \in Windows,
               Reissue(id, caller, w)
        PROVE  ScheduleInv'
    <2>1. trades[id] \in Trades /\ trades[id].schedule = 0
      BY <1>6 DEF TypeOK, Reissue, ScheduleInv
    <2>2. trades'[id].schedule = 0 /\ \A x \in TradeIds \ {id} : trades'[x] = trades[x]
      BY <1>6, <2>1 DEF Reissue, TypeOK, Trades
    <2>3. QED
      BY <1>6, <2>2, ConcludedScheduleInv DEF Reissue, hssVars
  <1>7. ASSUME NEW id \in TradeIds, NEW caller \in Desks \cup {Venue}, Cancel(id, caller)
        PROVE  ScheduleInv'
    <2>1. "Cancelled" \in States \ {"None"} /\ trades[id].state # "None"
      BY <1>7 DEF States, Cancel
    <2>2. trades'[id].schedule = 0 /\ \A x \in TradeIds \ {id} : trades'[x] = trades[x]
      BY <1>7, <2>1, ConcludeType DEF Cancel
    <2>3. QED
      BY <1>7, <2>2, ConcludedScheduleInv DEF Cancel
  <1>8. ASSUME UNCHANGED <<trades, pending, hssCount>> PROVE ScheduleInv'
    BY <1>8 DEF ScheduleInv
  <1>9. QED
    BY <1>1, <1>2, <1>4, <1>5, <1>6, <1>7, <1>8
       DEF Next, SignApproval, SetAllowance, SetEligible, Tick, vars, engineVars, hssVars

(* The network never calls settle before the window of the trade that is   *)
(* waiting for the call, for every margin that covers the block lag, and a *)
(* recorded schedule belongs to one trade only.                            *)
THEOREM ScheduleSafety == Spec => [](NetworkCallNeverTooEarly /\ SchedulesNotShared)
  <1>1. Init => ScheduleInv
    BY ConstantsAssumption DEF Init, ScheduleInv, NoTrade
  <1>2. ScheduleInv => NetworkCallNeverTooEarly /\ SchedulesNotShared
    BY DEF ScheduleInv, NetworkCallNeverTooEarly, SchedulesNotShared
  <1>3. QED
    BY <1>1, <1>2, ScheduleStep, TypeCorrect, PTL DEF Spec

---------------------------------------------------------------------------
(* Action properties and the refinement.  All three rest on one lemma that *)
(* says what a step can do to the trades and the balances.                 *)

(* Every step leaves all trades and balances alone, or changes one trade   *)
(* in one of the ways an operation of the contract changes it.             *)
StepKind(id) ==
    \/ /\ trades[id].state = "None"
       /\ \E i \in Instructions :
             /\ ValidInstruction(i)
             /\ trades'[id] = [NoTrade EXCEPT !.state = "AwaitingApprovals", !.terms = i]
       /\ balance' = balance
    \/ /\ trades[id].state = "AwaitingApprovals"
       /\ trades'[id].state \in {"AwaitingApprovals", "Scheduled"}
       /\ trades'[id].terms = trades[id].terms
       /\ \E side \in Sides : trades'[id].approved = trades[id].approved \cup {side}
       /\ balance' = balance
    \/ /\ trades[id].state = "Scheduled"
       /\ trades'[id].terms = trades[id].terms
       /\ trades'[id].approved = trades[id].approved
       /\ \/ /\ trades'[id].state = "Settled"
             /\ LegsSucceed(trades[id].terms)
             /\ ExecuteLegs(trades[id].terms)
          \/ /\ trades'[id].state = "Failed"
             /\ ~LegsSucceed(trades[id].terms)
             /\ balance' = balance
    \/ /\ trades[id].state = "Failed"
       /\ trades'[id].state = "AwaitingApprovals"
       /\ EconomicsOf(trades'[id].terms) = EconomicsOf(trades[id].terms)
       /\ trades'[id].approved = {}
       /\ balance' = balance
    \/ /\ trades[id].state \in {"AwaitingApprovals", "Scheduled", "Failed"}
       /\ trades'[id].state = "Cancelled"
       /\ trades'[id].terms = trades[id].terms
       /\ trades'[id].approved = trades[id].approved
       /\ balance' = balance

(* nextTradeId is the id of no trade yet. *)
FreshInv == \A id \in TradeIds : id >= nextTradeId => trades[id].state = "None"

(* What one step may do to a trade, by the state the trade was in: the     *)
(* case analysis finality, preflight and refinement share.                 *)
LEMMA StepEffect ==
    TypeOK /\ FreshInv /\ [Next]_vars =>
        \/ UNCHANGED <<trades, balance>>
        \/ /\ trades' \in [TradeIds -> Trades]
           /\ \E id \in TradeIds :
                 /\ \A x \in TradeIds \ {id} : trades'[x] = trades[x]
                 /\ StepKind(id)
  <1> SUFFICES ASSUME TypeOK, FreshInv, [Next]_vars
               PROVE  \/ UNCHANGED <<trades, balance>>
                      \/ /\ trades' \in [TradeIds -> Trades]
                         /\ \E id \in TradeIds :
                               /\ \A x \in TradeIds \ {id} : trades'[x] = trades[x]
                               /\ StepKind(id)
    OBVIOUS
  <1> DEFINE Goal(id) == /\ trades' \in [TradeIds -> Trades]
                         /\ \A x \in TradeIds \ {id} : trades'[x] = trades[x]
                         /\ StepKind(id)
  <1>1. ASSUME NEW i \in Instructions, CreateTrade(i)
        PROVE  nextTradeId \in TradeIds /\ Goal(nextTradeId)
    <2>1. nextTradeId \in TradeIds /\ ValidInstruction(i) /\ balance' = balance
      BY <1>1 DEF CreateTrade, tokenVars
    <2>2. trades[nextTradeId].state = "None"
      BY <2>1 DEF FreshInv, TradeIds
    <2>3. [NoTrade EXCEPT !.state = "AwaitingApprovals", !.terms = i] \in Trades
      BY ConstantsAssumption DEF NoTrade, NoTerms, Trades, States
    <2>4. /\ trades' \in [TradeIds -> Trades]
          /\ trades'[nextTradeId] = [NoTrade EXCEPT !.state = "AwaitingApprovals", !.terms = i]
          /\ \A x \in TradeIds \ {nextTradeId} : trades'[x] = trades[x]
      BY <1>1, <2>1, <2>3 DEF CreateTrade, TypeOK
    <2>5. QED
      BY <2>1, <2>2, <2>4 DEF StepKind
  <1>2. ASSUME NEW m \in signed, Approve(m) PROVE m.id \in TradeIds /\ Goal(m.id)
    BY <1>2, ApproveEffect DEF StepKind
  <1>3. ASSUME NEW id \in TradeIds, Settleable(id), SettleBody(id) PROVE Goal(id)
    <2>1. trades[id].state = "Scheduled"
      BY <1>3 DEF Settleable
    <2>2. QED
      BY <1>3, <2>1, SettleBodyType DEF StepKind
  <1>4. ASSUME NEW id \in TradeIds, NEW caller \in Desks \cup {Venue}, NEW w \in Windows,
               Reissue(id, caller, w)
        PROVE  Goal(id)
    <2>1. trades[id] \in Trades /\ trades[id].state = "Failed" /\ balance' = balance
          /\ w[1] \in Nat /\ w[2] \in Nat
      BY <1>4, ConstantsAssumption DEF TypeOK, Reissue, tokenVars
    <2> DEFINE dated == [trades[id].terms EXCEPT !.settleAt = w[1], !.expiresAt = w[2]]
               new == [trades[id] EXCEPT !.state = "AwaitingApprovals", !.approved = {},
                                         !.terms = dated]
    <2>2. dated \in Terms /\ EconomicsOf(dated) = EconomicsOf(trades[id].terms)
      BY <2>1 DEF EconomicsOf, Trades, Terms
    <2>3. trades' = [trades EXCEPT ![id] = new]
      BY <1>4, <2>1 DEF Reissue, TypeOK, Trades, Terms
    <2> HIDE DEF dated
    <2>4. new \in Trades /\ new.state = "AwaitingApprovals" /\ new.approved = {} /\ new.terms = dated
      BY <2>1, <2>2 DEF Trades, States
    <2> HIDE DEF new
    <2>5. /\ trades' \in [TradeIds -> Trades] /\ trades'[id] = new
          /\ \A x \in TradeIds \ {id} : trades'[x] = trades[x]
      BY <2>3, <2>4 DEF TypeOK
    <2>6. QED
      BY <2>1, <2>2, <2>4, <2>5 DEF StepKind
  <1>5. ASSUME NEW id \in TradeIds, NEW caller \in Desks \cup {Venue}, Cancel(id, caller)
        PROVE  Goal(id)
    <2>1. "Cancelled" \in States \ {"None"} /\ trades[id].state # "None"
      BY <1>5 DEF States, Cancel
    <2>2. Conclude(id, "Cancelled") /\ balance' = balance
          /\ trades[id].state \in {"AwaitingApprovals", "Scheduled", "Failed"}
      BY <1>5 DEF Cancel, tokenVars
    <2>3. QED
      BY <2>1, <2>2, ConcludeType DEF StepKind
  <1>6. CASE \E s \in pending : NetworkExecutes(s)
    <2>1. PICK s \in pending : NetworkExecutes(s)
      BY <1>6
    <2>2. s.id \in TradeIds
      BY DEF TypeOK
    <2>3. \/ Settleable(s.id) /\ SettleBody(s.id)
          \/ UNCHANGED <<trades, balance>>
      BY <2>1 DEF NetworkExecutes
    <2>4. QED
      BY <1>3, <2>2, <2>3
  <1>7. ASSUME NEW id \in TradeIds, Settle(id) PROVE Goal(id)
    BY <1>3, <1>7 DEF Settle
  <1>8. CASE \/ \E id \in TradeIds, d \in Desks : SignApproval(id, d)
             \/ \E c \in AllowanceChoices : SetAllowance(c[1], c[2], c[3])
             \/ \E c \in EligibleChoices : SetEligible(c[1], c[2])
             \/ Tick
             \/ UNCHANGED vars
    BY <1>8 DEF SignApproval, SetAllowance, SetEligible, Tick, vars, engineVars, tokenVars
  <1>9. QED
    <2>1. CASE \E i \in Instructions : CreateTrade(i)
      BY <1>1, <2>1
    <2>2. CASE \E m \in signed : Approve(m)
      BY <1>2, <2>2
    <2>3. CASE \E id \in TradeIds : Settle(id)
      BY <1>7, <2>3
    <2>4. CASE \E id \in TradeIds, caller \in Desks \cup {Venue}, w \in Windows :
                 Reissue(id, caller, w)
      BY <1>4, <2>4
    <2>5. CASE \E id \in TradeIds, caller \in Desks \cup {Venue} : Cancel(id, caller)
      BY <1>5, <2>5
    <2>6. QED
      BY <1>6, <1>8, <2>1, <2>2, <2>3, <2>4, <2>5 DEF Next

(* Only createTrade takes a trade out of "None". *)
LEMMA FreshStep == TypeOK /\ FreshInv /\ [Next]_vars => FreshInv'
  <1> SUFFICES ASSUME TypeOK, FreshInv, [Next]_vars PROVE FreshInv'
    OBVIOUS
  <1>1. ASSUME NEW i \in Instructions, CreateTrade(i) PROVE FreshInv'
    BY <1>1 DEF CreateTrade, FreshInv, TypeOK, TradeIds
  <1>2. ASSUME NEW id \in TradeIds, trades[id].state # "None",
               \A x \in TradeIds \ {id} : trades'[x] = trades[x],
               nextTradeId' = nextTradeId
        PROVE  FreshInv'
    BY <1>2 DEF FreshInv
  <1>3. ASSUME NEW m \in signed, Approve(m) PROVE FreshInv'
    <2>1. /\ m.id \in TradeIds /\ trades[m.id].state = "AwaitingApprovals"
          /\ \A x \in TradeIds \ {m.id} : trades'[x] = trades[x]
      BY <1>3, ApproveEffect
    <2>2. nextTradeId' = nextTradeId
      BY <1>3 DEF Approve
    <2>3. QED
      BY <1>2, <2>1, <2>2
  <1>4. ASSUME NEW id \in TradeIds, Settleable(id), SettleBody(id), nextTradeId' = nextTradeId
        PROVE  FreshInv'
    BY <1>2, <1>4, SettleBodyType DEF Settleable
  <1>5. ASSUME NEW id \in TradeIds, Settle(id) PROVE FreshInv'
    BY <1>4, <1>5 DEF Settle
  <1>6. ASSUME NEW s \in pending, NetworkExecutes(s) PROVE FreshInv'
    <2>1. s.id \in TradeIds /\ nextTradeId' = nextTradeId
      BY <1>6 DEF TypeOK, NetworkExecutes
    <2>2. CASE Settleable(s.id) /\ SettleBody(s.id)
      BY <1>4, <2>1, <2>2
    <2>3. CASE UNCHANGED trades
      BY <2>1, <2>3 DEF FreshInv
    <2>4. QED
      BY <1>6, <2>2, <2>3 DEF NetworkExecutes
  <1>7. ASSUME NEW id \in TradeIds, NEW caller \in Desks \cup {Venue}, NEW w \in Windows,
               Reissue(id, caller, w)
        PROVE  FreshInv'
    BY <1>2, <1>7 DEF Reissue, TypeOK
  <1>8. ASSUME NEW id \in TradeIds, NEW caller \in Desks \cup {Venue}, Cancel(id, caller)
        PROVE  FreshInv'
    BY <1>2, <1>8 DEF Cancel, Conclude, TypeOK
  <1>9. ASSUME UNCHANGED <<trades, nextTradeId>> PROVE FreshInv'
    BY <1>9 DEF FreshInv
  <1>10. QED
    BY <1>1, <1>3, <1>5, <1>6, <1>7, <1>8, <1>9
       DEF Next, SignApproval, SetAllowance, SetEligible, Tick, vars, engineVars

(* The id createTrade hands out next has never been used.                  *)
LEMMA FreshSafety == Spec => []FreshInv
  <1>1. Init => FreshInv
    BY DEF Init, FreshInv, NoTrade
  <1>2. QED
    BY <1>1, FreshStep, TypeCorrect, PTL DEF Spec

(* Settled and cancelled are final, whatever schedules are still pending.  *)
THEOREM Finality == Spec => ConcludedForGood
  <1> DEFINE Final ==
        /\ \A id \in TradeIds :
              trades[id].state \in {"Settled", "Cancelled"} => trades'[id] = trades[id]
        /\ \A a, b \in TradeIds :
              (trades'[a] # trades[a] /\ trades'[b] # trades[b]) => a = b
  <1>1. TypeOK /\ FreshInv /\ [Next]_vars => [Final]_vars
    <2> SUFFICES ASSUME TypeOK, FreshInv, [Next]_vars PROVE Final
      OBVIOUS
    <2>1. CASE UNCHANGED <<trades, balance>>
      BY <2>1
    <2>2. CASE \E id \in TradeIds : /\ \A x \in TradeIds \ {id} : trades'[x] = trades[x]
                                   /\ StepKind(id)
      <3>1. PICK id \in TradeIds : /\ \A x \in TradeIds \ {id} : trades'[x] = trades[x]
                                   /\ StepKind(id)
        BY <2>2
      <3>2. trades[id].state \notin {"Settled", "Cancelled"}
        BY <3>1 DEF StepKind
      <3>3. QED
        BY <3>1, <3>2
    <2>3. QED
      BY <2>1, <2>2, StepEffect
  <1>2. QED
    BY <1>1, TypeCorrect, FreshSafety, PTL DEF Spec, ConcludedForGood

(* settle settles exactly the trades preflight and the tokens' eligibility *)
(* would let through.                                                      *)
THEOREM PreflightCorrect == Spec => PreflightPredictsOutcome
  <1> DEFINE Ready(t, id) ==
               /\ Preflight(id).sellerHasPar /\ Preflight(id).sellerAllowance
               /\ Preflight(id).buyerHasCash /\ Preflight(id).buyerAllowance
               /\ \A tok \in Tokens : {t.buyer, t.seller} \subseteq eligible[tok]
             Predicted ==
               \A id \in TradeIds : trades[id].state = "Scheduled" =>
                  /\ trades'[id].state = "Settled" => Ready(trades[id].terms, id)
                  /\ trades'[id].state = "Failed" => ~Ready(trades[id].terms, id)
  <1>1. ASSUME TypeOK, NEW id \in TradeIds, trades[id].state = "Scheduled"
        PROVE  LegsSucceed(trades[id].terms) <=> Ready(trades[id].terms, id)
    <2> DEFINE t == trades[id].terms
    <2>1. Ready(t, id) <=>
            /\ balance["loan"][t.seller] >= t.par /\ allowance["loan"][t.seller] >= t.par
            /\ balance["cash"][t.buyer] >= t.cash /\ allowance["cash"][t.buyer] >= t.cash
            /\ \A tok \in Tokens : {t.buyer, t.seller} \subseteq eligible[tok]
      BY DEF Preflight
    <2>2. /\ t.buyer \in Desks /\ t.seller \in Desks /\ t.par \in Nat /\ t.cash \in Nat
          /\ \A tok \in Tokens, d \in Desks : balance[tok][d] \in Nat /\ allowance[tok][d] \in Nat
      BY <1>1 DEF TypeOK, Trades, Terms
    <2>3. QED
      BY <2>1, <2>2 DEF LegsSucceed, TransferAllowed, Tokens
  <1>2. TypeOK /\ FreshInv /\ [Next]_vars => [Predicted]_vars
    <2> SUFFICES ASSUME TypeOK, FreshInv, [Next]_vars, NEW id \in TradeIds,
                        trades[id].state = "Scheduled"
                 PROVE  /\ trades'[id].state = "Settled" => Ready(trades[id].terms, id)
                        /\ trades'[id].state = "Failed" => ~Ready(trades[id].terms, id)
      OBVIOUS
    <2>1. \/ trades'[id] = trades[id]
          \/ trades'[id].state = "Settled" /\ LegsSucceed(trades[id].terms)
          \/ trades'[id].state = "Failed" /\ ~LegsSucceed(trades[id].terms)
          \/ trades'[id].state = "Cancelled"
      BY StepEffect DEF StepKind
    <2>2. QED
      BY <1>1, <2>1
  <1>3. QED
    BY <1>2, TypeCorrect, FreshSafety, PTL DEF Spec, PreflightPredictsOutcome

---------------------------------------------------------------------------
(* Refinement: a step of the contract is one step of DvP or none. *)

(* Every step of the engine is a step of DvP, or changes nothing DvP sees.  *)
LEMMA AbstractStep ==
    ASSUME TypeOK, ConsentInv, NEW id \in TradeIds, StepKind(id),
           trades' \in [TradeIds -> Trades],
           \A x \in TradeIds \ {id} : trades'[x] = trades[x]
    PROVE  [Abstract!Next]_(Abstract!vars)
  <1> DEFINE Deal == [x \in TradeIds |-> DealState(x)]
             Econ == [x \in TradeIds |-> EconomicsOf(trades[x].terms)]
             Agreed == [x \in TradeIds |-> trades[x].approved]
  <1>1. /\ trades \in [TradeIds -> Trades]
        /\ \A x \in TradeIds \ {id} : /\ Deal'[x] = Deal[x] /\ Econ'[x] = Econ[x]
                                      /\ Agreed'[x] = Agreed[x]
    BY DEF TypeOK, DealState
  <1>2. /\ Deal' = [Deal EXCEPT ![id] = DealState(id)']
        /\ Econ' = [Econ EXCEPT ![id] = EconomicsOf(trades'[id].terms)]
        /\ Agreed' = [Agreed EXCEPT ![id] = trades'[id].approved]
    BY <1>1
  <1>3. /\ Deal[id] = DealState(id) /\ Agreed[id] = trades[id].approved
        /\ DealState(id)' = DealState(id) => Deal' = Deal
        /\ trades'[id].terms = trades[id].terms => Econ' = Econ
        /\ EconomicsOf(trades'[id].terms) = EconomicsOf(trades[id].terms) => Econ' = Econ
        /\ trades'[id].approved = trades[id].approved => Agreed' = Agreed
    BY <1>2
  <1>4. CASE /\ trades[id].state = "None"
             /\ \E i \in Instructions :
                   /\ ValidInstruction(i)
                   /\ trades'[id] = [NoTrade EXCEPT !.state = "AwaitingApprovals", !.terms = i]
             /\ balance' = balance
    <2>1. PICK i \in Instructions :
                 /\ ValidInstruction(i)
                 /\ trades'[id] = [NoTrade EXCEPT !.state = "AwaitingApprovals", !.terms = i]
      BY <1>4
    <2> DEFINE e == EconomicsOf(i)
    <2>2. /\ trades'[id].state = "AwaitingApprovals" /\ trades'[id].terms = i
          /\ trades'[id].approved = {}
      BY <2>1 DEF NoTrade
    <2>3. i \in Terms
      BY ConstantsAssumption
    <2>4. /\ {e.buyer, e.seller} \subseteq Desks /\ e.buyer # e.seller /\ e.par > 0 /\ e.cash > 0
          /\ e \in {EconomicsOf(j) : j \in Instructions}
      BY <2>1, <2>3 DEF ValidInstruction, Terms, EconomicsOf
    <2>5. Deal[id] = "none" /\ DealState(id)' = "open"
      BY <1>4, <2>2 DEF DealState
    <2>6. Econ' = [Econ EXCEPT ![id] = e] /\ Deal' = [Deal EXCEPT ![id] = "open"]
      BY <1>2, <2>2, <2>5
    <2>7. Agreed' = Agreed
      <3>1. trades[id].approved = {}
        BY <1>4 DEF ConsentInv
      <3>2. QED
        BY <1>2, <2>2, <3>1
    <2>8. Abstract!Propose(id, e)
      BY <1>4, <2>4, <2>5, <2>6, <2>7 DEF Abstract!Propose
    <2>9. QED
      BY <2>4, <2>8 DEF Abstract!Next
  <1>5. CASE /\ trades[id].state = "AwaitingApprovals"
             /\ trades'[id].state \in {"AwaitingApprovals", "Scheduled"}
             /\ trades'[id].terms = trades[id].terms
             /\ \E side \in Sides : trades'[id].approved = trades[id].approved \cup {side}
             /\ balance' = balance
    <2>1. PICK side \in Sides : trades'[id].approved = trades[id].approved \cup {side}
      BY <1>5
    <2>2. Deal[id] = "open" /\ DealState(id)' = "open"
      BY <1>5 DEF DealState
    <2>3. /\ Deal' = Deal /\ Econ' = Econ
          /\ Agreed' = [Agreed EXCEPT ![id] = @ \cup {side}]
      BY <1>2, <1>3, <1>5, <2>1, <2>2
    <2>4. Abstract!Agree(id, side)
      BY <1>5, <2>2, <2>3 DEF Abstract!Agree
    <2>5. QED
      BY <2>4 DEF Abstract!Next, Sides
  <1>6. CASE /\ trades[id].state = "Scheduled"
             /\ trades'[id].terms = trades[id].terms
             /\ trades'[id].approved = trades[id].approved
             /\ trades'[id].state = "Settled"
             /\ LegsSucceed(trades[id].terms)
             /\ ExecuteLegs(trades[id].terms)
    <2> DEFINE t == trades[id].terms
               e == Econ[id]
    <2>1. /\ e.buyer = t.buyer /\ e.seller = t.seller /\ e.par = t.par /\ e.cash = t.cash
          /\ t.buyer \in Desks /\ t.seller \in Desks /\ t.buyer # t.seller
          /\ t.par \in Nat /\ t.cash \in Nat
      BY <1>6 DEF EconomicsOf, TypeOK, Trades, Terms
    <2>2. Deal[id] = "open" /\ DealState(id)' = "done"
      BY <1>6 DEF DealState
    <2>3. Deal' = [Deal EXCEPT ![id] = "done"] /\ Econ' = Econ /\ Agreed' = Agreed
      BY <1>2, <1>3, <1>6, <2>2
    <2>4. Agreed[id] = {"buyer", "seller"}
      BY <1>6 DEF ConsentInv, Sides
    <2>5. /\ balance \in [Tokens -> [Desks -> Nat]]
          /\ balance["loan"][t.seller] >= t.par /\ balance["cash"][t.buyer] >= t.cash
      BY <1>6, <2>1 DEF LegsSucceed, TransferAllowed, TypeOK, Tokens
    <2>6. balance' = [balance EXCEPT
              !["loan"] = Moved(@, t.seller, t.buyer, t.par),
              !["cash"] = Moved(@, t.buyer, t.seller, t.cash)]
      BY <1>6 DEF ExecuteLegs
    <2>7. balance' = [balance EXCEPT
              !["loan"] = Abstract!Transfer(@, e.seller, e.buyer, e.par),
              !["cash"] = Abstract!Transfer(@, e.buyer, e.seller, e.cash)]
      BY <2>1, <2>6 DEF Moved, Abstract!Transfer
    <2>8. balance["loan"][e.seller] >= e.par /\ balance["cash"][e.buyer] >= e.cash
      BY <2>1, <2>5
    <2> HIDE DEF e, t
    <2>9. Abstract!Exchange(id)
      BY <2>2, <2>3, <2>4, <2>7, <2>8 DEF Abstract!Exchange, e
    <2>10. QED
      BY <2>9 DEF Abstract!Next
  <1>7. CASE /\ trades[id].state = "Scheduled"
             /\ trades'[id].terms = trades[id].terms
             /\ trades'[id].approved = trades[id].approved
             /\ trades'[id].state = "Failed"
             /\ balance' = balance
    <2>1. Deal[id] = "open" /\ DealState(id)' = "open"
      BY <1>7 DEF DealState
    <2>2. Deal' = Deal /\ Econ' = Econ /\ Agreed' = Agreed
      BY <1>3, <1>7, <2>1
    <2>3. QED
      BY <1>7, <2>2 DEF Abstract!vars
  <1>8. CASE /\ trades[id].state = "Failed"
             /\ trades'[id].state = "AwaitingApprovals"
             /\ EconomicsOf(trades'[id].terms) = EconomicsOf(trades[id].terms)
             /\ trades'[id].approved = {}
             /\ balance' = balance
    <2>1. Deal[id] = "open" /\ DealState(id)' = "open"
      BY <1>8 DEF DealState
    <2>2. Deal' = Deal /\ Econ' = Econ /\ Agreed' = [Agreed EXCEPT ![id] = {}]
      BY <1>2, <1>3, <1>8, <2>1
    <2>3. Abstract!Reopen(id)
      BY <1>8, <2>1, <2>2 DEF Abstract!Reopen
    <2>4. QED
      BY <2>3 DEF Abstract!Next
  <1>9. CASE /\ trades[id].state \in {"AwaitingApprovals", "Scheduled", "Failed"}
             /\ trades'[id].state = "Cancelled"
             /\ trades'[id].terms = trades[id].terms
             /\ trades'[id].approved = trades[id].approved
             /\ balance' = balance
    <2>1. Deal[id] = "open" /\ DealState(id)' = "dead"
      BY <1>9 DEF DealState
    <2>2. Deal' = [Deal EXCEPT ![id] = "dead"] /\ Econ' = Econ /\ Agreed' = Agreed
      BY <1>2, <1>3, <1>9, <2>1
    <2>3. Abstract!Abandon(id)
      BY <1>9, <2>1, <2>2 DEF Abstract!Abandon
    <2>4. QED
      BY <2>3 DEF Abstract!Next
  <1>10. QED
    BY <1>4, <1>5, <1>6, <1>7, <1>8, <1>9 DEF StepKind

(* The contract implements atomic delivery versus payment.                 *)
THEOREM Refinement == Spec => ImplementsDvP
  <1>1. Init => Abstract!Init
    BY DEF Init, Abstract!Init, DealState, NoTrade, EconomicsOf, NoTerms, Abstract!NoEconomics
  <1>2. TypeOK /\ FreshInv /\ ConsentInv /\ [Next]_vars => [Abstract!Next]_(Abstract!vars)
    <2> SUFFICES ASSUME TypeOK, FreshInv, ConsentInv, [Next]_vars
                 PROVE  [Abstract!Next]_(Abstract!vars)
      OBVIOUS
    <2>1. CASE UNCHANGED <<trades, balance>>
      BY <2>1 DEF Abstract!vars, DealState
    <2>2. CASE /\ trades' \in [TradeIds -> Trades]
               /\ \E id \in TradeIds :
                     /\ \A x \in TradeIds \ {id} : trades'[x] = trades[x]
                     /\ StepKind(id)
      BY <2>2, AbstractStep
    <2>3. QED
      BY <2>1, <2>2, StepEffect
  <1>3. QED
    BY <1>1, <1>2, TypeCorrect, FreshSafety, ConsentInvariant, PTL
       DEF Spec, ImplementsDvP, Abstract!Spec
---------------------------------------------------------------------------
(* The ledgers *)

(* One trade moves as many units as its leg has.                           *)
LEMMA BlockUnits ==
    ASSUME NEW id, NEW n \in Nat
    PROVE  IsFiniteSet({id} \X (1..n)) /\ Cardinality({id} \X (1..n)) = n
  <1>1. IsFiniteSet({id}) /\ Cardinality({id}) = 1
    BY FS_Singleton
  <1>2. IsFiniteSet(1..n) /\ Cardinality(1..n) = n
    BY FS_Interval
  <1>3. /\ IsFiniteSet({id} \X (1..n))
        /\ Cardinality({id} \X (1..n)) = Cardinality({id}) * Cardinality(1..n)
    BY <1>1, <1>2, FS_Product
  <1> QED
    BY <1>1, <1>2, <1>3

(* The legs of trades are natural numbers, before and after a step.        *)
Legs == {"par", "cash"}
LEMMA UnitsFinite ==
    ASSUME TypeOK, NEW ids \in SUBSET TradeIds, NEW leg \in Legs
    PROVE  IsFiniteSet(Units(trades, ids, leg)) /\ Cardinality(Units(trades, ids, leg)) \in Nat
  <1> DEFINE Block(id) == {id} \X (1..trades[id].terms[leg])
             Blocks == {Block(id) : id \in ids}
  <1>1. IsFiniteSet(TradeIds)
    BY ConstantsAssumption, FS_Interval DEF TradeIds
  <1>2. IsFiniteSet(ids)
    BY <1>1, FS_Subset
  <1>3. IsFiniteSet(Blocks)
    <2> DEFINE f == [id \in ids |-> Block(id)]
    <2>1. f \in Surjection(ids, Blocks)
      BY DEF Surjection
    <2> HIDE DEF f, Blocks
    <2> QED BY <1>2, <2>1, FS_Surjection
  <1>4. \A id \in ids : trades[id].terms[leg] \in Nat
    BY DEF TypeOK, Trades, Terms, Legs
  <1>5. \A B \in Blocks : IsFiniteSet(B)
    <2> SUFFICES ASSUME NEW id \in ids PROVE IsFiniteSet(Block(id))
      OBVIOUS
    <2> QED BY <1>4, BlockUnits
  <1>6. IsFiniteSet(UNION Blocks)
    BY <1>3, <1>5, FS_UNION
  <1>7. Units(trades, ids, leg) = UNION Blocks
    BY DEF Units
  <1> QED
    BY <1>6, <1>7, FS_CardinalityType

(* A trade more adds the units of its leg.                                 *)
LEMMA UnitsAdded ==
    ASSUME TypeOK, NEW ids \in SUBSET TradeIds, NEW id \in TradeIds, id \notin ids,
           NEW leg \in Legs
    PROVE  Cardinality(Units(trades, ids \cup {id}, leg))
             = Cardinality(Units(trades, ids, leg)) + trades[id].terms[leg]
  <1> DEFINE old == Units(trades, ids, leg)
             block == {id} \X (1..trades[id].terms[leg])
  <1>1. trades[id].terms[leg] \in Nat
    BY DEF TypeOK, Trades, Terms, Legs
  <1>2. IsFiniteSet(block) /\ Cardinality(block) = trades[id].terms[leg]
    BY <1>1, BlockUnits
  <1>3. IsFiniteSet(old) /\ Cardinality(old) \in Nat
    BY UnitsFinite
  <1>4. old \cap block = {}
    BY DEF Units
  <1>5. Units(trades, ids \cup {id}, leg) = old \cup block
    BY DEF Units
  <1> HIDE DEF old, block
  <1>6. Cardinality(old \cup block) = Cardinality(old) + Cardinality(block) - Cardinality({})
    BY <1>2, <1>3, <1>4, FS_Union
  <1>7. Cardinality({}) = 0
    BY FS_EmptySet
  <1>8. Cardinality(old \cup block) = Cardinality(old) + trades[id].terms[leg]
    BY <1>1, <1>2, <1>3, <1>6, <1>7
  <1> QED
    BY <1>5, <1>8 DEF old

(* The units depend on the terms alone.                                    *)
LEMMA UnitsKept ==
    ASSUME NEW ids, NEW leg, NEW f, NEW g, \A x \in ids : f[x].terms = g[x].terms
    PROVE  Units(f, ids, leg) = Units(g, ids, leg)
  BY DEF Units
(* When a trade settles, what it moved and the units it adds agree; when   *)
(* none does, nothing of either changes.                                   *)
LEMMA LedgerStep ==
    ASSUME TypeOK, FreshInv, LedgerReconciles, [Next]_vars
    PROVE  LedgerReconciles'
  <1>1. CASE UNCHANGED <<trades, balance>>
    BY <1>1 DEF LedgerReconciles, Par, Cash, Bought, Sold, Settled
  <1>2. ASSUME NEW id \in TradeIds, trades' \in [TradeIds -> Trades], StepKind(id),
               \A x \in TradeIds \ {id} : trades'[x] = trades[x]
        PROVE  LedgerReconciles'
    <2>1. trades \in [TradeIds -> Trades]
      BY DEF TypeOK
    <2>2. ASSUME balance' = balance, trades'[id].state # "Settled" \/ trades'[id] = trades[id],
                 trades[id].state = "Settled" => trades'[id] = trades[id]
          PROVE  LedgerReconciles'
      <3>1. Settled' = Settled /\ \A x \in Settled : trades'[x] = trades[x]
        BY <1>2, <2>2 DEF Settled
      <3> SUFFICES ASSUME NEW d \in Desks
                   PROVE  /\ balance'["loan"][d] + Par(Sold(d))'
                               = InitialBalance["loan"][d] + Par(Bought(d))'
                          /\ balance'["cash"][d] + Cash(Bought(d))'
                               = InitialBalance["cash"][d] + Cash(Sold(d))'
        BY DEF LedgerReconciles
      <3>2. /\ Sold(d)' = Sold(d) /\ Bought(d)' = Bought(d)
            /\ \A x \in Sold(d) \cup Bought(d) : trades'[x].terms = trades[x].terms
        BY <3>1 DEF Sold, Bought
      <3>3. /\ Par(Sold(d))' = Par(Sold(d)) /\ Par(Bought(d))' = Par(Bought(d))
            /\ Cash(Sold(d))' = Cash(Sold(d)) /\ Cash(Bought(d))' = Cash(Bought(d))
        BY <3>2, UnitsKept DEF Par, Cash
      <3> QED
        BY <2>2, <3>3 DEF LedgerReconciles
    <2>3. ASSUME trades[id].state = "Scheduled", trades'[id].state = "Settled",
                 trades'[id].terms = trades[id].terms,
                 LegsSucceed(trades[id].terms), ExecuteLegs(trades[id].terms)
          PROVE  LedgerReconciles'
      <3> DEFINE t == trades[id].terms
      <3>1. /\ t.buyer \in Desks /\ t.seller \in Desks /\ t.buyer # t.seller
            /\ t.par \in Nat /\ t.cash \in Nat
        BY <2>1, <2>3 DEF TypeOK, Trades, Terms
      <3>2. Settled' = Settled \cup {id} /\ id \notin Settled
        BY <1>2, <2>3 DEF Settled
      <3>3. \A x \in TradeIds : trades'[x].terms = trades[x].terms
        BY <1>2, <2>3
      <3> SUFFICES ASSUME NEW d \in Desks
                   PROVE  /\ balance'["loan"][d] + Par(Sold(d))'
                               = InitialBalance["loan"][d] + Par(Bought(d))'
                          /\ balance'["cash"][d] + Cash(Bought(d))'
                               = InitialBalance["cash"][d] + Cash(Sold(d))'
        BY DEF LedgerReconciles
      <3>4. /\ Sold(d)' = IF d = t.seller THEN Sold(d) \cup {id} ELSE Sold(d)
            /\ Bought(d)' = IF d = t.buyer THEN Bought(d) \cup {id} ELSE Bought(d)
        BY <3>2, <3>3 DEF Sold, Bought, Settled
      <3>5. /\ Sold(d) \in SUBSET TradeIds /\ Bought(d) \in SUBSET TradeIds
            /\ id \notin Sold(d) /\ id \notin Bought(d)
        BY <3>2 DEF Sold, Bought, Settled
      <3>6. /\ Par(Sold(d))' = Cardinality(Units(trades, Sold(d)', "par"))
            /\ Par(Bought(d))' = Cardinality(Units(trades, Bought(d)', "par"))
            /\ Cash(Sold(d))' = Cardinality(Units(trades, Sold(d)', "cash"))
            /\ Cash(Bought(d))' = Cardinality(Units(trades, Bought(d)', "cash"))
        <4>1. Sold(d)' \subseteq TradeIds /\ Bought(d)' \subseteq TradeIds
          BY <3>4, <3>5
        <4>2. \A x \in Sold(d)' \cup Bought(d)' : trades'[x].terms = trades[x].terms
          BY <3>3, <4>1
        <4>3. /\ \A leg : Units(trades', Sold(d)', leg) = Units(trades, Sold(d)', leg)
              /\ \A leg : Units(trades', Bought(d)', leg) = Units(trades, Bought(d)', leg)
          BY <4>2, UnitsKept
        <4> QED
          BY <4>3 DEF Par, Cash
      <3>7. /\ Par(Sold(d)) \in Nat /\ Par(Bought(d)) \in Nat
            /\ Cash(Sold(d)) \in Nat /\ Cash(Bought(d)) \in Nat
        BY <3>5, UnitsFinite DEF Par, Cash, Legs
      <3>8. /\ Cardinality(Units(trades, Sold(d) \cup {id}, "par")) = Par(Sold(d)) + t.par
            /\ Cardinality(Units(trades, Bought(d) \cup {id}, "par")) = Par(Bought(d)) + t.par
            /\ Cardinality(Units(trades, Sold(d) \cup {id}, "cash")) = Cash(Sold(d)) + t.cash
            /\ Cardinality(Units(trades, Bought(d) \cup {id}, "cash")) = Cash(Bought(d)) + t.cash
        BY <3>5, UnitsAdded DEF Par, Cash, Legs
      <3>9. /\ Par(Sold(d))' = Par(Sold(d)) + (IF d = t.seller THEN t.par ELSE 0)
             /\ Par(Bought(d))' = Par(Bought(d)) + (IF d = t.buyer THEN t.par ELSE 0)
             /\ Cash(Sold(d))' = Cash(Sold(d)) + (IF d = t.seller THEN t.cash ELSE 0)
             /\ Cash(Bought(d))' = Cash(Bought(d)) + (IF d = t.buyer THEN t.cash ELSE 0)
        BY <3>4, <3>6, <3>7, <3>8 DEF Par, Cash
      <3>10. /\ balance \in [Tokens -> [Desks -> Nat]]
             /\ InitialBalance \in [Tokens -> [Desks -> Nat]]
        BY ConstantsAssumption DEF TypeOK
      <3>11. /\ balance'["loan"][d] = balance["loan"][d] - (IF d = t.seller THEN t.par ELSE 0)
                                        + (IF d = t.buyer THEN t.par ELSE 0)
             /\ balance'["cash"][d] = balance["cash"][d] - (IF d = t.buyer THEN t.cash ELSE 0)
                                        + (IF d = t.seller THEN t.cash ELSE 0)
        BY <2>3, <3>1, <3>10 DEF ExecuteLegs, Moved, Tokens
      <3>12. /\ balance["loan"][d] + Par(Sold(d)) = InitialBalance["loan"][d] + Par(Bought(d))
             /\ balance["cash"][d] + Cash(Bought(d)) = InitialBalance["cash"][d] + Cash(Sold(d))
        BY DEF LedgerReconciles
      <3>13. /\ balance["loan"][d] \in Nat /\ balance["cash"][d] \in Nat
             /\ InitialBalance["loan"][d] \in Nat /\ InitialBalance["cash"][d] \in Nat
        BY <3>10 DEF Tokens
      <3> QED
        BY <3>1, <3>7, <3>9, <3>11, <3>12, <3>13
    <2> QED
      BY <1>2, <2>2, <2>3 DEF StepKind, NoTrade
  <1> QED
    BY <1>1, <1>2, StepEffect

(* Every desk's balances are what it began with and what its settled       *)
(* trades moved, for any trades, reissues, replays and cancellations.      *)
THEOREM LedgerSafety == Spec => []LedgerReconciles
  <1>1. Init => LedgerReconciles
    <2> SUFFICES ASSUME Init, NEW d \in Desks
                 PROVE  /\ balance["loan"][d] + Par(Sold(d))
                             = InitialBalance["loan"][d] + Par(Bought(d))
                        /\ balance["cash"][d] + Cash(Bought(d))
                             = InitialBalance["cash"][d] + Cash(Sold(d))
      BY DEF LedgerReconciles
    <2>1. Settled = {}
      BY DEF Init, Settled, NoTrade
    <2>2. \A leg \in Legs : Units(trades, {}, leg) = {}
      BY DEF Units
    <2>3. Par(Sold(d)) = Par(Bought(d)) /\ Cash(Sold(d)) = Cash(Bought(d))
      BY <2>1 DEF Sold, Bought
    <2> QED
      BY <2>3 DEF Init
  <1>2. TypeOK /\ FreshInv /\ LedgerReconciles /\ [Next]_vars => LedgerReconciles'
    BY LedgerStep
  <1> QED
    BY <1>1, <1>2, TypeCorrect, FreshSafety, PTL DEF Spec
===========================================================================
