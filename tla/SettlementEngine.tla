------------------------- MODULE SettlementEngine -------------------------
(***************************************************************************)
(* contracts/src/SettlementEngine.sol: atomic delivery versus payment of a *)
(* loan interest against mock USD.  The venue creates an instruction, each *)
(* desk approves the hash of the terms it reviewed, the second approval    *)
(* asks the Hedera Schedule Service (HSS) to call settle, and settle moves *)
(* both legs or neither.                                                   *)
(*                                                                         *)
(* Around the contract the module keeps what the contract calls or is      *)
(* called by: the two tokens (balances, allowances, who the token lets     *)
(* trade), the schedules pending on the network, the block clock, and the  *)
(* approvals a desk has signed that no block contains yet.                 *)
(***************************************************************************)
EXTENDS Integers, FiniteSets

CONSTANTS
    Desks,            \* institutional desk wallets
    Venue,            \* the account that holds VENUE_ROLE
    ZeroAddress,      \* address(0)
    Instructions,     \* instructions the venue may submit
    Windows,          \* <<settleAt, expiresAt>> pairs a reissue may carry
    AllowanceChoices, \* <<token, desk, amount>>: allowances a desk may set
    EligibleChoices,  \* <<token, desks>>: who the officer may leave eligible
    InitialBalance,   \* balances before the first trade, per token and desk
    InitialAllowance, \* what the desks granted the engine at onboarding
    SCHEDULE_MARGIN,  \* seconds between settleAt and the scheduled call
    BlockLag,         \* how far block.timestamp may lag a schedule's expiry
    MaxTrades,        \* bound: trades created
    MaxSchedules,     \* bound: schedules HSS accepts
    MaxTime           \* bound: the clock

Tokens == {"loan", "cash"}
Sides == {"buyer", "seller"}
TradeIds == 1..MaxTrades
States == {"None", "AwaitingApprovals", "Scheduled", "Settled", "Failed",
           "Cancelled"}
Terms == [buyer : Desks \cup {ZeroAddress}, seller : Desks \cup {ZeroAddress},
          par : Nat, cash : Nat, settleAt : Nat, expiresAt : Nat]
Trades == [state : States, terms : Terms, approved : SUBSET Sides,
           schedule : Nat]
Hashes == Nat \X Terms

ASSUME ConstantsAssumption ==
    /\ ZeroAddress \notin Desks
    /\ Instructions \subseteq Terms
    /\ Windows \subseteq Nat \X Nat
    /\ AllowanceChoices \subseteq Tokens \X Desks \X Nat
    /\ EligibleChoices \subseteq Tokens \X SUBSET Desks
    /\ InitialBalance \in [Tokens -> [Desks -> Nat]]
    /\ InitialAllowance \in [Tokens -> [Desks -> Nat]]
    /\ MaxTrades \in Nat
    /\ MaxSchedules \in Nat
    /\ MaxTime \in Nat

(* The margin exists to cover the lag (SettlementEngine.sol, lines 83-86). *)
ASSUME MarginAssumption ==
    /\ SCHEDULE_MARGIN \in Nat
    /\ BlockLag \in Nat
    /\ BlockLag <= SCHEDULE_MARGIN

VARIABLES
    now,         \* block.timestamp
    nextTradeId,
    trades,      \* _trades
    balance,     \* balance[token][desk]
    allowance,   \* allowance[token][desk], granted to the engine
    eligible,    \* eligible[token]: desks whose transfers the token accepts
    pending,     \* schedules the network still holds
    hssCount,    \* schedules HSS has accepted; the last one's address
    signed,      \* approvals signed by a desk and not yet in a block
    bound        \* history: the hash each side of a trade last approved

engineVars == <<nextTradeId, trades>>
tokenVars == <<balance, allowance, eligible>>
hssVars == <<pending, hssCount>>
vars == <<now, nextTradeId, trades, balance, allowance, eligible, pending,
          hssCount, signed, bound>>

NoTerms == [buyer |-> ZeroAddress, seller |-> ZeroAddress, par |-> 0,
            cash |-> 0, settleAt |-> 0, expiresAt |-> 0]
NoTrade == [state |-> "None", terms |-> NoTerms, approved |-> {},
            schedule |-> 0]
NoHash == <<0, NoTerms>>

(* _hash: binds the trade id and every economic term; state, approvals and *)
(* schedule are not part of it.                                            *)
Hash(id) == <<id, trades[id].terms>>

ValidWindow(settleAt, expiresAt) == expiresAt > settleAt /\ expiresAt > now

Init ==
    /\ now = 0
    /\ nextTradeId = 1
    /\ trades = [id \in TradeIds |-> NoTrade]
    /\ balance = InitialBalance
    /\ allowance = InitialAllowance
    /\ eligible = [tok \in Tokens |-> Desks]
    /\ pending = {}
    /\ hssCount = 0
    /\ signed = {}
    /\ bound = [id \in TradeIds |-> [side \in Sides |-> NoHash]]

---------------------------------------------------------------------------
(* Instruction lifecycle *)

ValidInstruction(i) ==
    /\ i.buyer # ZeroAddress
    /\ i.seller # ZeroAddress
    /\ i.buyer # i.seller
    /\ i.par # 0
    /\ i.cash # 0
    /\ ValidWindow(i.settleAt, i.expiresAt)

CreateTrade(i) ==
    /\ nextTradeId \in TradeIds
    /\ ValidInstruction(i)
    /\ nextTradeId' = nextTradeId + 1
    /\ trades' = [trades EXCEPT ![nextTradeId] =
                    [NoTrade EXCEPT !.state = "AwaitingApprovals",
                                    !.terms = i]]
    /\ UNCHANGED <<now, tokenVars, hssVars, signed, bound>>

(* A desk's quorum signs approve(id, hash) for the terms shown to it.  The *)
(* transaction reaches a block later, or never.                            *)
SignApproval(id, d) ==
    /\ trades[id].state = "AwaitingApprovals"
    /\ signed' = signed \cup {[id |-> id, desk |-> d, hash |-> Hash(id)]}
    /\ UNCHANGED <<now, engineVars, tokenVars, hssVars, bound>>

(* Seeded fault: the schedule asked for without the margin. *)
ScheduleExpiryWithoutMargin(terms) ==
    IF terms.settleAt > now THEN terms.settleAt ELSE now

(* _schedule: the expiry asked of HSS. *)
ScheduleExpiry(terms) ==
    SCHEDULE_MARGIN + (IF terms.settleAt > now THEN terms.settleAt ELSE now)

(* _schedule when HSS answers SUCCESS, and when it is unavailable. *)
ScheduleAccepted(id, t) ==
    /\ hssCount < MaxSchedules
    /\ hssCount' = hssCount + 1
    /\ pending' = pending \cup {[addr |-> hssCount + 1, id |-> id,
                                 expiry |-> ScheduleExpiry(t.terms)]}
    /\ trades' = [trades EXCEPT ![id] = [t EXCEPT !.schedule = hssCount + 1]]

ScheduleUnavailable(id, t) ==
    /\ trades' = [trades EXCEPT ![id] = t]
    /\ UNCHANGED hssVars

(* Seeded fault: any hash of this trade is accepted. *)
MatchesTrade(m) == m.hash[1] = m.id

(* The hash sent with the approval is the hash of the terms now. *)
MatchesTerms(m) == m.hash = Hash(m.id)

(* A signed approval is mined: m.desk is msg.sender. *)
Approve(m) ==
    LET t == trades[m.id] IN
    \E side \in Sides :
        /\ m.desk = t.terms[side]
        /\ t.state = "AwaitingApprovals"
        /\ MatchesTerms(m)
        /\ now < t.terms.expiresAt
        /\ side \notin t.approved
        /\ bound' = [bound EXCEPT ![m.id][side] = m.hash]
        /\ \/ /\ t.approved \cup {side} # Sides
              /\ trades' = [trades EXCEPT ![m.id].approved = @ \cup {side}]
              /\ UNCHANGED hssVars
           \/ /\ t.approved \cup {side} = Sides
              /\ LET both == [t EXCEPT !.approved = Sides,
                                       !.state = "Scheduled"]
                 IN  \/ ScheduleAccepted(m.id, both)
                     \/ ScheduleUnavailable(m.id, both)
        /\ signed' = signed \ {m}
        /\ UNCHANGED <<now, nextTradeId, tokenVars>>

---------------------------------------------------------------------------
(* Settlement *)

(* transferFrom on either token: both ends eligible, enough balance and    *)
(* enough allowance for the engine.  A paused token has nobody eligible.   *)
TransferAllowed(tok, from, to, amount) ==
    /\ from \in eligible[tok]
    /\ to \in eligible[tok]
    /\ amount <= balance[tok][from]
    /\ amount <= allowance[tok][from]

LegsSucceed(terms) ==
    /\ TransferAllowed("loan", terms.seller, terms.buyer, terms.par)
    /\ TransferAllowed("cash", terms.buyer, terms.seller, terms.cash)

Moved(bal, from, to, amount) ==
    [bal EXCEPT ![from] = @ - amount, ![to] = @ + amount]

(* executeLegs, when neither leg reverts. *)
ExecuteLegs(terms) ==
    /\ balance' = [balance EXCEPT
          !["loan"] = Moved(@, terms.seller, terms.buyer, terms.par),
          !["cash"] = Moved(@, terms.buyer, terms.seller, terms.cash)]
    /\ allowance' = [allowance EXCEPT
          !["loan"][terms.seller] = @ - terms.par,
          !["cash"][terms.buyer] = @ - terms.cash]

(* Seeded faults: any state may settle; the window ends a second early. *)
SettleableInAnyState(id) ==
    /\ now >= trades[id].terms.settleAt
    /\ now <= trades[id].terms.expiresAt
SettleableBeforeExpiry(id) ==
    /\ trades[id].state = "Scheduled"
    /\ now >= trades[id].terms.settleAt
    /\ now < trades[id].terms.expiresAt

(* settle does not revert. *)
Settleable(id) ==
    /\ trades[id].state = "Scheduled"
    /\ now >= trades[id].terms.settleAt
    /\ now <= trades[id].terms.expiresAt

Conclude(id, outcome) ==
    trades' = [trades EXCEPT ![id].state = outcome, ![id].schedule = 0]

(* Seeded fault: no self-call, so a failing cash leg leaves the loan moved. *)
SettleBodyWithoutRollback(id) ==
    LET t == trades[id].terms
        loanLeg == TransferAllowed("loan", t.seller, t.buyer, t.par)
    IN  \/ LegsSucceed(t) /\ ExecuteLegs(t) /\ Conclude(id, "Settled")
        \/ /\ ~LegsSucceed(t)
           /\ Conclude(id, "Failed")
           /\ balance' = IF loanLeg
                         THEN [balance EXCEPT !["loan"] =
                                 Moved(@, t.seller, t.buyer, t.par)]
                         ELSE balance
           /\ UNCHANGED allowance

(* The body of settle: both legs, or the failure recorded and no leg. *)
SettleBody(id) ==
    \/ /\ LegsSucceed(trades[id].terms)
       /\ ExecuteLegs(trades[id].terms)
       /\ Conclude(id, "Settled")
    \/ /\ ~LegsSucceed(trades[id].terms)
       /\ Conclude(id, "Failed")
       /\ UNCHANGED <<balance, allowance>>

(* Anyone may call settle; the schedule on the network is left alone. *)
Settle(id) ==
    /\ Settleable(id)
    /\ SettleBody(id)
    /\ UNCHANGED <<now, nextTradeId, eligible, hssVars, signed, bound>>

(* The network executes schedule s at its expiry; the block timestamp the  *)
(* call sees may lag.  Executed or reverted, the schedule is used up.      *)
NetworkExecutes(s) ==
    /\ now >= s.expiry - BlockLag
    /\ pending' = pending \ {s}
    /\ \/ Settleable(s.id) /\ SettleBody(s.id)
       \/ ~Settleable(s.id) /\ UNCHANGED <<trades, balance, allowance>>
    /\ UNCHANGED <<now, nextTradeId, eligible, hssCount, signed, bound>>

---------------------------------------------------------------------------
(* Recovery *)

Authorised(caller, id) ==
    caller \in {Venue, trades[id].terms.buyer, trades[id].terms.seller}

Reissue(id, caller, w) ==
    /\ trades[id].state = "Failed"
    /\ Authorised(caller, id)
    /\ ValidWindow(w[1], w[2])
    /\ trades' = [trades EXCEPT ![id].state = "AwaitingApprovals",
                                ![id].approved = {},
                                ![id].terms.settleAt = w[1],
                                ![id].terms.expiresAt = w[2]]
    /\ UNCHANGED <<now, nextTradeId, tokenVars, hssVars, signed, bound>>

(* deleteSchedule only reaches the schedule recorded in the trade. *)
Cancel(id, caller) ==
    /\ trades[id].state \in {"AwaitingApprovals", "Scheduled", "Failed"}
    /\ Authorised(caller, id)
    /\ pending' = {s \in pending : s.addr # trades[id].schedule}
    /\ Conclude(id, "Cancelled")
    /\ UNCHANGED <<now, nextTradeId, tokenVars, hssCount, signed, bound>>

---------------------------------------------------------------------------
(* The environment: desks set allowances, the compliance officer grants    *)
(* and revokes eligibility (or pauses a token), and time passes.  The      *)
(* network executes a schedule no later than its expiry second.            *)

SetAllowance(tok, d, amount) ==
    /\ amount # allowance[tok][d]
    /\ allowance' = [allowance EXCEPT ![tok][d] = amount]
    /\ UNCHANGED <<now, engineVars, balance, eligible, hssVars, signed, bound>>

SetEligible(tok, desks) ==
    /\ eligible' = [eligible EXCEPT ![tok] = desks]
    /\ UNCHANGED <<now, engineVars, balance, allowance, hssVars, signed, bound>>

Tick ==
    /\ now < MaxTime
    /\ \A s \in pending : now < s.expiry
    /\ now' = now + 1
    /\ UNCHANGED <<engineVars, tokenVars, hssVars, signed, bound>>

Next ==
    \/ \E i \in Instructions : CreateTrade(i)
    \/ \E id \in TradeIds, d \in Desks : SignApproval(id, d)
    \/ \E m \in signed : Approve(m)
    \/ \E id \in TradeIds : Settle(id)
    \/ \E s \in pending : NetworkExecutes(s)
    \/ \E id \in TradeIds, caller \in Desks \cup {Venue}, w \in Windows :
          Reissue(id, caller, w)
    \/ \E id \in TradeIds, caller \in Desks \cup {Venue} : Cancel(id, caller)
    \/ \E c \in AllowanceChoices : SetAllowance(c[1], c[2], c[3])
    \/ \E c \in EligibleChoices : SetEligible(c[1], c[2])
    \/ Tick

Spec == Init /\ [][Next]_vars

(* The clock runs and the network executes what it scheduled; no desk,     *)
(* venue or officer is obliged to act.                                     *)
Fairness ==
    /\ WF_vars(Tick)
    /\ WF_vars(\E s \in pending : NetworkExecutes(s))

FairSpec == Spec /\ Fairness
---------------------------------------------------------------------------
(* Views and properties *)

(* Seeded fault: the allowances of the wrong sides. *)
PreflightWrongSides(id) ==
    LET t == trades[id].terms IN
    [sellerHasPar    |-> balance["loan"][t.seller] >= t.par,
     sellerAllowance |-> allowance["loan"][t.buyer] >= t.par,
     buyerHasCash    |-> balance["cash"][t.buyer] >= t.cash,
     buyerAllowance  |-> allowance["cash"][t.seller] >= t.cash]

(* preflight: the four checks a front end shows before execution. *)
Preflight(id) ==
    LET t == trades[id].terms IN
    [sellerHasPar    |-> balance["loan"][t.seller] >= t.par,
     sellerAllowance |-> allowance["loan"][t.seller] >= t.par,
     buyerHasCash    |-> balance["cash"][t.buyer] >= t.cash,
     buyerAllowance  |-> allowance["cash"][t.buyer] >= t.cash]

(* Every variable holds a value the contract, the tokens and the network   *)
(* can hold; a trade that exists has two different desks as its parties.   *)
TypeOK ==
    /\ now \in Nat
    /\ nextTradeId \in 1..(MaxTrades + 1)
    /\ trades \in [TradeIds -> Trades]
    /\ \A id \in TradeIds : trades[id].state # "None" =>
          /\ trades[id].terms.buyer \in Desks
          /\ trades[id].terms.seller \in Desks
          /\ trades[id].terms.buyer # trades[id].terms.seller
    /\ balance \in [Tokens -> [Desks -> Nat]]
    /\ allowance \in [Tokens -> [Desks -> Nat]]
    /\ eligible \in [Tokens -> SUBSET Desks]
    /\ pending \subseteq [addr : Nat, id : TradeIds, expiry : Nat]
    /\ hssCount \in Nat
    /\ signed \subseteq [id : TradeIds, desk : Desks, hash : Hashes]
    /\ bound \in [TradeIds -> [Sides -> Hashes]]

(* "Binding the approval to the instruction hash guarantees both desks     *)
(* approved identical terms" (lines 157-158): whatever was reissued,       *)
(* delayed or signed twice in between, a trade that may settle or has      *)
(* settled was approved by each side at exactly the terms it now carries.  *)
ConsentToFinalTerms ==
    \A id \in TradeIds :
        trades[id].state \in {"Scheduled", "Settled"} =>
            \A side \in Sides : bound[id][side] = Hash(id)

(* The testnet defect the margin was added for (lines 83-86): the schedule *)
(* a trade is waiting for is its own, and the block that executes it, lag  *)
(* included, is never before settleAt.                                     *)
NetworkCallNeverTooEarly ==
    \A id \in TradeIds, s \in pending :
        (trades[id].state = "Scheduled" /\ s.addr = trades[id].schedule) =>
            s.id = id /\ s.expiry - BlockLag >= trades[id].terms.settleAt

(* A schedule address is recorded only while the trade waits for it, and   *)
(* no two trades ever wait for the same schedule, so cancelling one trade  *)
(* cannot delete another's schedule.                                       *)
SchedulesNotShared ==
    \A id \in TradeIds : trades[id].schedule # 0 =>
        /\ trades[id].state = "Scheduled"
        /\ \A other \in TradeIds \ {id} :
              trades[other].schedule # trades[id].schedule

(* preflight and settle read the same facts through different code: the    *)
(* step that settles or fails a trade settles it exactly when all four     *)
(* preflight checks and the tokens' own eligibility checks held before it. *)
PreflightPredictsOutcome ==
    [][\A id \in TradeIds :
        LET t == trades[id].terms
            checks == Preflight(id)
            ready == /\ checks.sellerHasPar /\ checks.sellerAllowance
                     /\ checks.buyerHasCash /\ checks.buyerAllowance
                     /\ \A tok \in Tokens : {t.buyer, t.seller} \subseteq eligible[tok]
        IN  trades[id].state = "Scheduled" =>
              /\ trades'[id].state = "Settled" => ready
              /\ trades'[id].state = "Failed" => ~ready]_vars

(* A settled or cancelled trade is never touched again, not even by a      *)
(* schedule from an earlier round that the network still executes, and no  *)
(* step settles two trades.                                                *)
ConcludedForGood ==
    [][/\ \A id \in TradeIds :
              trades[id].state \in {"Settled", "Cancelled"} =>
                  trades'[id] = trades[id]
       /\ \A a, b \in TradeIds :
              (trades'[a] # trades[a] /\ trades'[b] # trades[b]) => a = b]_vars

(* Delivery versus payment as bookkeeping: at every moment each desk holds *)
(* what it started with, plus what its settled purchases brought, minus    *)
(* what its settled sales took, in loan and in cash alike.  A failed,      *)
(* reissued, replayed or cancelled trade leaves no trace in either ledger. *)
(* What trades moved is counted unit by unit of their legs.                *)
Settled == {id \in TradeIds : trades[id].state = "Settled"}
Bought(d) == {id \in Settled : trades[id].terms.buyer = d}
Sold(d) == {id \in Settled : trades[id].terms.seller = d}
Units(book, ids, leg) == UNION {{id} \X (1..book[id].terms[leg]) : id \in ids}
Par(ids) == Cardinality(Units(trades, ids, "par"))
Cash(ids) == Cardinality(Units(trades, ids, "cash"))
LedgerReconciles ==
    \A d \in Desks :
        /\ balance["loan"][d] + Par(Sold(d)) = InitialBalance["loan"][d] + Par(Bought(d))
        /\ balance["cash"][d] + Cash(Bought(d)) = InitialBalance["cash"][d] + Cash(Sold(d))

(* The network resolves what it scheduled: a trade waiting for a schedule  *)
(* that executes inside its window leaves Scheduled without anybody's help.*)
WaitsForTimelyCall(id) ==
    /\ trades[id].state = "Scheduled"
    /\ \E s \in pending : /\ s.addr = trades[id].schedule
                          /\ s.expiry <= trades[id].terms.expiresAt
TimelyScheduleResolves ==
    \A id \in TradeIds :
        WaitsForTimelyCall(id) ~> trades[id].state # "Scheduled"

(* The engine implements the abstract exchange: approvals of the current   *)
(* round are the agreement, dates and schedules are internal.              *)
DealState(id) ==
    CASE trades[id].state = "None" -> "none"
      [] trades[id].state = "Settled" -> "done"
      [] trades[id].state = "Cancelled" -> "dead"
      [] OTHER -> "open"
EconomicsOf(terms) == [buyer |-> terms.buyer, seller |-> terms.seller,
                       par |-> terms.par, cash |-> terms.cash]

Abstract == INSTANCE DvP WITH
    NoDesk <- ZeroAddress,
    DealIds <- TradeIds,
    Offers <- {EconomicsOf(i) : i \in Instructions},
    StartBalance <- InitialBalance,
    deal <- [id \in TradeIds |-> DealState(id)],
    economics <- [id \in TradeIds |-> EconomicsOf(trades[id].terms)],
    agreed <- [id \in TradeIds |-> trades[id].approved],
    holdings <- balance

(* The engine implements DvP: both legs or neither, once, for the agreed   *)
(* economics, with both sides' approval of the current round.              *)
ImplementsDvP == Abstract!Spec
===========================================================================
