------------------------------- MODULE Register -------------------------------
(***************************************************************************)
(* The loan register: who is shown to hold what.  Balances live on two     *)
(* securities, the prepared one that desks trade and one composed in the   *)
(* issuance wizard and issued step by step.  The venue builds the lines of *)
(* the register (holderDirectory, the register page) from its directory of *)
(* desks and from the deployment record, while desks join, trade and are   *)
(* reset and the operator's scripts onboard institutions, change who is    *)
(* eligible, distribute par and place it with the feeder's holders.  The   *)
(* agent's reconciliation reads the prepared security balance by balance   *)
(* against the agent's own book.                                           *)
(***************************************************************************)
EXTENDS Integers, Sequences, FiniteSets, FiniteSetsExt

CONSTANTS
    Wallets,        \* every account that can hold par
    Agent,          \* the operator's account: the agent bank
    Pool,           \* the feeder's row in the agent's book
    FeederKeys,     \* the accounts of the feeder's retail holders
    Recorded,       \* those the deployment record lists at the start
    Source,         \* the account of the institution behind the feeder
    NamedDesks,     \* [name, wallet]: the desks of the venue that stay
    NewDesks,       \* [name, wallet]: self-service desks that may join
    Scripted,       \* [name, wallet, role, eligible]: deployment.institutions
    Onboardable,    \* what the onboarding script may be run for: [name, wallet, role]
    OpeningPar,     \* the prepared security's balances at the start
    Position,       \* where the agent's export has the row of a wallet
    Principals,     \* what may be asked for in the wizard
    Inputs,         \* the allocation rows that may be entered, as sequences
    MaxMoves        \* bound: movements of the prepared security, script runs

Desks == NamedDesks \cup NewDesks
Apart == {Agent} \cup FeederKeys   \* the accounts of no desk and no lender

RegisterAssumption ==
    /\ IsFiniteSet(Wallets) /\ Pool \notin Wallets
    /\ Agent \in Wallets \ FeederKeys /\ Source \in Wallets \ FeederKeys
    /\ FeederKeys \subseteq Wallets /\ Recorded \subseteq FeederKeys
    \* every desk has a wallet of its own, created for it
    /\ IsFiniteSet(Desks) /\ NamedDesks \cap NewDesks = {}
    /\ \A d \in Desks : d.wallet \in Wallets \ Apart
    /\ \A d, e \in Desks : d.wallet = e.wallet => d = e
    \* the scripts are run for lenders' accounts, one record an account
    /\ IsFiniteSet(Scripted)
    /\ \A i \in Scripted : i = [name |-> i.name, wallet |-> i.wallet, role |-> i.role,
                                eligible |-> i.eligible]
    /\ \A i, j \in Scripted : i.wallet = j.wallet => i = j
    /\ \A i \in Scripted \cup Onboardable :
          i.wallet \in Wallets \ (Apart \cup {d.wallet : d \in NewDesks})
    /\ \A i \in Onboardable : i.role # "outsider"
    \* a recorded retail holder has its par, and par lies in listed accounts
    /\ OpeningPar \in [Wallets -> Nat]
    /\ \A k \in FeederKeys : OpeningPar[k] = IF k \in Recorded THEN 1 ELSE 0
    /\ \A w \in Wallets \ Apart : OpeningPar[w] > 0 =>
          \/ \E d \in NamedDesks : d.wallet = w
          \/ \E i \in Scripted : i.wallet = w /\ i.role # "outsider"
    /\ Position \in [Wallets -> Nat]
    /\ Principals \subseteq Nat
    /\ Inputs \subseteq Seq([wallet : Wallets, par : Nat])
ASSUME RegisterAssumption

Prepared == "prepared"
Issued == "issued"
Securities == {Prepared, Issued}

VARIABLES
    org,          \* the desks of the institution directory
    left,         \* wallets of desks that were reset: nothing on chain is deleted
    institutions, \* deployment.institutions
    holders,      \* deployment.feeder.holders
    feeder,       \* the feeder script's run: the account it works on, and where it is
    par,          \* balances, per security and wallet
    listed,       \* control lists, per security
    kyc,          \* accounts with KYC, per security
    moves,        \* bound: movements and script runs so far
    log,          \* movements the agent's book has to follow, oldest first
    exported,     \* those it can know of: exported, or the agent's own
    booked,       \* those it has processed
    book,         \* the agent's book: the par of each lender it lists
    mapped,       \* the lenders of the book that resolve to a wallet
    issue,        \* the issuance: its terms, its remaining steps, its state
    audit         \* the reconciliation under way or last done

deskVars == <<org, left>>
scriptVars == <<institutions, holders, feeder>>
eligibility == <<listed, kyc>>
bookVars == <<log, exported, booked, book, mapped>>
vars == <<deskVars, scriptVars, par, eligibility, moves, bookVars, issue, audit>>

(* What the keys of a set hold together. *)
Held(balances, keys) == MapThenSumSet(LAMBDA k : balances[k], keys)
Supply(balances) == Held(balances, Wallets)

-----------------------------------------------------------------------------
(* The directory: a line per desk; an institution onboarded by script gets *)
(* one unless its wallet is listed already, and an account of an           *)
(* institution that has a line is folded into the first line of its name;  *)
(* the agent; the feeder.                                                  *)

Anchors == {i \in institutions : i.role # "outsider"}
Unlisted == {i \in Anchors : \A d \in org : d.wallet # i.wallet}
Accounts(set, name) == {i.wallet : i \in {a \in set : a.name = name}}
FirstDesk(name) == CHOOSE d \in org : d.name = name
Folded(d) == IF d = FirstDesk(d.name) THEN Accounts(Unlisted, d.name) ELSE {}
DeskLines ==
    {[name |-> d.name, kind |-> "desk", wallets |-> {d.wallet} \cup Folded(d)] : d \in org}

(* Seeded fault: an account that has a line is given another one. *)
AnchorLinesAgain == {[name |-> i.name, kind |-> "anchor", wallets |-> {i.wallet}]
                     : i \in Anchors}

AnchorLines ==
    LET fresh == {i.name : i \in Unlisted} \ {d.name : d \in org}
    IN  {[name |-> n, kind |-> "anchor", wallets |-> Accounts(Unlisted, n)] : n \in fresh}

Directory ==
    DeskLines \cup AnchorLines
        \cup {[name |-> "agent", kind |-> "agent", wallets |-> {Agent}],
              [name |-> "feeder", kind |-> "feeder", wallets |-> holders]}

(* holderView: what a line holds of a security. *)
HolderPar(s, line) == Held(par[s], line.wallets)

(* issuanceLenders: neither the agent nor the feeder, and of each line the *)
(* first wallet, the desk's own.                                           *)
FirstWallet(line) ==
    IF line.kind = "desk" THEN CHOOSE w \in line.wallets : \E d \in org : d.wallet = w
    ELSE CHOOSE w \in line.wallets : TRUE

(* Seeded fault: the agent can be allocated par like any lender. *)
LendersAndAgent == {FirstWallet(line) : line \in {l \in Directory : l.kind # "feeder"}}

Lenders ==
    {FirstWallet(line) : line \in {l \in Directory : l.kind \notin {"agent", "feeder"}}}

-----------------------------------------------------------------------------
(* Composing an issuance *)

(* validateIssuanceTerms keeps the rows with an amount, in their order: the *)
(* n-th is the row up to which there are n.                                *)
EnteredUpTo(rows, i) == Cardinality({j \in 1..i : rows[j].par > 0})
Entered(rows) ==
    [n \in 1..EnteredUpTo(rows, Len(rows)) |->
        rows[CHOOSE i \in 1..Len(rows) : rows[i].par > 0 /\ EnteredUpTo(rows, i) = n]]
NoDuplicate(rows) ==
    \A i, j \in DOMAIN rows : rows[i].wallet = rows[j].wallet => i = j
RowsPar(rows) == Held([i \in DOMAIN rows |-> rows[i].par], DOMAIN rows)

Valid(principal, rows) ==
    /\ principal > 0
    /\ NoDuplicate(rows)
    /\ RowsPar(rows) <= principal

Step(op, wallet, amount) == [op |-> op, wallet |-> wallet, amount |-> amount]

(* issuanceSteps: the agent first, then each lender, then the remainder.   *)
(* The rate notice, the last step, is Issuance's.                          *)
LenderSteps(a) == <<Step("whitelist", a.wallet, 0), Step("kyc", a.wallet, 0),
                    Step("issue", a.wallet, a.par)>>
Unallocated(principal, rows) == principal - RowsPar(rows)
issuanceSteps(principal, rows) ==
    LET lender == [i \in 1..3 * Len(rows) |->
                      LenderSteps(rows[(i + 2) \div 3])[((i - 1) % 3) + 1]]
        remainder == Unallocated(principal, rows)
    IN  <<Step("create", Agent, principal), Step("issuer", Agent, 0),
          Step("whitelist", Agent, 0), Step("kyc", Agent, 0)>>
        \o lender
        \o (IF remainder > 0 THEN <<Step("issue", Agent, remainder)>> ELSE <<>>)

NoIssue == [state |-> "none", principal |-> 0, rows |-> <<>>, steps |-> <<>>]

-----------------------------------------------------------------------------
NoAudit == [state |-> "none", todo |-> {}, rows |-> <<>>, known |-> {}, pool |-> {}, extra |-> {},
            read |-> <<>>, from |-> <<>>, moved |-> 0, supply |-> 0]
NoRun == [account |-> Agent, pc |-> "idle"]

(* What a row of the agent's book or of the report stands for on chain. *)
WalletsOf(row, pool) == IF row = Pool THEN pool ELSE {row}

Init ==
    /\ org = NamedDesks
    /\ left = {}
    /\ institutions = Scripted
    /\ holders = Recorded
    /\ feeder = NoRun
    /\ par = [s \in Securities |-> [w \in Wallets |->
                IF s = Prepared THEN OpeningPar[w] ELSE 0]]
    /\ listed = [s \in Securities |->
                    IF s = Prepared
                    THEN {w \in Wallets : OpeningPar[w] > 0} \cup {d.wallet : d \in NamedDesks}
                         \cup {i.wallet : i \in {x \in Scripted : x.eligible}} ELSE {}]
    /\ kyc = listed
    /\ moves = 0
    /\ log = <<>> /\ exported = {} /\ booked = {}
    /\ book = [r \in {Pool} \cup {w \in Wallets \ Recorded : OpeningPar[w] > 0} |->
                  Held(OpeningPar, WalletsOf(r, Recorded))]
    /\ mapped = DOMAIN book
    /\ issue = NoIssue
    /\ audit = NoAudit

Eligible(s, w) == w \in listed[s] \cap kyc[s]
(* Bound: the two securities share only the directory, so the prepared one *)
(* moves and is reconciled in behaviours without an issuance.              *)
NoIssuance == issue.state = "none"
Moves == NoIssuance /\ moves < MaxMoves /\ moves' = moves + 1
(* One unit of the prepared security changes hands. *)
Transfer(from, to) ==
    /\ par[Prepared][from] > 0 /\ Eligible(Prepared, from) /\ Eligible(Prepared, to)
    /\ par' = [par EXCEPT ![Prepared][from] = @ - 1, ![Prepared][to] = @ + 1]
    /\ audit' = IF audit.state = "reading" THEN [audit EXCEPT !.moved = @ + 1] ELSE audit
(* The operator issues one unit of it. *)
Issue(to) ==
    /\ par' = [par EXCEPT ![Prepared][to] = @ + 1]
    /\ audit' = IF audit.state = "reading" THEN [audit EXCEPT !.moved = @ + 1] ELSE audit

(* A first sign-in provisions a desk with a wallet of its own. *)
Join(d) ==
    /\ d \notin org /\ d.wallet \notin left
    /\ org' = org \cup {d}
    /\ UNCHANGED <<left, scriptVars, par, eligibility, moves, bookVars, issue, audit>>

(* resetDesk drops a self-service desk from the directory; its par stays   *)
(* in the old wallet.                                                      *)
ResetDesk(d) ==
    /\ d \in org \ NamedDesks
    /\ org' = org \ {d}
    /\ left' = left \cup {d.wallet}
    /\ UNCHANGED <<scriptVars, par, eligibility, moves, bookVars, issue, audit>>

(* The operator's onboarding of a new desk: eligible, then allocated.      *)
Allocate(d) ==
    /\ d \in org \ NamedDesks
    /\ Moves
    /\ listed' = [listed EXCEPT ![Prepared] = @ \cup {d.wallet}]
    /\ kyc' = [kyc EXCEPT ![Prepared] = @ \cup {d.wallet}]
    /\ Issue(d.wallet)
    /\ UNCHANGED <<deskVars, scriptVars, bookVars, issue>>

(* A trade of one unit settles: the engine moves the seller's par. *)
Settle(seller, buyer) ==
    /\ seller.wallet # buyer.wallet
    /\ Moves
    /\ Transfer(seller.wallet, buyer.wallet)
    /\ log' = Append(log, [seller |-> seller.wallet, buyer |-> buyer.wallet])
    /\ UNCHANGED <<deskVars, scriptVars, eligibility, exported, booked, book, mapped, issue>>

-----------------------------------------------------------------------------
(* The operator's scripts *)

(* onboard-institution: the record of the wallet is replaced by a new one, *)
(* which says nothing of eligibility.                                      *)
Onboard(i) ==
    /\ Moves
    /\ institutions' = {x \in institutions : x.wallet # i.wallet}
                          \cup {[name |-> i.name, wallet |-> i.wallet, role |-> i.role,
                                 eligible |-> FALSE]}
    /\ UNCHANGED <<deskVars, holders, feeder, par, eligibility, bookVars, issue, audit>>

(* set-eligibility: control list and KYC first, the record last.           *)
SetEligibility(i, grant) ==
    /\ Moves
    /\ LET change(set) == IF grant THEN set \cup {i.wallet} ELSE set \ {i.wallet} IN
         /\ listed' = [listed EXCEPT ![Prepared] = change(@)]
         /\ kyc' = [kyc EXCEPT ![Prepared] = change(@)]
    /\ institutions' = (institutions \ {i}) \cup {[i EXCEPT !.eligible = grant]}
    /\ UNCHANGED <<deskVars, holders, feeder, par, bookVars, issue, audit>>

(* allocate: an eligible lender's opening position. *)
AllocateOpening(i) ==
    /\ Moves
    /\ Eligible(Prepared, i.wallet)
    /\ Issue(i.wallet)
    /\ UNCHANGED <<deskVars, scriptVars, eligibility, bookVars, issue>>

(* allocate-asset: the par the agent holds of the issued security goes to  *)
(* a lender, which is listed and gets KYC unless it has them.              *)
Distribute(i) ==
    /\ issue.state = "completed"
    /\ par[Issued][Agent] > 0
    /\ listed' = [listed EXCEPT ![Issued] = @ \cup {i.wallet}]
    /\ kyc' = [kyc EXCEPT ![Issued] = @ \cup {i.wallet}]
    /\ par' = [par EXCEPT ![Issued][Agent] = @ - 1, ![Issued][i.wallet] = @ + 1]
    /\ UNCHANGED <<deskVars, scriptVars, moves, bookVars, issue, audit>>

(* feeder-demo: every account that is not recorded is made eligible, gets  *)
(* its par from the feeder and is recorded.  A run may stop anywhere; each *)
(* step of the next run asks first whether it is needed.                   *)
FeederBegins(k) ==
    /\ feeder = NoRun /\ k \notin holders /\ NoIssuance
    /\ feeder' = [account |-> k, pc |-> "eligible"]
    /\ UNCHANGED <<deskVars, institutions, holders, par, eligibility, moves, bookVars, issue, audit>>
FeederLists ==
    /\ feeder.pc = "eligible"
    /\ listed' = [listed EXCEPT ![Prepared] = @ \cup {feeder.account}]
    /\ kyc' = [kyc EXCEPT ![Prepared] = @ \cup {feeder.account}]
    /\ feeder' = [feeder EXCEPT !.pc = "transfer"]
    /\ UNCHANGED <<deskVars, institutions, holders, par, moves, bookVars, issue, audit>>
(* Seeded fault: par is transferred to every account that is not recorded. *)
NeedsParAlways(k) == TRUE

NeedsPar(k) == par[Prepared][k] < 1
FeederTransfers ==
    /\ feeder.pc = "transfer" /\ NeedsPar(feeder.account)
    /\ Moves
    /\ Transfer(Source, feeder.account)
    /\ log' = Append(log, [seller |-> Source, buyer |-> Pool])
    /\ exported' = exported \cup {Len(log')}
    /\ feeder' = [feeder EXCEPT !.pc = "record"]
    /\ UNCHANGED <<deskVars, institutions, holders, eligibility, booked, book, mapped, issue>>
FeederHasPar ==
    /\ feeder.pc = "transfer" /\ ~NeedsPar(feeder.account)
    /\ feeder' = [feeder EXCEPT !.pc = "record"]
    /\ UNCHANGED <<deskVars, institutions, holders, par, eligibility, moves, bookVars, issue, audit>>
FeederRecords ==
    /\ feeder.pc = "record"
    /\ holders' = holders \cup {feeder.account}
    /\ feeder' = NoRun
    /\ UNCHANGED <<deskVars, institutions, par, eligibility, moves, bookVars, issue, audit>>
FeederStops ==
    /\ feeder # NoRun
    /\ feeder' = NoRun
    /\ UNCHANGED <<deskVars, institutions, holders, par, eligibility, moves, bookVars, issue, audit>>

(* export-assignments: the trades read one by one; one that settles while  *)
(* they are read may be missing though a later one is there.               *)
Export(some) ==
    /\ exported' = exported \cup some
    /\ UNCHANGED <<deskVars, scriptVars, par, eligibility, moves, log, booked, book, mapped,
                   issue, audit>>

(* The agent processes an assignment it knows of in its own system: a      *)
(* lender that is new to the book gets a row, with or without its wallet.  *)
(* An assignor the book does not list stays out of it.                     *)
BookPar(r) == IF r \in DOMAIN book THEN book[r] ELSE 0
Process(n) ==
    /\ n \in exported \ booked
    /\ LET t == log[n]
           rows == DOMAIN book \cup {t.buyer}
           change(r) == (IF r = t.buyer THEN 1 ELSE 0)
                        - (IF r = t.seller /\ BookPar(r) > 0 THEN 1 ELSE 0)
       IN  /\ book' = [r \in rows |-> BookPar(r) + change(r)]
           /\ \/ mapped' = mapped \cup {t.buyer}
              \/ t.buyer \notin DOMAIN book /\ UNCHANGED mapped
    /\ booked' = booked \cup {n}
    /\ UNCHANGED <<deskVars, scriptVars, par, eligibility, moves, log, exported, issue, audit>>

-----------------------------------------------------------------------------
(* The issuance *)

(* beginIssuance: the terms are validated and every allocation is to a     *)
(* lender of the register.                                                 *)
Begin(principal, rows) ==
    /\ issue.state = "none"
    /\ moves = 0 /\ audit.state = "none" /\ feeder = NoRun   \* bound: see NoIssuance
    /\ LET kept == Entered(rows)
       IN  /\ Valid(principal, kept)
           /\ \A i \in DOMAIN kept : kept[i].wallet \in Lenders
           /\ issue' = [state |-> "active", principal |-> principal, rows |-> kept,
                        steps |-> issuanceSteps(principal, kept)]
    /\ UNCHANGED <<deskVars, scriptVars, par, eligibility, moves, bookVars, audit>>

(* The security's own rules: par is issued to listed accounts with KYC,    *)
(* and never beyond the maximum supply it was created with.                *)
Accepts(step) ==
    step.op = "issue" =>
        /\ Eligible(Issued, step.wallet)
        /\ Supply(par[Issued]) + step.amount <= issue.principal

IssueStep ==
    /\ issue.state = "active" /\ issue.steps # <<>>
    /\ LET step == Head(issue.steps)
           next == [issue EXCEPT !.steps = Tail(@)]
           added(op) == IF step.op = op THEN {step.wallet} ELSE {}
       IN  \/ /\ Accepts(step)
              /\ issue' = next
              /\ listed' = [listed EXCEPT ![Issued] = @ \cup added("whitelist")]
              /\ kyc' = [kyc EXCEPT ![Issued] = @ \cup added("kyc")]
              /\ par' = IF step.op = "issue"
                        THEN [par EXCEPT ![Issued][step.wallet] = @ + step.amount]
                        ELSE par
           \/ /\ ~Accepts(step)
              /\ issue' = [issue EXCEPT !.state = "failed"]
              /\ UNCHANGED <<par, eligibility>>
    /\ UNCHANGED <<deskVars, scriptVars, moves, bookVars, audit>>

(* verifyPrincipal: the supply is the principal, the agent holds the rest. *)
Verified ==
    /\ Supply(par[Issued]) = issue.principal
    /\ par[Issued][Agent] = Unallocated(issue.principal, issue.rows)

Complete ==
    /\ issue.state = "active" /\ issue.steps = <<>>
    /\ issue' = [issue EXCEPT !.state = IF Verified THEN "completed" ELSE "mismatch"]
    /\ UNCHANGED <<deskVars, scriptVars, par, eligibility, moves, bookVars, audit>>

-----------------------------------------------------------------------------
(* reconcile-register: the rows of the agent's export, one balance at a    *)
(* time (the feeder's row holder by holder), then the eligible scripted    *)
(* institutions no row was mapped to, then the total supply.               *)
Reconcile ==
    /\ audit.state = "none" /\ NoIssuance
    /\ LET read == UNION {WalletsOf(r, holders) : r \in DOMAIN book \cap mapped}
           extra == {i.wallet : i \in {x \in institutions : x.eligible}} \ read
       IN  audit' = [NoAudit EXCEPT !.state = "reading", !.rows = book, !.known = mapped,
                         !.pool = holders, !.extra = extra, !.from = par[Prepared],
                         !.todo = read \cup extra]
    /\ UNCHANGED <<deskVars, scriptVars, par, eligibility, moves, bookVars, issue>>

(* The rows come in the order of the file, the eligible institutions last. *)
Due ==
    LET rows == audit.todo \ audit.extra
        due == IF rows = {} THEN audit.todo ELSE rows
    IN  {w \in due : \A x \in due : Position[w] <= Position[x]}

ReadRow ==
    /\ audit.state = "reading"
    /\ \E w \in Due :
          audit' = [audit EXCEPT !.todo = @ \ {w},
                         !.read = [x \in DOMAIN @ \cup {w} |->
                                     IF x = w THEN par[Prepared][w] ELSE @[x]]]
    /\ UNCHANGED <<deskVars, scriptVars, par, eligibility, moves, bookVars, issue>>

(* Seeded fault: the total is that of the accounts read, not totalSupply. *)
ReadListedSupply ==
    /\ audit.state = "reading" /\ audit.todo = {}
    /\ audit' = [audit EXCEPT !.state = "done", !.supply = Held(audit.read, DOMAIN audit.read)]
    /\ UNCHANGED <<deskVars, scriptVars, par, eligibility, moves, bookVars, issue>>

ReadSupply ==
    /\ audit.state = "reading" /\ audit.todo = {}
    /\ audit' = [audit EXCEPT !.state = "done", !.supply = Supply(par[Prepared])]
    /\ UNCHANGED <<deskVars, scriptVars, par, eligibility, moves, bookVars, issue>>

StatusOf(r) ==
    IF r \notin audit.known THEN "UNMAPPED"
    ELSE IF Held(audit.read, WalletsOf(r, audit.pool)) = audit.rows[r] THEN "AGREES" ELSE "BREAK"
BookTotal == Held(audit.rows, DOMAIN audit.rows)
(* agreementRate and totals: nothing to report. *)
FullAgreement ==
    /\ audit.state = "done"
    /\ \A r \in DOMAIN audit.rows : StatusOf(r) = "AGREES"
    /\ \A w \in audit.extra : audit.read[w] = 0
    /\ audit.supply = BookTotal

(* The report is written; the next run starts afresh. *)
Report ==
    /\ audit.state = "done"
    /\ audit' = NoAudit
    /\ UNCHANGED <<deskVars, scriptVars, par, eligibility, moves, bookVars, issue>>

Next ==
    \/ \E d \in NewDesks : Join(d) \/ ResetDesk(d) \/ Allocate(d)
    \/ \E s, b \in org \cup Anchors : Settle(s, b)
    \/ \E i \in Onboardable : Onboard(i)
    \/ \E i \in Anchors : \/ SetEligibility(i, TRUE) \/ SetEligibility(i, FALSE)
                          \/ AllocateOpening(i) \/ Distribute(i)
    \/ \E k \in FeederKeys : FeederBegins(k)
    \/ FeederLists \/ FeederTransfers \/ FeederHasPar \/ FeederRecords \/ FeederStops
    \/ \E some \in SUBSET DOMAIN log : Export(some)
    \/ \E n \in DOMAIN log : Process(n)
    \/ \E p \in Principals, rows \in Inputs : Begin(p, rows)
    \/ IssueStep
    \/ Complete
    \/ Reconcile
    \/ ReadRow
    \/ ReadSupply
    \/ Report

Spec == Init /\ [][Next]_vars

-----------------------------------------------------------------------------
(* Properties *)

(* A page of the register: the lines of a security's lenders, those that   *)
(* hold par.                                                               *)
Page(s) == {line \in Directory : HolderPar(s, line) > 0}
PagePar(s) == [line \in Page(s) |-> HolderPar(s, line)]
Shown == {Prepared} \cup (IF issue.state = "completed" THEN {Issued} ELSE {})

(* Whatever desks joined, were reset or traded and whichever script ran or *)
(* stopped half way, the lines of the register add up to the supply: no    *)
(* account is counted on two lines, and what is missing lies in wallets of *)
(* reset desks, or with a retail holder whose run stopped before it was    *)
(* recorded.                                                               *)
RegisterAddsUp ==
    \A s \in Shown :
        Held(PagePar(s), Page(s)) + Held(par[s], left \cup (FeederKeys \ holders)) = Supply(par[s])

(* An issuance that was accepted goes through: the security refuses none   *)
(* of its steps in the order they were composed, verifyPrincipal finds     *)
(* what it expects, and each lender ends with the par it was allocated.    *)
IssuedAsComposed ==
    [][/\ issue'.state \notin {"failed", "mismatch"}
       /\ Complete => \A i \in DOMAIN issue.rows :
                         par'[Issued][issue.rows[i].wallet] = issue.rows[i].par]_vars

(* "Every step below is resumable: a holder that was half onboarded by an  *)
(* interrupted run ... is completed rather than repeated" (feeder-demo.ts  *)
(* 68): a retail holder never gets par twice, and one that is recorded has *)
(* it, wherever runs stopped.                                              *)
HeldOnce ==
    \A k \in FeederKeys : /\ par[Prepared][k] <= 1
                          /\ k \in holders => par[Prepared][k] = 1 /\ Eligible(Prepared, k)

(* A report in which every line agrees and the totals do not differ is     *)
(* true of the register as it was when the report began or when it ended,  *)
(* if nothing moved while it was read; or if one transfer or allocation    *)
(* did, and no par lay in accounts the report does not read: those of      *)
(* self-service desks, ineligible institutions and retail holders that     *)
(* neither the book nor the deployment record lists.                       *)
Describes(balances) ==
    /\ \A r \in DOMAIN audit.rows :
          Held(balances, WalletsOf(r, audit.pool)) = audit.rows[r]
    /\ Held(balances, Wallets) = BookTotal
Unread == Wallets \ DOMAIN audit.read
FewMoves ==
    \/ audit.moved = 0
    \/ audit.moved = 1 /\ Held(audit.from, Unread) = 0
AgreementWasTrue ==
    [][ReadSupply /\ FullAgreement' /\ FewMoves' =>
          Describes(audit.from) \/ Describes(par[Prepared])]_vars
=============================================================================
