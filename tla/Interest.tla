------------------------------ MODULE Interest ------------------------------
(***************************************************************************)
(* One facility's interest, from the agent's rate notice to the payout.    *)
(*                                                                         *)
(* The agent keeps a notice private and publishes its commitment on a      *)
(* topic (notices.ts); the enclave's run checks the notice it is served    *)
(* against the newest commitment and releases the amounts (workflow.ts,    *)
(* run-demo.mjs); pay-interest.ts pays them in batches and records what it *)
(* paid; the register shows the result (register-interest.ts).             *)
(*                                                                         *)
(* The processes share files and the topic and nothing locks them; any of  *)
(* them may stop between two steps.  The topic is read through a mirror,   *)
(* which may lack the newest message (or a chunk of it).                   *)
(***************************************************************************)
EXTENDS Integers, Sequences, SequencesExt, FiniteSetsExt

CONSTANTS
    Wallets,       \* every wallet that may hold par, in the order of registerSnapshot
    InitialPar,    \* InitialPar[h]: par of wallet h
    Payable,       \* the wallets that can be paid from the start
    Rate,          \* Rate[a]: rateBps of the notices that a creates
    Days, Basis,   \* length of a period, dayCountBasis
    UNIT,          \* units of mock USD per dollar (1_000_000 in the code)
    BATCH,         \* credits per transfer (9 in the code)
    Agents,        \* requests that create a notice, or scripts that do
    NoRelease,
    MaxNotices, MaxRuns,   \* bounds
    MaxUpsets      \* bound: payouts forced, trades, desks that join, stops

Holders == ToSet(Wallets)

ASSUME InterestAssumption ==
    /\ Wallets \in Seq(Holders) /\ IsInjective(Wallets)
    /\ InitialPar \in [Holders -> Nat]
    /\ Payable \subseteq Holders /\ Rate \in [Agents -> Nat]
    /\ {Days, Basis, UNIT, BATCH} \subseteq Nat \ {0}
    /\ {MaxNotices, MaxRuns, MaxUpsets} \subseteq Nat

VARIABLES
    known,       \* wallets of the directory: the first "known" ones
    par,         \* the register
    payable,     \* wallets with an account, associated, with KYC, not frozen
    topic,       \* the commitments on the notices topic
    notices,     \* the private notices, oldest first
    agent,       \* createAndCommit under way
    enclave,     \* the run under way: the commitment it read and the rate it was served
    released,    \* evidence/distributions/<facility>.json
    payer,       \* pay-interest under way
    chain,       \* transfers executed, oldest first: <<[seal, paid]>>
    payoutFile,  \* evidence/payouts/<facility>.json, or no payout
    record,      \* interestPayouts of the deployment record
    salts, runs, forces, moves, faults

register == <<known, par, payable>>
notes == <<topic, notices, agent, salts>>
evidence == <<payoutFile, record>>
vars == <<register, notes, enclave, released, payer, chain, evidence, runs, forces, moves, faults>>

NoPayout == [seal |-> NoRelease, paid |-> <<>>, batches |-> <<>>]
AtRest == [pc |-> "idle"]

Init ==
    /\ known = Len(Wallets) - 1
    /\ par = InitialPar
    /\ payable = Payable
    /\ topic = <<>> /\ notices = <<>> /\ released = NoRelease
    /\ agent = [a \in Agents |-> AtRest] /\ enclave = AtRest /\ payer = AtRest
    /\ chain = <<>> /\ payoutFile = NoPayout /\ record = <<>>
    /\ salts = 0 /\ runs = 0 /\ forces = 0 /\ moves = 0 /\ faults = 0

Upsettable == forces + moves + faults + known - (Len(Wallets) - 1) < MaxUpsets

-----------------------------------------------------------------------------
(* createAndCommit.  Two of them may have read the same notices.           *)
registerSnapshot == SubSeq(Wallets, 1, known)
NextPeriod == Max({n.period : n \in ToSet(notices)} \cup {0}) + 1
(* commitmentOf: a hash, so only equality is ever asked of it; the salt    *)
(* (the random nonce) makes it unique.                                     *)
commitmentOf(n) == [period |-> n.period, rate |-> n.rate, salt |-> n.salt]

CreatesNotice(a) ==
    /\ agent[a] = AtRest /\ salts < MaxNotices
    /\ salts' = salts + 1
    /\ agent' = [agent EXCEPT ![a] = [pc |-> "publish", period |-> NextPeriod, rate |-> Rate[a],
                                      salt |-> salts', holders |-> registerSnapshot]]
    /\ UNCHANGED <<register, topic, notices, enclave, released, payer, chain, evidence,
                   runs, forces, moves, faults>>
PublishesCommitment(a) ==
    /\ agent[a].pc = "publish"
    /\ topic' = Append(topic, [seal |-> commitmentOf(agent[a]), holders |-> agent[a].holders])
    /\ agent' = [agent EXCEPT ![a].pc = "save"]
    /\ UNCHANGED <<register, notices, salts, enclave, released, payer, chain, evidence,
                   runs, forces, moves, faults>>
SavesNotice(a) ==
    /\ agent[a].pc = "save"
    /\ notices' = Append(notices, commitmentOf(agent[a]))
    /\ agent' = [agent EXCEPT ![a] = AtRest]
    /\ UNCHANGED <<register, topic, salts, enclave, released, payer, chain, evidence,
                   runs, forces, moves, faults>>
Agent(a) == CreatesNotice(a) \/ PublishesCommitment(a) \/ SavesNotice(a)

(* Seeded fault: the period's latest notice. *)
findLatestNotice(period) == SelectLastInSeq(notices, LAMBDA n : n.period = period)

(* The first notice of the period, as the private endpoint serves it.      *)
findNotice(period) == SelectInSeq(notices, LAMBDA n : n.period = period)

-----------------------------------------------------------------------------
(* completeMessages, newest first: what a read of the mirror may end with. *)
Mirrored == {n \in {Len(topic) - 1, Len(topic)} : n > 0}

(* accrual: integers, rounded down. *)
accrual(p, rate) == (p * rate * Days * UNIT) \div (10000 * Basis)
(* Seeded fault: a notice of the committed period is good enough. *)
VerifiedPeriod(notice, seal) == notice.period = seal.period

Verified(notice, seal) == commitmentOf(notice) = seal

(* onCronTrigger in a run of run-demo.mjs: the newest commitment, then the *)
(* notice of its period, refused unless it is the committed one, and last  *)
(* the balances.                                                           *)
ReadsCommitment ==
    /\ enclave = AtRest /\ notices # <<>> /\ runs < MaxRuns
    /\ runs' = runs + 1
    /\ \E n \in Mirrored : enclave' = [pc |-> "notice", on |-> topic[n]]
    /\ UNCHANGED <<register, notes, released, payer, chain, evidence, forces, moves, faults>>
FetchesNotice ==
    /\ enclave.pc = "notice"
    /\ LET seal == enclave.on.seal
           i == findNotice(seal.period)
       IN  enclave' = IF i # 0 /\ Verified(notices[i], seal)
                      THEN [pc |-> "release", on |-> enclave.on, rate |-> notices[i].rate]
                      ELSE AtRest
    /\ UNCHANGED <<register, notes, released, payer, chain, evidence, runs, forces, moves, faults>>
Distribution(holders, rate) ==
    [k \in DOMAIN holders |-> [holder |-> holders[k], units |-> accrual(par[holders[k]], rate)]]
Releases ==
    /\ enclave.pc = "release"
    /\ released' = [seal |-> enclave.on.seal,
                    distribution |-> Distribution(enclave.on.holders, enclave.rate)]
    /\ enclave' = AtRest
    /\ UNCHANGED <<register, notes, payer, chain, evidence, runs, forces, moves, faults>>
Enclave == ReadsCommitment \/ FetchesNotice \/ Releases

-----------------------------------------------------------------------------
(* pay-interest.ts *)
(* The sequences at the places K of a sequence of sequences, joined.       *)
Joined(seqs, K) == FlattenSeq([k \in DOMAIN seqs |-> IF k \in K THEN seqs[k] ELSE <<>>])
(* Where the record has the payouts of a commitment. *)
Priors(seal) == {k \in DOMAIN record : record[k].seal = seal}
PaidHolders(paid) == {paid[k].holder : k \in DOMAIN paid}
(* Seeded fault: the first payout counts, not the catch-ups after it. *)
alreadyPaidFirst(seal) ==
    IF Priors(seal) = {} THEN {} ELSE PaidHolders(record[Min(Priors(seal))].paid)

(* Seeded fault: a holder that was skipped counts as dealt with. *)
alreadyListed(seal) == IF Priors(seal) = {} THEN {} ELSE Holders

alreadyPaid(seal) == UNION {PaidHolders(record[k].paid) : k \in Priors(seal)}
(* Those of a distribution that can be paid, in its order.                 *)
Unpaid(distribution, already) ==
    Joined([k \in DOMAIN distribution |-> <<distribution[k]>>],
           {k \in DOMAIN distribution : /\ distribution[k].holder \in payable \ already
                                        /\ distribution[k].units > 0})

(* Up to the first transaction: refuse to pay a period twice, check the    *)
(* commitment against the newest one of the period on the topic, and list  *)
(* the holders that can be paid.                                           *)
StartsPayout(mode) ==
    /\ payer = AtRest /\ released # NoRelease
    /\ mode = "force" => Upsettable
    /\ mode = "plain" => Priors(released.seal) = {}
    /\ \E n \in Mirrored : \E m \in 1..n :
         /\ topic[m].seal = released.seal
         /\ \A k \in m + 1..n : topic[k].seal.period # released.seal.period
    /\ LET already == IF mode = "catchUp" THEN alreadyPaid(released.seal) ELSE {}
           todo == Unpaid(released.distribution, already)
       IN  /\ todo # <<>>
           /\ payer' = [pc |-> "pay", mode |-> mode, seal |-> released.seal, paid |-> todo,
                        sent |-> 0, batches |-> <<>>]
    /\ forces' = forces + (IF mode = "force" THEN 1 ELSE 0)
    /\ UNCHANGED <<register, notes, enclave, released, chain, evidence, runs, moves, faults>>
(* One transfer credits a batch of holders or none of them. *)
PaysBatch ==
    /\ payer.pc = "pay"
    /\ LET end == Min({payer.sent + BATCH, Len(payer.paid)})
           slice == SubSeq(payer.paid, payer.sent + 1, end)
       IN  /\ chain' = Append(chain, [seal |-> payer.seal, paid |-> slice])
           /\ payer' = [payer EXCEPT
                  !.pc = IF end = Len(payer.paid) THEN "file" ELSE "pay", !.sent = end,
                  !.batches = Append(@, [tx |-> Len(chain'), holders |-> Len(slice)])]
    /\ UNCHANGED <<register, notes, enclave, released, evidence, runs, forces, moves, faults>>
MergedPriors == IF payer.mode = "catchUp" THEN Priors(payer.seal) ELSE {}
(* Seeded fault: the new payout's holders are listed first. *)
MergedInFront ==
    [seal |-> payer.seal,
     paid |-> payer.paid \o Joined([k \in DOMAIN record |-> record[k].paid], MergedPriors),
     batches |-> Joined([k \in DOMAIN record |-> record[k].batches], MergedPriors) \o payer.batches]

(* A catch-up merges into the earlier payouts' evidence. *)
Merged ==
    [seal |-> payer.seal,
     paid |-> Joined([k \in DOMAIN record |-> record[k].paid], MergedPriors) \o payer.paid,
     batches |-> Joined([k \in DOMAIN record |-> record[k].batches], MergedPriors) \o payer.batches]
(* The receipt on the topic, the evidence file, and then the record. *)
WritesFile ==
    /\ payer.pc = "file"
    /\ payoutFile' = Merged
    /\ payer' = [payer EXCEPT !.pc = "record"]
    /\ UNCHANGED <<register, notes, enclave, released, chain, record, runs, forces, moves, faults>>
WritesRecord ==
    /\ payer.pc = "record"
    /\ record' = Append(record, Merged)
    /\ payer' = AtRest
    /\ UNCHANGED <<register, notes, enclave, released, chain, payoutFile, runs, forces, moves, faults>>
Payer == PaysBatch \/ WritesFile \/ WritesRecord

-----------------------------------------------------------------------------
(* Trades settle, desks are added to the directory, and their quorums sign *)
(* the association without which they cannot be paid.                      *)
Settles(from, to) ==
    /\ Upsettable /\ par[from] > 0 /\ from # to
    /\ moves' = moves + 1
    /\ par' = [par EXCEPT ![from] = 0, ![to] = @ + par[from]]
    /\ UNCHANGED <<known, payable, notes, enclave, released, payer, chain, evidence, runs, forces, faults>>
JoinsDirectory ==
    /\ known < Len(Wallets) /\ Upsettable
    /\ known' = known + 1
    /\ UNCHANGED <<par, payable, notes, enclave, released, payer, chain, evidence, runs, forces, moves, faults>>
BecomesPayable(h) ==
    /\ h \notin payable
    /\ payable' = payable \cup {h}
    /\ UNCHANGED <<known, par, notes, enclave, released, payer, chain, evidence, runs, forces, moves, faults>>
(* A request or a script stops, or one of its transactions is refused.     *)
Stops ==
    /\ Upsettable
    /\ faults' = faults + 1
    /\ \/ \E a \in Agents : /\ agent[a] # AtRest /\ agent' = [agent EXCEPT ![a] = AtRest]
                            /\ UNCHANGED <<enclave, payer>>
       \/ enclave # AtRest /\ enclave' = AtRest /\ UNCHANGED <<agent, payer>>
       \/ payer # AtRest /\ payer' = AtRest /\ UNCHANGED <<agent, enclave>>
    /\ UNCHANGED <<register, topic, notices, salts, released, chain, evidence, runs, forces, moves>>

Next ==
    \/ \E a \in Agents : Agent(a)
    \/ Enclave
    \/ \E mode \in {"plain", "catchUp", "force"} : StartsPayout(mode)
    \/ Payer
    \/ \E from, to \in Holders : Settles(from, to)
    \/ JoinsDirectory
    \/ \E h \in Holders : BecomesPayable(h)
    \/ Stops

(* Every quorum signs its association in the end, and the agent runs the   *)
(* payout, with --catch-up, until it has nothing new to pay.               *)
Fairness ==
    /\ WF_vars(Payer)
    /\ WF_vars(StartsPayout("catchUp"))
    /\ \A h \in Holders : WF_vars(BecomesPayable(h))

Spec == Init /\ [][Next]_vars /\ Fairness

-----------------------------------------------------------------------------
(* register-interest.ts: what the portfolio shows of the released period,  *)
(* and the register without its presentation mode (presentation.ts).       *)
readPayout == IF released # NoRelease /\ payoutFile.seal = released.seal THEN payoutFile ELSE NoPayout
(* The place at which the k-th batch ends. *)
End(batches) ==
    LET end[k \in 0..Len(batches)] == IF k = 0 THEN 0 ELSE end[k - 1] + batches[k].holders
    IN  end
(* holderPayoutLink: the receipt of the batch the holder's place falls in. *)
holderPayoutLink(h) ==
    LET i == SelectInSeq(readPayout.paid, LAMBDA p : p.holder = h)
        b == readPayout.batches
    IN  IF i = 0 THEN 0
        ELSE b[Min({k \in DOMAIN b : i <= End(b)[k]})].tx

(* What is released was computed with the rate of the notice that was      *)
(* committed to under its own commitment, from the register as it is: not  *)
(* with that of a notice of the same period created at the same time.      *)
ReleasedIsCommitted ==
    [][released' # released =>
          \A d \in ToSet(released'.distribution) :
              d.units = accrual(par[d.holder], released'.seal.rate)]_vars

(* A period is paid under one commitment only, even when two requests      *)
(* commit to the same period at once, at two rates.                        *)
OneSealPerPeriod ==
    \A i, j \in DOMAIN chain :
        chain[i].seal.period = chain[j].seal.period => chain[i].seal = chain[j].seal

(* A holder is credited once for a period, however often the payout is run *)
(* and its distribution computed again: unless the agent forced it, or a   *)
(* run stopped after a transfer and before the record.                     *)
PaidOnce ==
    \A h \in Holders, period \in 1..MaxNotices :
        Cardinality({i \in DOMAIN chain : /\ chain[i].seal.period = period
                                          /\ h \in PaidHolders(chain[i].paid)}) <= 1 + forces + faults

(* The receipt the venue links for a holder is a transfer of the           *)
(* released period that credited this holder, through all the merging.     *)
LinkCreditsHolder ==
    \A h \in Holders : holderPayoutLink(h) # 0 =>
        /\ chain[holderPayoutLink(h)].seal = released.seal
        /\ h \in PaidHolders(chain[holderPayoutLink(h)].paid)

(* "A catch-up merges into the earlier payout's evidence so the register   *)
(* sees one complete payout per period" (pay-interest.ts 150): it lists a  *)
(* holder no more often than transfers credited it.                        *)
CompletePayoutIsTrue ==
    \A h \in Holders :
        Cardinality({i \in DOMAIN readPayout.paid : readPayout.paid[i].holder = h})
          <= Cardinality({i \in DOMAIN chain : /\ chain[i].seal = released.seal
                                              /\ h \in PaidHolders(chain[i].paid)})

(* No interest of the released period stays unpaid to a holder whose       *)
(* quorum has signed: unless two notices of the period were published, or  *)
(* a run stopped.                                                          *)
Rivals == \E i, j \in DOMAIN topic : i # j /\ topic[i].seal.period = topic[j].seal.period
Outstanding ==
    /\ released # NoRelease /\ ~Rivals /\ faults = 0
    /\ \E d \in ToSet(released.distribution) :
         /\ d.units > 0
         /\ ~\E i \in DOMAIN chain : /\ chain[i].seal = released.seal
                                     /\ d.holder \in PaidHolders(chain[i].paid)
EveryHolderIsPaid == Outstanding ~> ~Outstanding
=============================================================================
