----------------------------- MODULE DeskWallet -----------------------------
(***************************************************************************)
(* One institution's desk wallet: its onboarding on Hedera (onboarding.ts, *)
(* self-service.ts), the approvals its quorum signs (approvals.ts, the     *)
(* approvals routes, automated-desk.ts 73-100), the nonces of its          *)
(* transactions (desk-tx.ts, desk-nonce.ts), their broadcast               *)
(* (hedera-receipts.ts) and the recovery of a failed setup step            *)
(* (setup-recovery.ts, retry-setup.ts).                                    *)
(*                                                                         *)
(* A setup step is a permission the desk signs: a Privy intent with a      *)
(* fixed nonce, executed by Privy when the quorum is complete, then        *)
(* broadcast by the venue, one per request, in the order of the steps.     *)
(* The tick, a member's check or retry, and the administrator's actions    *)
(* hold operator-transactions; the administrator's GET ?sync=1 does not.   *)
(***************************************************************************)
EXTENDS DeskNonce, Sequences

CONSTANTS
    Steps,           \* number of setup steps, in the order SETUP_STEPS
    Calls,           \* requests in flight
    Nobody,
    MaxIntents,      \* bound: intents created
    MaxOrders,       \* bound: the administrator's orders
    MaxUpsets        \* bound: those, rejections and expiries, extra reconciliations,
                     \* trade approvals, throws and deaths, transactions that revert or drop

ASSUME WalletAssumption ==
    /\ Steps \in 1..3
    /\ Nobody \notin Calls
    /\ {MaxIntents, MaxOrders, MaxUpsets} \subseteq Nat

VARIABLES
    chainNonce,      \* the account's next nonce
    intents,         \* Privy intents of the wallet, oldest first
    h,               \* the institution's onboarding record
    done,            \* operator transactions that were executed, by kind
    busy,            \* the call that holds operator-transactions
    call,
    rejects, syncs, trades, orders, faults

vars == <<chainNonce, intents, h, done, busy, call, rejects, syncs, trades, orders, faults>>
counts == <<rejects, syncs, trades, orders, faults>>

SetupSteps == 1..Steps
Trade == 0                                  \* kind of an intent that is no setup step
OperatorSteps == {"account", "eligible", "allocated", "cash"}

(* outcome: "none" not sent or dropped, "sent", "ok", "reverted". *)
Intents == [kind : 0..Steps, nonce : Nat, signed : BOOLEAN,
            status : {"pending", "executed", "rejected", "expired"},
            outcome : {"none", "sent", "ok", "reverted"}]
NoStep == [intent |-> 0, tx |-> FALSE, error |-> "none"]
DeskSteps == [intent : 0..MaxIntents, tx : BOOLEAN,
              error : {"none", "PENDING", "NONCE", "REVERTED"}]

(* deskStepSpec, and the approval of a trade: what an intent calls.        *)
DeskStepSpec(kind) ==
    CASE kind = Trade -> <<"engine", "approve">>
      [] kind = 1 -> <<"mockUsd", "associate">>
      [] kind = 2 -> <<"loanToken", "approve">>
      [] kind = 3 -> <<"mockUsd", "approve">>
(* createVenuePolicy: what Privy signs for the wallet, and nothing else.   *)
VenuePolicy ==
    ({"engine"} \X {"approve", "cancel", "reissue"})
    \cup ({"loanToken", "mockUsd"} \X {"approve"})
    \cup {<<"mockUsd", "associate">>}

Labels == {"idle", "operator", "operatorSaved", "sync", "broadcast", "poll", "syncSave",
           "afterSync", "list", "nonce", "create", "record", "review", "restore"}
Idle == [job |-> "none", pc |-> "idle", step |-> 0, what |-> "none", s |-> NoStep,
         reserved |-> {}, n |-> 0, current |-> FALSE, dead |-> FALSE]

Init ==
    /\ chainNonce = 0
    /\ intents = <<>>
    /\ h = [done |-> {}, step |-> [k \in SetupSteps |-> NoStep], history |-> {}]
    /\ done = [w \in OperatorSteps |-> 0]
    /\ busy = Nobody
    /\ call = [c \in Calls |-> Idle]
    /\ rejects = 0 /\ syncs = 0 /\ trades = 0 /\ orders = 0 /\ faults = 0

Upsettable == rejects + syncs + trades + orders + faults < MaxUpsets
At(c, label) == call[c].pc = label
Numbers == 1..Len(intents)
Confirmed(s) == s.tx /\ s.error = "none"
(* onboardingReady *)
Ready ==
    /\ h.done = OperatorSteps
    /\ \A k \in SetupSteps : Confirmed(h.step[k])

(* The call ends; if it held the lease it releases it. *)
Release(c) == busy' = IF busy = c THEN Nobody ELSE busy
End(c) == call' = [call EXCEPT ![c] = Idle] /\ Release(c)
Go(c, k) == call' = [call EXCEPT ![c] = k]
(* Seeded fault: the lease is taken whoever holds it. *)
TakeAnyway(c, k) == busy' = c /\ Go(c, k)

Take(c, k) == busy = Nobody /\ busy' = c /\ Go(c, k)

-----------------------------------------------------------------------------
(* advanceOnboarding, in the tick: the next operator step, or reconcile    *)
(* the desk's steps, propose the missing ones, and at last the cash.       *)
NextOperatorStep ==
    IF "account" \notin h.done THEN "account"
    ELSE IF "eligible" \notin h.done THEN "eligible"
    ELSE IF "allocated" \notin h.done THEN "allocated" ELSE "none"
TickBegins(c) ==
    /\ At(c, "idle")
    /\ ~Ready
    /\ LET w == NextOperatorStep IN
         Take(c, [Idle EXCEPT !.job = "tick", !.step = 1, !.what = w,
                              !.pc = IF w = "none" THEN "sync" ELSE "operator"])
    /\ UNCHANGED <<chainNonce, intents, h, done, counts>>
(* The operator's transaction of each step; the save follows its receipt.  *)
Sends(c, what) ==
    /\ At(c, "operator") /\ call[c].what = what
    /\ done' = [done EXCEPT ![what] = @ + 1]
    /\ Go(c, [call[c] EXCEPT !.pc = "operatorSaved"])
    /\ UNCHANGED <<chainNonce, intents, h, busy, counts>>
Fund(c) == Sends(c, "account")
Eligibility(c) == Sends(c, "eligible")
Allocate(c) == Sends(c, "allocated")
FundUsd(c) == Sends(c, "cash")
OperatorSends(c) == Fund(c) \/ Eligibility(c) \/ Allocate(c) \/ FundUsd(c)
OperatorSaves(c) ==
    /\ At(c, "operatorSaved")
    /\ h' = [h EXCEPT !.done = @ \cup {call[c].what}]
    /\ End(c)
    /\ UNCHANGED <<chainNonce, intents, done, counts>>

Missing == {k \in SetupSteps : h.step[k].intent = 0}
FirstOf(S) == CHOOSE k \in S : \A l \in S : k <= l
CashDue == Confirmed(h.step[1]) /\ "cash" \notin h.done
(* What is left of the pass: a missing step is proposed, the first of all  *)
(* only on the wallet's current nonce; or the cash is sent.                *)
AfterSync(c) ==
    /\ At(c, "afterSync")
    /\ IF call[c].job = "tick" /\ Missing # {}
       THEN /\ Go(c, [Idle EXCEPT !.job = "tick", !.pc = "list", !.step = FirstOf(Missing),
                                  !.current = Missing = SetupSteps])
            /\ UNCHANGED busy
       ELSE IF call[c].job = "tick" /\ CashDue
       THEN Go(c, [Idle EXCEPT !.job = "tick", !.pc = "operator", !.what = "cash"])
            /\ UNCHANGED busy
       ELSE End(c)
    /\ UNCHANGED <<chainNonce, intents, h, done, counts>>

(* The administrator's page sends any operator step again, and proposes    *)
(* any permission again, whatever the record says; a transaction that      *)
(* Hedera would refuse as yet leaves nothing.                              *)
Orders(c, k) ==
    /\ At(c, "idle")
    /\ Upsettable /\ orders < MaxOrders
    /\ orders' = orders + 1
    /\ Take(c, k)
    /\ UNCHANGED <<chainNonce, intents, h, done, rejects, syncs, trades, faults>>
CanOperate(what) ==
    /\ what = "allocated" => done["eligible"] > 0
    /\ what = "cash" => /\ "account" \in h.done
                       /\ \E n \in Numbers : intents[n].kind = 1 /\ intents[n].outcome = "ok"
AdminOperates(c, what) ==
    CanOperate(what) /\ Orders(c, [Idle EXCEPT !.job = "order", !.pc = "operator", !.what = what])
AdminProposes(c, k) == Orders(c, [Idle EXCEPT !.job = "order", !.pc = "list", !.step = k])

-----------------------------------------------------------------------------
(* syncOnboarding.  Members check under the lease, an administrator's page *)
(* load without it.  Calls of one instance that overlap share one pass;    *)
(* here each does its own, as calls on two instances do.                   *)
Check(c) ==
    /\ At(c, "idle")
    /\ Upsettable
    /\ syncs' = syncs + 1
    /\ UNCHANGED <<chainNonce, intents, h, done, rejects, trades, orders, faults>>
MemberChecks(c) ==
    /\ Check(c)
    /\ Take(c, [Idle EXCEPT !.job = "check", !.pc = "sync", !.step = 1])
AdminChecks(c) ==
    /\ Check(c)
    /\ Go(c, [Idle EXCEPT !.job = "admin", !.pc = "sync", !.step = 1])
    /\ UNCHANGED busy

(* syncDeskOnboarding up to the broadcast, for the first step that is not  *)
(* confirmed; "s" is the copy it writes back in the end.                   *)
SyncLooks(c) ==
    /\ At(c, "sync")
    /\ LET open == {k \in SetupSteps : ~Confirmed(h.step[k])}
           k == FirstOf(open)
           s == h.step[k]
           i == intents[s.intent]
           clear == [s EXCEPT !.error = "none"]
       IN  IF open = {} \/ s.intent = 0 \/ s.tx
           THEN Go(c, [call[c] EXCEPT !.pc = "afterSync"])
           ELSE Go(c, [call[c] EXCEPT !.step = k, !.n = s.intent,
                   !.pc = IF i.status = "executed" THEN "broadcast" ELSE "syncSave",
                   !.s = IF i.status = "pending" /\ i.nonce # chainNonce
                         THEN [clear EXCEPT !.error = "NONCE"] ELSE clear])
    /\ UNCHANGED <<chainNonce, intents, h, done, busy, counts>>

Decided(i) == i.outcome \in {"ok", "reverted"}
(* Seeded fault: a transaction that was accepted counts as confirmed.      *)
ResultOptimistic(s, i) ==
    [s EXCEPT !.tx = TRUE, !.error = IF i.outcome = "reverted" THEN "REVERTED" ELSE "none"]

(* What a broadcast leaves in the step: the receipt, or the error.         *)
Result(s, i) ==
    CASE i.outcome = "ok" -> [s EXCEPT !.tx = TRUE]
      [] i.outcome = "reverted" -> [s EXCEPT !.tx = TRUE, !.error = "REVERTED"]
      [] OTHER -> [s EXCEPT !.error = "PENDING"]
(* submitAndConfirm: an earlier receipt first, then the nonce, then send.  *)
Broadcasts(c) ==
    /\ At(c, "broadcast")
    /\ LET i == intents[call[c].n] IN
         IF Decided(i) \/ i.nonce = chainNonce
         THEN /\ intents' = IF Decided(i) THEN intents
                            ELSE [intents EXCEPT ![call[c].n].outcome = "sent"]
              /\ Go(c, [call[c] EXCEPT !.pc = "poll"])
         ELSE /\ Go(c, [call[c] EXCEPT !.pc = "syncSave", !.s.error = "NONCE"])
              /\ UNCHANGED intents
    /\ UNCHANGED <<chainNonce, h, done, busy, counts>>
(* The last poll: with no receipt by now the answer is "still pending".    *)
Polls(c) ==
    /\ At(c, "poll")
    /\ Go(c, [call[c] EXCEPT !.pc = "syncSave", !.s = Result(@, intents[call[c].n])])
    /\ UNCHANGED <<chainNonce, intents, h, done, busy, counts>>
(* The relay refused the transaction for good (relayRejection): the step   *)
(* counts as failed with a transaction, which Hedera never executes and    *)
(* whose nonce stays reserved.                                             *)
RelayRefused(c) ==
    /\ At(c, "poll")
    /\ intents[call[c].n].outcome = "none"
    /\ Go(c, [call[c] EXCEPT !.pc = "syncSave", !.s.tx = TRUE, !.s.error = "REVERTED"])
    /\ UNCHANGED <<chainNonce, intents, h, done, busy, counts>>
SyncSaves(c) ==
    /\ At(c, "syncSave")
    /\ h' = [h EXCEPT !.step[call[c].step] = call[c].s]
    /\ Go(c, [call[c] EXCEPT !.pc = "afterSync"])
    /\ UNCHANGED <<chainNonce, intents, done, busy, counts>>

-----------------------------------------------------------------------------
(* proposeDeskTx: one proposal of the wallet at a time (its queue and the  *)
(* wallet-nonce lease); the intents are listed first, the nonce read next, *)
(* the intent created last, an await before each.                          *)
ProposesTrade(c) ==
    /\ At(c, "idle")
    /\ Upsettable
    /\ trades' = trades + 1
    /\ Go(c, [Idle EXCEPT !.job = "trade", !.pc = "list"])
    /\ UNCHANGED <<chainNonce, intents, h, done, busy, rejects, syncs, orders, faults>>
Proposing(c) == call[c].pc \in {"nonce", "create"}
(* An executed transaction that failed on chain reserves nothing.          *)
Reserves(i) == i.status \in Reserving /\ i.outcome # "reverted"
(* Seeded fault: only proposals of the same kind queue up.                 *)
ProposalTurnByJob(c) ==
    \A other \in Calls \ {c} : call[other].job = call[c].job => ~Proposing(other)

ProposalTurn(c) == \A other \in Calls \ {c} : ~Proposing(other)
ListsIntents(c) ==
    /\ At(c, "list")
    /\ ProposalTurn(c)
    /\ Go(c, [call[c] EXCEPT !.pc = "nonce",
                 !.reserved = {intents[n].nonce : n \in {m \in Numbers : Reserves(intents[m])}}])
    /\ UNCHANGED <<chainNonce, intents, h, done, busy, counts>>
(* With requireCurrentNonce a proposal that would queue behind another one *)
(* throws.                                                                 *)
ChoosesNonce(c) ==
    /\ At(c, "nonce")
    /\ \E n \in Candidates(chainNonce, call[c].reserved) :
         /\ NextUnreservedNonce(n, chainNonce, call[c].reserved)
         /\ IF call[c].current /\ n # chainNonce THEN End(c)
            ELSE Go(c, [call[c] EXCEPT !.pc = "create", !.n = n]) /\ UNCHANGED busy
    /\ UNCHANGED <<chainNonce, intents, h, done, counts>>
CreatesIntent(c) ==
    /\ At(c, "create")
    /\ Len(intents) < MaxIntents
    /\ intents' = Append(intents, [kind |-> call[c].step, nonce |-> call[c].n, signed |-> FALSE,
                                   status |-> "pending", outcome |-> "none"])
    /\ IF call[c].job = "trade" THEN End(c)
       ELSE Go(c, [call[c] EXCEPT !.pc = "record", !.n = Len(intents) + 1]) /\ UNCHANGED busy
    /\ UNCHANGED <<chainNonce, h, done, counts>>
(* recordDeskStep: the replaced intent goes into the history.              *)
WithStep(k, s) ==
    [h EXCEPT !.step[k] = s, !.history = @ \cup ({h.step[k].intent} \ {0, s.intent})]
(* The tick goes on to the next missing step; any other call ends.         *)
RecordsStep(c) ==
    /\ At(c, "record")
    /\ h' = WithStep(call[c].step, [NoStep EXCEPT !.intent = call[c].n])
    /\ LET rest == Missing \ {call[c].step} IN
         IF call[c].job = "tick" /\ rest # {}
         THEN /\ Go(c, [Idle EXCEPT !.job = "tick", !.pc = "list", !.step = FirstOf(rest)])
              /\ UNCHANGED busy
         ELSE End(c)
    /\ UNCHANGED <<chainNonce, intents, done, counts>>

-----------------------------------------------------------------------------
(* retrySetupApproval, under the lease.  canRetry of onboardingSummary is  *)
(* what the page offers; the handler checks again.                         *)
Failed(s) == s.error \in {"NONCE", "REVERTED"}
CanRetry(k) ==
    /\ h.step[k].intent # 0 /\ ~Confirmed(h.step[k])
    /\ \/ Failed(h.step[k])
       \/ intents[h.step[k].intent].status \in {"rejected", "expired"}
RetryBegins(c, k) ==
    /\ At(c, "idle")
    /\ CanRetry(k)
    /\ \A earlier \in 1..(k - 1) : Confirmed(h.step[earlier])
    /\ Take(c, [Idle EXCEPT !.job = "retry", !.pc = "review", !.step = k,
                            !.n = h.step[k].intent])
    /\ UNCHANGED <<chainNonce, intents, h, done, counts>>

(* Seeded fault: no receipt in time is taken for a failure.                *)
RecoveryDecisionHasty(i) == IF i.outcome = "ok" THEN "complete" ELSE "replace"

(* Seeded fault: only a transaction that reverted is replaced. *)
RecoveryDecisionTimid(i) ==
    CASE i.outcome = "ok" -> "complete"
      [] i.outcome = "reverted" -> "replace"
      [] OTHER -> "wait"

(* setupRecoveryDecision *)
RecoveryDecision(i) ==
    CASE i.outcome = "ok" -> "complete"
      [] i.outcome = "reverted" -> "replace"
      [] i.status \in {"rejected", "expired"} -> "replace"
      [] OTHER -> "wait"
RetryReviews(c) ==
    /\ At(c, "review")
    /\ LET n == call[c].n
           decision == RecoveryDecision(intents[n])
       IN  IF decision = "complete"
           THEN /\ h' = [h EXCEPT !.step[call[c].step] =
                             [intent |-> n, tx |-> TRUE, error |-> "none"]]
                /\ End(c)
           ELSE /\ Go(c, [call[c] EXCEPT !.pc = "restore", !.dead = decision = "replace"])
                /\ UNCHANGED <<h, busy>>
    /\ UNCHANGED <<chainNonce, intents, done, counts>>

(* Another intent of exactly this permission that is confirmed, or whose   *)
(* turn it is: it is restored, and pending copies of it are withdrawn.     *)
Restorable(c) ==
    {n \in Numbers \ {call[c].n} :
        /\ intents[n].kind = call[c].step
        /\ intents[n].status \in Reserving
        /\ \/ intents[n].outcome = "ok"
           \/ intents[n].outcome # "reverted" /\ intents[n].nonce = chainNonce}
Copies(c, n) ==
    {m \in Numbers \ {n} : intents[m].kind = call[c].step /\ intents[m].status = "pending"}
RetryRestores(c) ==
    /\ At(c, "restore")
    /\ \E n \in Restorable(c) :
         /\ intents' = [m \in Numbers |-> IF m \in Copies(c, n)
                                          THEN [intents[m] EXCEPT !.status = "rejected"]
                                          ELSE intents[m]]
         /\ h' = LET w == WithStep(call[c].step,
                                   [NoStep EXCEPT !.intent = n, !.tx = intents[n].outcome = "ok"])
                 IN  [w EXCEPT !.history = @ \cup Copies(c, n)]
    /\ End(c)
    /\ UNCHANGED <<chainNonce, done, counts>>
(* Nothing to restore: a dead intent is proposed again on the current      *)
(* nonce, any other is left alone.                                         *)
RetryProposes(c) ==
    /\ At(c, "restore")
    /\ Restorable(c) = {}
    /\ IF call[c].dead
       THEN Go(c, [call[c] EXCEPT !.pc = "list", !.current = TRUE]) /\ UNCHANGED busy
       ELSE End(c)
    /\ UNCHANGED <<chainNonce, intents, h, done, counts>>

-----------------------------------------------------------------------------
(* The quorum of a judge desk: its trader signs what the inbox offers      *)
(* (canApprove, and the authorize route refuses a superseded intent), then *)
(* the automated co-signer completes it and Privy executes.                *)
Superseded == h.history \ {h.step[k].intent : k \in SetupSteps}
CanApprove(n) == intents[n].status = "pending" /\ ~intents[n].signed /\ n \notin Superseded
TraderSigns(n) ==
    /\ CanApprove(n)
    /\ intents' = [intents EXCEPT ![n].signed = TRUE]
    /\ UNCHANGED <<chainNonce, h, done, busy, call, counts>>
Cosigns(n) ==
    /\ intents[n].status = "pending" /\ intents[n].signed
    /\ DeskStepSpec(intents[n].kind) \in VenuePolicy
    /\ intents' = [intents EXCEPT ![n].status = "executed"]
    /\ UNCHANGED <<chainNonce, h, done, busy, call, counts>>
RejectedOrExpires(n) ==
    /\ intents[n].status = "pending"
    /\ Upsettable
    /\ rejects' = rejects + 1
    /\ \E status \in {"rejected", "expired"} : intents' = [intents EXCEPT ![n].status = status]
    /\ UNCHANGED <<chainNonce, h, done, busy, call, syncs, trades, orders, faults>>

(* A reconciliation of the trade broadcasts its approval (Assignments).    *)
TradeBroadcast(n) ==
    /\ intents[n].kind = Trade /\ intents[n].status = "executed"
    /\ intents[n].outcome = "none" /\ intents[n].nonce = chainNonce
    /\ intents' = [intents EXCEPT ![n].outcome = "sent"]
    /\ UNCHANGED <<chainNonce, h, done, busy, call, counts>>
(* Hedera: a transaction with the account's next nonce uses it up, whether *)
(* it succeeds or reverts; one the relay drops can be sent again.          *)
Mines(n) ==
    /\ intents[n].outcome = "sent" /\ intents[n].nonce = chainNonce
    /\ chainNonce' = chainNonce + 1
    /\ \/ intents' = [intents EXCEPT ![n].outcome = "ok"] /\ UNCHANGED faults
       \/ /\ Upsettable /\ faults' = faults + 1
          /\ intents' = [intents EXCEPT ![n].outcome = "reverted"]
    /\ UNCHANGED <<h, done, busy, call, rejects, syncs, trades, orders>>
Drops(n) ==
    /\ intents[n].outcome = "sent"
    /\ Upsettable
    /\ faults' = faults + 1
    /\ intents' = [intents EXCEPT ![n].outcome = "none"]
    /\ UNCHANGED <<chainNonce, h, done, busy, call, rejects, syncs, trades, orders>>

(* The handler throws, or its instance dies and the lease expires. *)
Fails(c) ==
    /\ ~At(c, "idle")
    /\ Upsettable
    /\ faults' = faults + 1
    /\ End(c)
    /\ UNCHANGED <<chainNonce, intents, h, done, rejects, syncs, trades, orders>>

Handle(c) ==
    \/ OperatorSends(c) \/ OperatorSaves(c) \/ AfterSync(c)
    \/ SyncLooks(c) \/ Broadcasts(c) \/ Polls(c) \/ RelayRefused(c) \/ SyncSaves(c)
    \/ ListsIntents(c) \/ ChoosesNonce(c) \/ CreatesIntent(c) \/ RecordsStep(c)
    \/ RetryReviews(c) \/ RetryRestores(c) \/ RetryProposes(c)
Signs(n) == TraderSigns(n) \/ Cosigns(n)

Next ==
    \/ \E c \in Calls : \/ TickBegins(c) \/ MemberChecks(c) \/ AdminChecks(c)
                        \/ ProposesTrade(c)
                        \/ \E what \in OperatorSteps : AdminOperates(c, what)
                        \/ \E k \in SetupSteps : AdminProposes(c, k)
                        \/ \E k \in SetupSteps : RetryBegins(c, k)
                        \/ Handle(c) \/ Fails(c)
    \/ \E n \in Numbers : \/ Signs(n) \/ RejectedOrExpires(n) \/ TradeBroadcast(n)
                          \/ Mines(n) \/ Drops(n)

(* Requests run to their end, page loads drive the tick, Hedera decides;   *)
(* and the desk's people sign what they are asked and retry what failed.   *)
Fairness ==
    /\ \A c \in Calls : WF_vars(Handle(c))
    /\ SF_vars(\E c \in Calls : TickBegins(c))
    /\ SF_vars(\E c \in Calls, k \in SetupSteps : RetryBegins(c, k))
    /\ WF_vars(\E n \in Numbers : Signs(n))
    /\ WF_vars(\E n \in Numbers : Mines(n))

Spec == Init /\ [][Next]_vars /\ Fairness

-----------------------------------------------------------------------------
TypeOK ==
    /\ chainNonce \in Nat
    /\ intents \in Seq(Intents) /\ Len(intents) <= MaxIntents
    /\ h.done \subseteq OperatorSteps
    /\ h.step \in [SetupSteps -> DeskSteps]
    /\ h.history \subseteq 1..MaxIntents
    /\ done \in [OperatorSteps -> Nat]
    /\ busy \in Calls \cup {Nobody}
    /\ \A c \in Calls : /\ call[c].pc \in Labels /\ call[c].step \in 0..Steps
                        /\ call[c].s \in DeskSteps /\ call[c].reserved \subseteq Nat
    /\ rejects + syncs + trades + orders + faults \in 0..MaxUpsets

(* Two approvals that can still take effect never carry the same nonce, or *)
(* the later one could never be sent: however proposals, signatures,       *)
(* rejections and confirmations interleave with the choice of a nonce.     *)
Live(n) == Reserves(intents[n])
NoSharedNonce ==
    \A m, n \in Numbers : Live(m) /\ Live(n) /\ m # n => intents[m].nonce # intents[n].nonce

(* A desk the venue calls ready really is: each of its permissions was     *)
(* executed on Hedera, though reconciliations write back copies they read  *)
(* before a retry replaced the step.                                       *)
ReadyIsTrue ==
    \A k \in SetupSteps : Confirmed(h.step[k]) =>
        /\ intents[h.step[k].intent].kind = k
        /\ intents[h.step[k].intent].outcome = "ok"

(* "An ambiguous timeout or a nonce gap alone never authorises replacement"*)
(* (setup-recovery.ts 18): unless a request failed between Privy's answer  *)
(* and the record, a permission has one intent that is live or confirmed,  *)
(* and one more for each that an administrator ordered.                    *)
OnePermissionPerStep ==
    \A k \in SetupSteps :
        Cardinality({n \in Numbers : intents[n].kind = k /\ Live(n)}) <= 1 + orders + faults

(* The opening balance is given once, and again only for a request that    *)
(* failed between the transaction and the record of it, or that an         *)
(* administrator ordered.                                                  *)
OpeningBalanceOnce == \A w \in OperatorSteps : done[w] <= 1 + orders + faults

(* A desk whose people sign and retry gets through onboarding, whatever is *)
(* rejected or expires on the way and whoever reconciles it meanwhile: but *)
(* not if a request failed, a trade approval or an order of the            *)
(* administrator came in the middle of it, or a step was rejected before a *)
(* later one was proposed, which then took its nonce.                      *)
Overtaken ==
    \E k, l \in SetupSteps :
        /\ k < l /\ h.step[k].intent # 0 /\ h.step[l].intent # 0
        /\ intents[h.step[l].intent].nonce <= intents[h.step[k].intent].nonce
OnboardingCompletes == <>(Ready \/ Overtaken \/ trades + orders + faults > 0)
=============================================================================
