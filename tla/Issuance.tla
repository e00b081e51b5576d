----------------------------- MODULE Issuance -----------------------------
(***************************************************************************)
(* web/src/lib/issuance.ts: issuing a loan security from the browser, one  *)
(* chain step per request, with the other users of the agent bank's        *)
(* signing account: the market tick and the routes that send venue         *)
(* transactions (automated-desk.ts, the consent route, the institution     *)
(* route), and the desk reset (reset.ts).                                  *)
(*                                                                         *)
(* Each request is a process.  Every label of pc is a place where the      *)
(* handler awaits the store, the relay or HCS, so other requests run       *)
(* between two labels; a request may throw at each (the lease is released) *)
(* or its instance may die there (the lease is left to expire).            *)
(***************************************************************************)
EXTENDS HostedStore, Integers, FiniteSets

CONSTANTS
    Users,
    NoUser,
    Terms,          \* [symbol, rate] a user may ask for
    NoTerms,
    ChainSteps,     \* transactions of an issuance; the first creates the security
    MAX_BROADCASTS,
    IssuanceCap,    \* ISSUANCE_DEMO_LIMIT
    SlowHandlers,   \* may a handler outlive its lease? (no 60 s platform limit)
    OtherJobs,      \* which other users of the account run: "tick", "consent"
    Resetters,      \* users listed in DESK_RESET_EMAILS
    MaxRecords,     \* bound: record ids drawn
    MaxOthers,      \* bound: transactions of the other users
    MaxFaults       \* bound: throws and instance deaths

ASSUME IssuanceAssumption ==
    /\ Nobody \notin Requests
    /\ NoUser \notin Users
    /\ NoTerms \notin Terms
    /\ NoWorkflow = 0
    /\ ChainSteps \in Nat \ {0}
    /\ MAX_BROADCASTS \in Nat
    /\ IssuanceCap \in Nat
    /\ SlowHandlers \in BOOLEAN
    /\ OtherJobs \subseteq {"tick", "consent"}
    /\ Resetters \subseteq Users
    /\ MaxRecords \in Nat
    /\ MaxOthers \in Nat
    /\ MaxFaults \in Nat

VARIABLES
    begun,        \* record ids drawn so far (randomUUID never repeats one)
    req,          \* the requests
    committed,    \* notice commitments on the HCS topic: [rec, by]
    notices,      \* the notices document: [symbol, rate] of period 1
    chainNonce,   \* next nonce of the agent bank's account
    pool,         \* transactions the relay has accepted and not yet decided
    receipts,     \* decided transactions: [tx, outcome]
    broadcast,    \* history: every transaction ever sent
    sent,         \* bound: transactions of the other users so far
    faults        \* bound: throws and deaths so far

storeVars == <<lease, records, marker>>
chainVars == <<chainNonce, pool, receipts>>
noticeVars == <<committed, notices>>
countVars == <<begun, sent, faults>>
vars == <<storeVars, req, chainVars, noticeVars, broadcast, countVars>>

RecordIds == 1..MaxRecords
NoticeStep == ChainSteps + 1

(* A signed transaction stands for its bytes and its hash: two signatures  *)
(* of the same step differ in nonce, time or gas price, hence in "by".     *)
Txs == [rec : 0..MaxRecords, step : 0..ChainSteps, nonce : Nat,
        by : Requests \cup {Nobody}]
NoTx == [rec |-> 0, step |-> 0, nonce |-> 0, by |-> Nobody]

(* A record: its steps run in order, so all before "step" are confirmed    *)
(* and state, tx and attempts are those of the first that is not.          *)
StepStates == {"queued", "pending", "failed", "review"}
Issuances == [present : BOOLEAN, owner : Users \cup {NoUser},
              terms : Terms \cup {NoTerms}, step : 1..(NoticeStep + 1),
              state : StepStates, tx : Txs, attempts : 0..MAX_BROADCASTS,
              completed : BOOLEAN]
Absent == [present |-> FALSE, owner |-> NoUser, terms |-> NoTerms, step |-> 1,
           state |-> "queued", tx |-> NoTx, attempts |-> 0, completed |-> FALSE]
NoDoc == [id \in RecordIds |-> Absent]

Labels == {"idle", "beginRead", "beginWrite", "reserveRead", "reserveWrite",
           "advanceRead", "step", "reviewWrite", "sign", "persist", "attempt",
           "assertOwned", "broadcast", "poll", "publish", "record", "save",
           "resetRead", "resetWrite", "resetFree", "tickLease", "send", "done"}
Idle == [pc |-> "idle", job |-> "none", user |-> NoUser, id |-> 0, doc |-> NoDoc]
RequestStates ==
    [pc : Labels, job : {"none", "begin", "advance", "reset", "tick", "consent"},
     user : Users \cup {NoUser}, id : 0..MaxRecords, doc : [RecordIds -> Issuances]]

Init ==
    /\ lease = Nobody
    /\ records = NoDoc
    /\ marker = NoWorkflow
    /\ begun = 0
    /\ req = [r \in Requests |-> Idle]
    /\ committed = {}
    /\ notices = {}
    /\ chainNonce = 0
    /\ pool = {}
    /\ receipts = {}
    /\ broadcast = {}
    /\ sent = 0
    /\ faults = 0

At(r, label) == req[r].pc = label
Goto(r, label) == req' = [req EXCEPT ![r].pc = label]
(* The handler returns or throws; the lease is released in its finally. *)
Done(r) == req' = [req EXCEPT ![r] = [Idle EXCEPT !.pc = "done"]]
Rec(r) == req[r].doc[req[r].id]
(* The handler changes its own copy of its record, then goes on. *)
Update(r, rec, label) ==
    req' = [req EXCEPT ![r].doc[req[r].id] = rec, ![r].pc = label]

Halted(rec) == rec.state \in {"failed", "review"}
Active(rec) == rec.present /\ ~rec.completed /\ ~Halted(rec)
Present(doc) == {id \in RecordIds : doc[id].present}
(* Seeded fault: a completed asset gives its symbol up. *)
SymbolTakenWhileActive(doc, symbol) ==
    \E id \in Present(doc) : Active(doc[id]) /\ doc[id].terms.symbol = symbol

(* takenSymbols, and the cap, which counts every record. *)
SymbolTaken(doc, symbol) ==
    \E id \in Present(doc) : /\ doc[id].completed \/ Active(doc[id])
                             /\ doc[id].terms.symbol = symbol
AtCap(doc) == Cardinality(Present(doc)) >= IssuanceCap

---------------------------------------------------------------------------
(* A request takes the lease first (withHostedLeaseWait retries while it   *)
(* is busy).  Its token is new, so the slot of a dead request waits until  *)
(* that request's lease is gone.                                           *)
Start(r, job, label, u, id) ==
    /\ At(r, "idle")
    /\ Claim(r)
    /\ req' = [req EXCEPT ![r] = [Idle EXCEPT !.pc = label, !.job = job,
                                              !.user = u, !.id = id]]
    /\ UNCHANGED <<records, marker, chainVars, noticeVars, broadcast, countVars>>

StartBegin(r, u) == Start(r, "begin", "beginRead", u, 0)
StartAdvance(r, u, id) == Start(r, "advance", "advanceRead", u, id)
StartReset(r, u) == u \in Resetters /\ Start(r, "reset", "resetRead", u, 0)
StartConsent(r) == "consent" \in OtherJobs /\ Start(r, "consent", "send", NoUser, 0)

(* The finally block. *)
Finish(r) ==
    /\ At(r, "done")
    /\ Release(r)
    /\ req' = [req EXCEPT ![r] = Idle]
    /\ UNCHANGED <<records, marker, chainVars, noticeVars, broadcast, countVars>>

(* A write that finds the lease lost throws. *)
SaveRecords(r, label) ==
    /\ \/ HostedWriteRecords(r, req[r].doc) /\ Goto(r, label)
       \/ ~Owned(r) /\ Done(r) /\ UNCHANGED storeVars
    /\ UNCHANGED <<chainVars, noticeVars, broadcast, countVars>>

---------------------------------------------------------------------------
(* beginIssuance *)

NewRecord(u, t) == [Absent EXCEPT !.present = TRUE, !.owner = u, !.terms = t]

ComposeRecord(r, t) ==
    /\ ~SymbolTaken(records, t.symbol)
    /\ begun < MaxRecords
    /\ begun' = begun + 1
    /\ req' = [req EXCEPT
          ![r].doc = [records EXCEPT ![begun + 1] = NewRecord(req[r].user, t)],
          ![r].id = begun + 1,
          ![r].pc = "beginWrite"]

(* Seeded fault: only one's own issuance is looked for. *)
BeginReadOwnOnly(r) ==
    /\ At(r, "beginRead")
    /\ IF \E id \in Present(records) : /\ Active(records[id])
                                       /\ records[id].owner = req[r].user
       THEN Done(r) /\ UNCHANGED begun
       ELSE ~AtCap(records) /\ \E t \in Terms : ComposeRecord(r, t)
    /\ UNCHANGED <<storeVars, chainVars, noticeVars, broadcast, sent, faults>>

(* Resume one's own active issuance; refuse while another's is active, at  *)
(* the cap, or for a symbol in use; otherwise compose a new record.        *)
BeginRead(r) ==
    /\ At(r, "beginRead")
    /\ \/ /\ \/ \E id \in RecordIds : Active(records[id])
             \/ AtCap(records)
             \/ \E t \in Terms : SymbolTaken(records, t.symbol)
             \/ begun = MaxRecords
          /\ Done(r)
          /\ UNCHANGED begun
       \/ /\ \A id \in RecordIds : ~Active(records[id])
          /\ ~AtCap(records)
          /\ \E t \in Terms : ComposeRecord(r, t)
    /\ UNCHANGED <<storeVars, chainVars, noticeVars, broadcast, sent, faults>>

BeginWrite(r) == At(r, "beginWrite") /\ SaveRecords(r, "reserveRead")

---------------------------------------------------------------------------
(* reserveOperator, which ends beginIssuance and starts every step *)

Reserved(r) == IF req[r].job = "begin" THEN Done(r) ELSE Goto(r, "step")

(* Seeded fault: another workflow's reservation is ignored. *)
ReserveReadIgnoringOthers(r) ==
    /\ At(r, "reserveRead")
    /\ \/ marker # NoWorkflow /\ Reserved(r)
       \/ marker = NoWorkflow /\ Goto(r, "reserveWrite")
    /\ UNCHANGED <<storeVars, chainVars, noticeVars, broadcast, countVars>>

ReserveRead(r) ==
    /\ At(r, "reserveRead")
    /\ \/ marker \notin {NoWorkflow, req[r].id} /\ Done(r)
       \/ marker = req[r].id /\ Reserved(r)
       \/ marker = NoWorkflow /\ Goto(r, "reserveWrite")
    /\ UNCHANGED <<storeVars, chainVars, noticeVars, broadcast, countVars>>

ReserveWrite(r) ==
    /\ At(r, "reserveWrite")
    /\ \/ HostedWriteMarker(r, req[r].id) /\ Reserved(r)
       \/ ~Owned(r) /\ Done(r) /\ UNCHANGED storeVars
    /\ UNCHANGED <<chainVars, noticeVars, broadcast, countVars>>

---------------------------------------------------------------------------
(* advanceIssuance *)

AdvanceRead(r) ==
    /\ At(r, "advanceRead")
    /\ LET rec == records[req[r].id] IN
       \/ /\ Active(rec) /\ rec.owner = req[r].user
          /\ req' = [req EXCEPT ![r].doc = records, ![r].pc = "reserveRead"]
       \/ /\ ~(Active(rec) /\ rec.owner = req[r].user)
          /\ Done(r)
    /\ UNCHANGED <<storeVars, chainVars, noticeVars, broadcast, countVars>>

NextStep(rec) == [rec EXCEPT !.step = rec.step + 1, !.state = "queued",
                             !.tx = NoTx, !.attempts = 0]

(* Seeded fault: a receipt is taken for a success. *)
ConfirmedByAnyReceipt(rec, outcome) == NextStep(rec)

(* confirmReceipt: a revert is final; a creation whose receipt carries no  *)
(* BondDeployed event is left for the host to review.                      *)
Confirmed(rec, outcome) ==
    CASE outcome = "ok" -> NextStep(rec)
      [] outcome = "reverted" -> [rec EXCEPT !.state = "failed"]
      [] outcome = "eventless" -> [rec EXCEPT !.state = "review"]

Executed(id, s) == {x \in receipts : /\ x.tx.rec = id /\ x.tx.step = s
                                     /\ x.outcome = "ok"}
(* verifyPrincipal compares the supply with the principal: it matches when *)
(* every creation and mint of the record ran once.                         *)
PrincipalMatches(id) == \A s \in 1..ChainSteps : Cardinality(Executed(id, s)) = 1

Verify(r) ==
    /\ At(r, "step") /\ Rec(r).step > NoticeStep
    /\ \/ PrincipalMatches(req[r].id) /\ Update(r, [Rec(r) EXCEPT !.completed = TRUE], "save")
       \/ ~PrincipalMatches(req[r].id) /\ Done(r)
    /\ UNCHANGED <<storeVars, chainVars, noticeVars, broadcast, countVars>>

(* commitNotice: findNotice(symbol, 1) first. *)
FindNotice(r) ==
    /\ At(r, "step") /\ Rec(r).step = NoticeStep
    /\ \/ /\ \E n \in notices : n.symbol = Rec(r).terms.symbol
          /\ Update(r, NextStep(Rec(r)), "save")
       \/ /\ \A n \in notices : n.symbol # Rec(r).terms.symbol
          /\ Goto(r, "publish")
    /\ UNCHANGED <<storeVars, chainVars, noticeVars, broadcast, countVars>>

(* createAndCommit publishes the commitment, then keeps the notice; the    *)
(* notices document is not under the lease.                                *)
PublishNotice(r) ==
    /\ At(r, "publish")
    /\ committed' = committed \cup {[rec |-> req[r].id, by |-> r]}
    /\ Goto(r, "record")
    /\ UNCHANGED <<storeVars, chainVars, notices, broadcast, countVars>>

RecordNotice(r) ==
    /\ At(r, "record")
    /\ notices' = notices \cup {Rec(r).terms}
    /\ Update(r, NextStep(Rec(r)), "save")
    /\ UNCHANGED <<storeVars, chainVars, committed, broadcast, countVars>>

HasReceipt(tx) == \E x \in receipts : x.tx = tx
OnChainStep(r) == At(r, "step") /\ Rec(r).step <= ChainSteps

(* The receipt of an earlier broadcast is authoritative. *)
CheckReceipt(r) ==
    /\ OnChainStep(r)
    /\ Rec(r).tx # NoTx
    /\ \E x \in receipts : /\ x.tx = Rec(r).tx
                           /\ Update(r, Confirmed(Rec(r), x.outcome), "save")
    /\ UNCHANGED <<storeVars, chainVars, noticeVars, broadcast, countVars>>

NoReceiptYet(r) == Rec(r).tx = NoTx \/ ~HasReceipt(Rec(r).tx)

(* Seeded fault: fresh bytes for every attempt. *)
ChooseAttemptResigning(r) ==
    /\ OnChainStep(r) /\ NoReceiptYet(r)
    /\ \/ /\ Rec(r).attempts >= MAX_BROADCASTS
          /\ Update(r, [Rec(r) EXCEPT !.state = "review"], "reviewWrite")
       \/ Rec(r).attempts < MAX_BROADCASTS /\ Goto(r, "sign")
    /\ UNCHANGED <<storeVars, chainVars, noticeVars, broadcast, countVars>>

(* No receipt: give up after MAX_BROADCASTS, else sign or send again. *)
ChooseAttempt(r) ==
    /\ OnChainStep(r) /\ NoReceiptYet(r)
    /\ \/ /\ Rec(r).attempts >= MAX_BROADCASTS
          /\ Update(r, [Rec(r) EXCEPT !.state = "review"], "reviewWrite")
       \/ /\ Rec(r).attempts < MAX_BROADCASTS
          /\ Goto(r, IF Rec(r).tx = NoTx THEN "sign" ELSE "attempt")
    /\ UNCHANGED <<storeVars, chainVars, noticeVars, broadcast, countVars>>

(* Giving up keeps the reservation: the transaction may still be decided. *)
ReviewWrite(r) == At(r, "reviewWrite") /\ SaveRecords(r, "done")

(* getTransactionCount(signer, "pending") *)
PendingNonce == CHOOSE n \in chainNonce..(chainNonce + Cardinality(pool)) :
    /\ \A t \in pool : t.nonce # n
    /\ \A k \in chainNonce..(n - 1) : \E t \in pool : t.nonce = k

Sign(r) ==
    /\ At(r, "sign")
    /\ Update(r, [Rec(r) EXCEPT
                    !.tx = [rec |-> req[r].id, step |-> Rec(r).step,
                            nonce |-> PendingNonce, by |-> r],
                    !.state = "pending"], "persist")
    /\ UNCHANGED <<storeVars, chainVars, noticeVars, broadcast, countVars>>

(* Seeded fault: the signed bytes go out before they are saved. *)
PersistLater(r) ==
    /\ At(r, "persist")
    /\ Goto(r, "broadcast")
    /\ UNCHANGED <<storeVars, chainVars, noticeVars, broadcast, countVars>>

(* "signed bytes are durably recorded BEFORE broadcast" *)
Persist(r) == At(r, "persist") /\ SaveRecords(r, "attempt")

(* The attempt is counted in the store before the send. *)
Attempt(r) ==
    /\ At(r, "attempt")
    /\ LET doc == [req[r].doc EXCEPT ![req[r].id].attempts = Rec(r).attempts + 1] IN
       \/ /\ HostedWriteRecords(r, doc)
          /\ req' = [req EXCEPT ![r].doc = doc, ![r].pc = "assertOwned"]
       \/ ~Owned(r) /\ Done(r) /\ UNCHANGED storeVars
    /\ UNCHANGED <<chainVars, noticeVars, broadcast, countVars>>

AssertOwned(r) ==
    /\ At(r, "assertOwned")
    /\ \/ Owned(r) /\ Goto(r, "broadcast")
       \/ ~Owned(r) /\ Done(r)
    /\ UNCHANGED <<storeVars, chainVars, noticeVars, broadcast, countVars>>

(* The relay takes a transaction whose nonce is not used yet. *)
Send(tx) ==
    /\ broadcast' = broadcast \cup {tx}
    /\ pool' = IF tx.nonce >= chainNonce THEN pool \cup {tx} ELSE pool
    /\ UNCHANGED <<chainNonce, receipts>>

Broadcast(r) ==
    /\ At(r, "broadcast")
    /\ Send(Rec(r).tx)
    /\ Goto(r, "poll")
    /\ UNCHANGED <<storeVars, noticeVars, countVars>>

(* Four polls may find the receipt or not. *)
Poll(r) ==
    /\ At(r, "poll")
    /\ \/ \E x \in receipts : /\ x.tx = Rec(r).tx
                              /\ Update(r, Confirmed(Rec(r), x.outcome), "save")
       \/ ~HasReceipt(Rec(r).tx) /\ Goto(r, "save")
    /\ UNCHANGED <<storeVars, chainVars, noticeVars, broadcast, countVars>>

(* Seeded fault: an issuance under review frees the account too. *)
FreesHalted(rec) == rec.completed \/ Halted(rec)

(* Seeded fault: a step that reverted keeps the account. *)
FreesCompleted(rec) == rec.completed

Frees(rec) == rec.completed \/ rec.state = "failed"

(* saveProgress: only a definitive receipt or a verified completion frees  *)
(* the signing account.                                                    *)
SaveProgress(r) ==
    /\ At(r, "save")
    /\ LET frees == Frees(Rec(r))
           id == req[r].id
       IN  \/ frees /\ HostedWriteAndReleaseOperator(r, req[r].doc, id)
           \/ ~frees /\ HostedWriteRecords(r, req[r].doc)
           \/ (IF frees THEN ~MayFinish(r, id) ELSE ~Owned(r)) /\ UNCHANGED storeVars
    /\ Done(r)
    /\ UNCHANGED <<chainVars, noticeVars, broadcast, countVars>>

---------------------------------------------------------------------------
(* resetDesk: drop the user's unfinished issuances and free the signing    *)
(* account if one of them holds it.                                        *)

Dropped(r) == {id \in Present(req[r].doc) :
                 req[r].doc[id].owner = req[r].user /\ ~req[r].doc[id].completed}
Kept(r) == [id \in RecordIds |->
              IF id \in Dropped(r) THEN Absent ELSE req[r].doc[id]]

ResetRead(r) ==
    /\ At(r, "resetRead")
    /\ \/ /\ \E id \in Present(records) :
                records[id].owner = req[r].user /\ ~records[id].completed
          /\ req' = [req EXCEPT ![r].doc = records, ![r].pc = "resetWrite"]
       \/ /\ \A id \in Present(records) :
                records[id].owner = req[r].user => records[id].completed
          /\ Done(r)
    /\ UNCHANGED <<storeVars, chainVars, noticeVars, broadcast, countVars>>

ResetWrite(r) ==
    /\ At(r, "resetWrite")
    /\ \/ HostedWriteRecords(r, Kept(r)) /\ Goto(r, "resetFree")
       \/ ~Owned(r) /\ Done(r) /\ UNCHANGED storeVars
    /\ UNCHANGED <<chainVars, noticeVars, broadcast, countVars>>

ResetFree(r) ==
    /\ At(r, "resetFree")
    /\ \/ marker \in Dropped(r) /\ HostedWriteMarker(r, NoWorkflow)
       \/ (marker \notin Dropped(r) \/ ~Owned(r)) /\ UNCHANGED storeVars
    /\ Done(r)
    /\ UNCHANGED <<chainVars, noticeVars, broadcast, countVars>>

---------------------------------------------------------------------------
(* The other users of the signing account *)

(* marketTick looks at the marker before it takes the lease; a failed read *)
(* counts as not reserved (operatorReserved).                              *)
TickLook(r) ==
    /\ "tick" \in OtherJobs
    /\ At(r, "idle") /\ ~Owned(r)
    /\ \/ marker = NoWorkflow /\ UNCHANGED faults
       \/ marker # NoWorkflow /\ faults < MaxFaults /\ faults' = faults + 1
    /\ req' = [req EXCEPT ![r] = [Idle EXCEPT !.pc = "tickLease", !.job = "tick"]]
    /\ UNCHANGED <<storeVars, chainVars, noticeVars, broadcast, begun, sent>>

(* withHostedLease does not wait: a busy lease ends the tick. *)
TickClaim(r) ==
    /\ At(r, "tickLease")
    /\ \/ Claim(r) /\ Goto(r, "send")
       \/ lease # Nobody /\ Done(r) /\ UNCHANGED lease
    /\ UNCHANGED <<records, marker, chainVars, noticeVars, broadcast, countVars>>

(* The work of a tick, a consent or an operator action on an institution:  *)
(* transactions signed by the same account, each sent once the one before  *)
(* is decided.  None of them looks at the lease or the marker again.       *)
OtherSends(r) ==
    /\ At(r, "send")
    /\ sent < MaxOthers
    /\ sent' = sent + 1
    /\ \A t \in pool : t.by = r => t.rec # 0
    /\ Send([rec |-> 0, step |-> 0, nonce |-> PendingNonce, by |-> r])
    /\ UNCHANGED <<storeVars, req, noticeVars, begun, faults>>

OtherEnds(r) ==
    /\ At(r, "send")
    /\ Done(r)
    /\ UNCHANGED <<storeVars, chainVars, noticeVars, broadcast, countVars>>

---------------------------------------------------------------------------
(* Failures and the network *)

(* Some await throws; or the instance dies and the lease is left behind. *)
Throw(r) ==
    /\ req[r].pc \notin {"idle", "done"}
    /\ faults < MaxFaults
    /\ faults' = faults + 1
    /\ Done(r)
    /\ UNCHANGED <<storeVars, chainVars, noticeVars, broadcast, begun, sent>>

Die(r) ==
    /\ req[r].pc # "idle"
    /\ faults < MaxFaults
    /\ faults' = faults + 1
    /\ req' = [req EXCEPT ![r] = Idle]
    /\ UNCHANGED <<storeVars, chainVars, noticeVars, broadcast, begun, sent>>

(* The lease is set for two minutes and handlers end after one, so it      *)
(* outlives its holder, unless the platform does not end handlers.         *)
LeaseExpires ==
    /\ SlowHandlers \/ \A r \in Requests : Owned(r) => At(r, "idle")
    /\ Expire
    /\ UNCHANGED <<req, chainVars, noticeVars, broadcast, countVars>>

(* A transaction executes when its nonce is next; any other transaction    *)
(* with that nonce is void.  Only a creation can lack its event.           *)
Mine(tx, outcome) ==
    /\ tx.nonce = chainNonce
    /\ outcome = "eventless" => tx.step = 1
    /\ chainNonce' = chainNonce + 1
    /\ pool' = {t \in pool : t.nonce # chainNonce}
    /\ receipts' = IF tx.rec = 0 THEN receipts
                   ELSE receipts \cup {[tx |-> tx, outcome |-> outcome]}
    /\ UNCHANGED <<storeVars, req, noticeVars, broadcast, countVars>>

(* The relay or the network loses a transaction. *)
Lose(tx) ==
    /\ pool' = pool \ {tx}
    /\ UNCHANGED <<storeVars, req, chainNonce, receipts, noticeVars, broadcast,
                   countVars>>

IssuanceStep(r) ==
    \/ BeginRead(r) \/ BeginWrite(r) \/ ReserveRead(r) \/ ReserveWrite(r)
    \/ AdvanceRead(r) \/ Verify(r) \/ FindNotice(r) \/ PublishNotice(r)
    \/ RecordNotice(r) \/ CheckReceipt(r) \/ ChooseAttempt(r) \/ ReviewWrite(r)
    \/ Sign(r) \/ Persist(r) \/ Attempt(r) \/ AssertOwned(r) \/ Broadcast(r)
    \/ Poll(r) \/ SaveProgress(r)
ResetStep(r) == ResetRead(r) \/ ResetWrite(r) \/ ResetFree(r)
HandlerStep(r) == IssuanceStep(r) \/ ResetStep(r) \/ Finish(r)
                  \/ TickClaim(r) \/ OtherSends(r) \/ OtherEnds(r)
NetworkStep ==
    \E tx \in pool :
        \/ \E outcome \in {"ok", "reverted", "eventless"} : Mine(tx, outcome)
        \/ Lose(tx)

Next ==
    \/ \E r \in Requests, u \in Users : StartBegin(r, u) \/ StartReset(r, u)
    \/ \E r \in Requests, u \in Users, id \in RecordIds : StartAdvance(r, u, id)
    \/ \E r \in Requests : StartConsent(r) \/ TickLook(r)
    \/ \E r \in Requests : HandlerStep(r)
    \/ \E r \in Requests : Throw(r) \/ Die(r)
    \/ LeaseExpires
    \/ NetworkStep

Spec == Init /\ [][Next]_vars

(* Whoever issues keeps the page open: it asks for the next step until the *)
(* issuance is over (retrying while the account is busy).  Handlers run,   *)
(* leases of dead requests expire and the network decides what it holds.   *)
Fairness ==
    /\ \A r \in Requests : WF_vars(HandlerStep(r))
    /\ \A id \in RecordIds :
          SF_vars(/\ Active(records[id])
                  /\ \E r \in Requests : StartAdvance(r, records[id].owner, id))
    /\ WF_vars(LeaseExpires)
    /\ WF_vars(NetworkStep)

FairSpec == Spec /\ Fairness

---------------------------------------------------------------------------
(* Properties *)

(* Every variable holds a value the store, the handlers or the network can *)
(* hold.                                                                   *)
TypeOK ==
    /\ lease \in Requests \cup {Nobody}
    /\ records \in [RecordIds -> Issuances]
    /\ marker \in 0..MaxRecords
    /\ begun \in 0..MaxRecords
    /\ req \in [Requests -> RequestStates]
    /\ committed \subseteq [rec : RecordIds, by : Requests]
    /\ notices \subseteq Terms
    /\ chainNonce \in Nat
    /\ pool \subseteq Txs
    /\ receipts \subseteq [tx : Txs, outcome : {"ok", "reverted", "eventless"}]
    /\ broadcast \subseteq Txs
    /\ sent \in 0..MaxOthers
    /\ faults \in 0..MaxFaults

(* "identical bytes rebroadcast on retry ... never a second mint"          *)
(* (docs/issuance-guide.md:30): whatever requests raced, threw, died or    *)
(* lost their lease, all that was ever sent for a step is one transaction. *)
OneTransactionPerStep ==
    \A s, t \in broadcast :
        (s.rec # 0 /\ s.rec = t.rec /\ s.step = t.step) => s = t

(* "signed bytes are durably recorded BEFORE broadcast" (issuance.ts:127): *)
(* a transaction that was sent is in the record that sent it, as the       *)
(* current step's, or belongs to a step already confirmed.                 *)
BroadcastIsRecorded ==
    \A t \in broadcast : (t.rec # 0 /\ records[t.rec].present) =>
        \/ records[t.rec].tx = t
        \/ t.step < records[t.rec].step

(* "One issuance runs at a time" (docs/issuance-guide.md:30), across       *)
(* requests of several users that check and write in separate steps.       *)
OneIssuanceAtATime ==
    \A a, b \in RecordIds : Active(records[a]) /\ Active(records[b]) => a = b

(* "Only a definitive chain receipt or full verified completion can free   *)
(* this signer for another workflow" (issuance.ts:24): while a record has  *)
(* a signed transaction whose outcome it does not know, it holds the       *)
(* reservation.                                                            *)
UnresolvedHoldsReservation ==
    \A id \in RecordIds :
        (records[id].present /\ records[id].state \in {"pending", "review"})
            => marker = id

(* The store is never ahead of the chain: a step recorded as confirmed was *)
(* executed, and executed once.  Hence verifyPrincipal's mismatch error is *)
(* unreachable while nobody else mints.                                    *)
ConfirmedMeansExecutedOnce ==
    \A id \in Present(records) : \A s \in 1..ChainSteps :
        s < records[id].step => Cardinality(Executed(id, s)) = 1

(* A transaction signed for a step can still execute until its receipt is  *)
(* there, a step under review included: nothing else used up its nonce.    *)
SignedStaysMinable ==
    \A id \in Present(records) : LET tx == records[id].tx IN
        tx # NoTx => HasReceipt(tx) \/ tx.nonce >= chainNonce

(* No request, however late, writes a record back to an earlier stage,     *)
(* replaces a transaction, changes a record that is finished, or brings a  *)
(* dropped record back with the progress it had.                           *)
ProgressIsKept ==
    [][\A id \in RecordIds :
        LET old == records[id]
            new == records'[id]
        IN  /\ (old.present /\ new.present) =>
              /\ new.step >= old.step
              /\ new.step = old.step =>
                    /\ new.attempts >= old.attempts
                    /\ old.tx # NoTx => new.tx = old.tx
              /\ (old.completed \/ Halted(old)) => new = old
            /\ (~old.present /\ new.present) => new.step = 1 /\ new.tx = NoTx]_vars

(* The rate of a completed asset is the rate of its committed notice.      *)
NoticeCarriesTheRate ==
    \A id \in Present(records) :
        records[id].step > NoticeStep => records[id].terms \in notices

(* An issuance its user keeps advancing ends: completed, failed or left    *)
(* for review; unless one that was left for review holds the signing       *)
(* account, which then blocks the issuance that was begun after it.        *)
Blocked(id) == marker \notin {NoWorkflow, id} /\ records[marker].state = "review"
IssuanceEnds ==
    \A id \in RecordIds : Active(records[id]) ~> (~Active(records[id]) \/ Blocked(id))

(* The requests implement serial issuance: what the store says of a record *)
(* is its status, what was ever sent its postings, and the receipts of     *)
(* success its runs.                                                       *)
StatusOf(rec) ==
    CASE ~rec.present -> "absent"
      [] rec.present /\ rec.completed -> "issued"
      [] rec.present /\ ~rec.completed /\ Halted(rec) -> rec.state
      [] Active(rec) -> "open"
ConfirmedOf(rec) == IF rec.present THEN rec.step - 1 ELSE 0
Posted(id, s) == {t \in broadcast : t.rec = id /\ t.step = s}

Serial == INSTANCE SerialIssuance WITH
    Loans <- RecordIds,
    status <- [id \in RecordIds |-> StatusOf(records[id])],
    confirmed <- [id \in RecordIds |-> ConfirmedOf(records[id])],
    posted <- [id \in RecordIds |->
                 [s \in 1..ChainSteps |-> Cardinality(Posted(id, s))]],
    runs <- [id \in RecordIds |->
               [s \in 1..ChainSteps |-> Cardinality(Executed(id, s))]]

(* Whatever requests race, throw, die or outlive their lease, and whatever *)
(* the relay loses: one loan at a time, its steps in order, each at most   *)
(* once, the record and the chain never more than a step apart, and        *)
(* nothing runs for a loan that failed or was issued.                      *)
ImplementsSerialIssuance == Serial!Spec
===========================================================================
