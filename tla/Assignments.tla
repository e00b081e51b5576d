---------------------------- MODULE Assignments ----------------------------
(***************************************************************************)
(* From an accepted quote to settlement: agent consent and reconciliation  *)
(* (web/src/lib/rfq.ts 118-229), the parts of the tick that drive them     *)
(* (automated-desk.ts 116-127, 187-204), the consent route and the         *)
(* reconciling page load.                                                  *)
(*                                                                         *)
(* A call works on its own copy of the trade's record and saves it after   *)
(* each external step: an instruction on the engine, a message on the      *)
(* topic, an approval intent for each desk.  Between an external step and  *)
(* its save the call may throw or its instance may die.                    *)
(***************************************************************************)
EXTENDS VenueStore, FiniteSets

CONSTANTS
    Trades,          \* accepted quotes; a trade's record is found by its quote
    Manual,          \* demonstration trades: demo.manualConsent
    Automated,       \* sides held by an automated desk
    Calls,           \* requests in flight
    NoTrade,
    NoInstance,
    MaxInstructions, \* bound: instructions created
    MaxPageLoads,    \* bound: reconciling page loads
    MaxFaults        \* bound: throws, deaths and lost leases

Side == {"seller", "buyer"}

ASSUME AssignmentsAssumption ==
    /\ Manual \subseteq Trades
    /\ Automated \subseteq Side
    /\ NoTrade \notin Trades
    /\ NoInstance \notin Instances \cup Calls
    /\ {MaxInstructions, MaxPageLoads, MaxFaults} \subseteq Nat

VARIABLES
    engine,          \* instructions on the settlement engine: [trade, state, approved]
    intents,         \* Privy intents to approve an instruction: [instr, side, status]
    anchored,        \* instructions whose creation is on the HCS topic
    busy,            \* the call that holds operator-transactions, or NoInstance
    call,
    accepted,        \* trades whose quote has been accepted
    loads,
    faults

chainVars == <<engine, intents, anchored>>
vars == <<docVars, chainVars, busy, call, accepted, loads, faults>>

(* A record: id 0 is the provisional id, intent 0 the empty intent id.     *)
EngineStates == {"AwaitingApprovals", "Scheduled", "Settled", "Failed", "Cancelled"}
Records ==
    [id : Nat, anchored : BOOLEAN, intent : [Side -> Nat], sent : SUBSET Side,
     consent : {"none", "pending", "granted"},
     state : EngineStates \cup {"none", "AwaitingAgentConsent", "PreparingApprovals"}]
Absent == [id |-> 0, anchored |-> FALSE, intent |-> [s \in Side |-> 0], sent |-> {},
           consent |-> "none", state |-> "none"]
(* acceptQuote: the record of an accepted quote. *)
Accepted == [Absent EXCEPT !.consent = "pending", !.state = "AwaitingAgentConsent"]
NoTrades == [x \in Trades |-> Absent]
ASSUME DefaultAssumption == Empty = NoTrades

Idle == [job |-> "none", inst |-> NoInstance, trade |-> NoTrade, pc |-> "idle",
         t |-> Absent, got |-> 0]
Labels == {"idle", "effect", "save", "authorize", "seller", "buyer", "engine", "write"}

Init ==
    /\ InitStore
    /\ engine = <<>>
    /\ intents = <<>>
    /\ anchored = {}
    /\ busy = NoInstance
    /\ call = [c \in Calls |-> Idle]
    /\ accepted = {}
    /\ loads = 0
    /\ faults = 0

At(c, label) == call[c].pc = label
Goto(c, label) == call' = [call EXCEPT ![c].pc = label]
T(c) == call[c].t
Here(c) == call[c].inst
(* Seeded fault: nothing is saved before the consent is complete.          *)
SavedAtTheEnd(c, t) ==
    IF t.consent = "granted" THEN [Read(Here(c)) EXCEPT ![call[c].trade] = t] ELSE Read(Here(c))
(* The document with the call's copy in the place of the record. *)
Saved(c, t) == [Read(Here(c)) EXCEPT ![call[c].trade] = t]

(* A quote is accepted (RfqMarket) and the trade recorded. *)
Accept(i, x) ==
    /\ Warm(i)
    /\ x \notin accepted
    /\ accepted' = accepted \cup {x}
    /\ Write(i, [Read(i) EXCEPT ![x] = Accepted])
    /\ UNCHANGED <<chainVars, busy, call, loads, faults>>

-----------------------------------------------------------------------------
(* grantConsent and completeConsent.  The consent route and the tick hold  *)
(* the lease; one instance runs one consent of a trade at a time.          *)
Consenting(i, x) ==
    \E c \in Calls : call[c].inst = i /\ call[c].trade = x /\ call[c].pc \in {"effect", "save"}
(* Seeded fault: a failed consent stays in the map of running ones.        *)
MayConsentOnce(i, x, job) == faults = 0 /\ Read(i)[x].consent = "pending"
MayConsent(i, x, job) ==
    LET t == Read(i)[x] IN
    /\ t.consent = "pending"
    /\ job = "tick" => x \notin Manual
    /\ ~Consenting(i, x)

BeginConsent(c, i, x, job) ==
    /\ At(c, "idle")
    /\ busy = NoInstance
    /\ Warm(i)
    /\ MayConsent(i, x, job)
    /\ busy' = c
    /\ call' = [call EXCEPT ![c] = [job |-> job, inst |-> i, trade |-> x, pc |-> "effect",
                                    t |-> Read(i)[x], got |-> 0]]
    /\ UNCHANGED <<docVars, chainVars, loads, faults, accepted>>

ConsentRoute(c, i, x) == BeginConsent(c, i, x, "route")
TickConsents(c, i, x) == BeginConsent(c, i, x, "tick")

(* What completeConsent does next with this record. *)
Unproposed(t) == {s \in Side : t.intent[s] = 0}
NextSide(t) == IF t.intent["seller"] = 0 THEN "seller" ELSE "buyer"

(* createInstruction, publish of the instruction and proposeDeskTx: the    *)
(* part that happens elsewhere; "got" is what the answer will carry.       *)
CreateInstruction(c) ==
    /\ At(c, "effect") /\ T(c).id = 0
    /\ Len(engine) < MaxInstructions
    /\ engine' = Append(engine, [trade |-> call[c].trade, state |-> "AwaitingApprovals",
                                 approved |-> {}])
    /\ call' = [call EXCEPT ![c].pc = "save", ![c].got = Len(engine) + 1]
    /\ UNCHANGED <<docVars, intents, anchored, busy, loads, faults, accepted>>
AnchorInstruction(c) ==
    /\ At(c, "effect") /\ T(c).id # 0 /\ ~T(c).anchored
    /\ anchored' = anchored \cup {T(c).id}
    /\ Goto(c, "save")
    /\ UNCHANGED <<docVars, engine, intents, busy, loads, faults, accepted>>
ProposeApproval(c) ==
    /\ At(c, "effect") /\ T(c).id # 0 /\ T(c).anchored /\ Unproposed(T(c)) # {}
    /\ intents' = Append(intents, [instr |-> T(c).id, side |-> NextSide(T(c)),
                                   status |-> "pending"])
    /\ call' = [call EXCEPT ![c].pc = "save", ![c].got = Len(intents) + 1]
    /\ UNCHANGED <<docVars, engine, anchored, busy, loads, faults, accepted>>

(* Seeded fault: the consent counts as given once the topic has it.        *)
AfterEffectGrantsEarly(t, got) ==
    IF t.id = 0 THEN [t EXCEPT !.id = got, !.state = "PreparingApprovals"]
    ELSE IF ~t.anchored THEN [t EXCEPT !.anchored = TRUE, !.consent = "granted"]
    ELSE [t EXCEPT !.intent[NextSide(t)] = got,
                   !.consent = IF Cardinality(Unproposed(t)) = 1 THEN "granted" ELSE @,
                   !.state = IF Cardinality(Unproposed(t)) = 1 THEN "AwaitingApprovals" ELSE @]

(* The record after the answer: the grant is written with the last intent, *)
(* no await between them.                                                  *)
AfterEffect(t, got) ==
    IF t.id = 0 THEN [t EXCEPT !.id = got, !.state = "PreparingApprovals"]
    ELSE IF ~t.anchored THEN [t EXCEPT !.anchored = TRUE]
    ELSE [t EXCEPT !.intent[NextSide(t)] = got,
                   !.consent = IF Cardinality(Unproposed(t)) = 1 THEN "granted" ELSE @,
                   !.state = IF Cardinality(Unproposed(t)) = 1 THEN "AwaitingApprovals" ELSE @]
SaveConsent(c) ==
    /\ At(c, "save")
    /\ LET t == AfterEffect(T(c), call[c].got) IN
         /\ Write(Here(c), Saved(c, t))
         /\ call' = [call EXCEPT ![c].t = t, ![c].got = 0,
                                 ![c].pc = IF t.consent = "granted" THEN "authorize"
                                           ELSE "effect"]
    /\ UNCHANGED <<chainVars, busy, loads, faults, accepted>>

(* authorizeAutomatedSides: the server keys complete the automated quorums.*)
AuthorizeSides(c) ==
    /\ At(c, "authorize")
    /\ intents' = [n \in 1..Len(intents) |->
                     IF /\ \E s \in Automated \ T(c).sent : T(c).intent[s] = n
                        /\ intents[n].status = "pending"
                     THEN [intents[n] EXCEPT !.status = "executed"] ELSE intents[n]]
    /\ Goto(c, "seller")
    /\ UNCHANGED <<docVars, engine, anchored, busy, loads, faults, accepted>>

-----------------------------------------------------------------------------
(* syncTrades, one open trade.  The tick and the consent route run it      *)
(* under the lease, a member's page load (GET trades?sync=1) without.      *)
Closed == {"Settled", "Cancelled", "AwaitingAgentConsent"}
(* Seeded faults: a trade whose consent is under way is reconciled too; a  *)
(* scheduled one no longer is.                                             *)
OpenWhileConsenting(t) == t.id # 0 /\ t.state \notin Closed
OpenUntilScheduled(t) ==
    t.consent = "granted" /\ t.id # 0 /\ t.state \notin Closed \cup {"Scheduled"}

Open(t) == t.consent = "granted" /\ t.id # 0 /\ t.state \notin Closed

BeginSync(c, i, x, job) ==
    /\ At(c, "idle")
    /\ Warm(i)
    /\ Open(Read(i)[x])
    /\ job = "tick" => busy = NoInstance
    /\ job = "load" => loads < MaxPageLoads
    /\ busy' = IF job = "tick" THEN c ELSE busy
    /\ loads' = IF job = "load" THEN loads + 1 ELSE loads
    /\ call' = [call EXCEPT ![c] =
                  [job |-> job, inst |-> i, trade |-> x, t |-> Read(i)[x], got |-> 0,
                   pc |-> IF job = "tick" THEN "authorize" ELSE "seller"]]
    /\ UNCHANGED <<docVars, chainVars, faults, accepted>>

TradesPage(c, i, x) == BeginSync(c, i, x, "load")
TickSyncs(c, i, x) == BeginSync(c, i, x, "tick")

(* SettlementEngine.approve, reached by the signed transaction; the second *)
(* approval books the settlement.  A repeated broadcast reads the receipt. *)
Approve(n, side) ==
    LET e == engine[n]
        approved == e.approved \cup {side}
        state == IF approved = Side THEN "Scheduled" ELSE e.state
    IN  IF e.state = "AwaitingApprovals" /\ side \notin e.approved
        THEN [engine EXCEPT ![n] = [e EXCEPT !.approved = approved, !.state = state]]
        ELSE engine
(* fetchIntent and, once the intent is executed, broadcastIntent. *)
SyncSide(c, side) ==
    /\ At(c, side)
    /\ LET n == T(c).intent[side]
           ready == /\ side \notin T(c).sent
                    /\ n # 0 /\ intents[n].status = "executed"
       IN  /\ engine' = IF ready THEN Approve(T(c).id, side) ELSE engine
           /\ call' = [call EXCEPT ![c].pc = IF side = "seller" THEN "buyer" ELSE "engine",
                                   ![c].t.sent = IF ready THEN @ \cup {side} ELSE @]
    /\ UNCHANGED <<docVars, intents, anchored, busy, loads, faults, accepted>>
(* A side's failure is noted and the next step taken; the transaction may  *)
(* have been sent.                                                         *)
SyncSideFails(c, side) ==
    /\ At(c, side)
    /\ faults < MaxFaults
    /\ LET n == T(c).intent[side] IN
         /\ side \notin T(c).sent /\ n # 0 /\ intents[n].status = "executed"
         /\ engine' \in {engine, Approve(T(c).id, side)}
    /\ Goto(c, IF side = "seller" THEN "buyer" ELSE "engine")
    /\ faults' = faults + 1
    /\ UNCHANGED <<docVars, intents, anchored, busy, loads, accepted>>
(* getTrade; the publication of a change is awaited before the write.      *)
SyncEngine(c) ==
    /\ At(c, "engine")
    /\ call' = [call EXCEPT ![c].t.state = engine[T(c).id].state, ![c].pc = "write"]
    /\ UNCHANGED <<docVars, chainVars, busy, loads, faults, accepted>>
(* The engine cannot be read: the copy is written back all the same. *)
SyncEngineFails(c) ==
    /\ At(c, "engine")
    /\ faults < MaxFaults
    /\ faults' = faults + 1
    /\ Goto(c, "write")
    /\ UNCHANGED <<docVars, chainVars, busy, loads, accepted>>
Release(c) == busy' = IF busy = c THEN NoInstance ELSE busy
(* The copy replaces the record, if the document still has its id.         *)
SyncWrite(c) ==
    /\ At(c, "write")
    /\ IF Read(Here(c))[call[c].trade].id = T(c).id
       THEN Write(Here(c), Saved(c, T(c))) ELSE UNCHANGED docVars
    /\ Release(c)
    /\ call' = [call EXCEPT ![c] = Idle]
    /\ UNCHANGED <<chainVars, loads, faults, accepted>>

-----------------------------------------------------------------------------
(* Outside: a desk's people sign; the schedule settles the instruction or  *)
(* fails, a party cancels it.  (SettlementEngine has these in full; nobody *)
(* under web/ reissues a failed instruction.)                              *)
HumanSigns(n) ==
    /\ intents[n].status = "pending"
    /\ intents' = [intents EXCEPT ![n].status = "executed"]
    /\ UNCHANGED <<docVars, engine, anchored, busy, call, loads, faults, accepted>>
EngineMoves(n, s) ==
    /\ \/ engine[n].state = "Scheduled" /\ s \in {"Settled", "Failed"}
       \/ engine[n].state \in {"AwaitingApprovals", "Scheduled", "Failed"} /\ s = "Cancelled"
    /\ engine' = [engine EXCEPT ![n].state = s]
    /\ UNCHANGED <<docVars, intents, anchored, busy, call, loads, faults, accepted>>

(* The handler throws and its finally releases the lease. *)
Throw(c) ==
    /\ ~At(c, "idle")
    /\ faults < MaxFaults
    /\ faults' = faults + 1
    /\ Release(c)
    /\ call' = [call EXCEPT ![c] = Idle]
    /\ UNCHANGED <<docVars, chainVars, loads, accepted>>
(* An instance dies with its calls; their lease expires. *)
Crash(i) ==
    /\ faults < MaxFaults
    /\ faults' = faults + 1
    /\ call' = [c \in Calls |-> IF Here(c) = i THEN Idle ELSE call[c]]
    /\ ColdStart(i)
    /\ UNCHANGED <<chainVars, busy, loads, accepted>>
LeaseExpires ==
    /\ busy # NoInstance
    /\ At(busy, "idle")
    /\ busy' = NoInstance
    /\ UNCHANGED <<docVars, chainVars, call, loads, faults, accepted>>

Step(c) ==
    \/ CreateInstruction(c) \/ AnchorInstruction(c) \/ ProposeApproval(c) \/ SaveConsent(c)
    \/ AuthorizeSides(c) \/ SyncSide(c, "seller") \/ SyncSide(c, "buyer")
    \/ SyncEngine(c) \/ SyncWrite(c)

Ticks == \E c \in Calls, i \in Instances, x \in Trades :
            TickConsents(c, i, x) \/ TickSyncs(c, i, x)

Next ==
    \/ \E i \in Instances, x \in Trades : Accept(i, x)
    \/ Ticks
    \/ \E c \in Calls, i \in Instances, x \in Trades :
          ConsentRoute(c, i, x) \/ TradesPage(c, i, x)
    \/ \E c \in Calls : \/ Step(c) \/ Throw(c) \/ SyncEngineFails(c)
                        \/ \E side \in Side : SyncSideFails(c, side)
    \/ \E i \in Instances : Crash(i)
    \/ LeaseExpires
    \/ \E n \in 1..Len(intents) : HumanSigns(n)
    \/ \E n \in 1..Len(engine), s \in EngineStates : EngineMoves(n, s)

(* With Redis the document moves between requests as well. *)
HostedNext ==
    \/ Next
    \/ /\ \E i \in Instances : SetLands(i) \/ SetFails(i) \/ HydrateAsks(i) \/ HydrateStores(i)
       /\ UNCHANGED <<chainVars, busy, call, loads, faults, accepted>>

(* Page loads keep driving the tick, requests run to their end, an expired *)
(* lease goes away.                                                        *)
Fairness ==
    /\ \A c \in Calls : WF_vars(Step(c))
    /\ WF_vars(LeaseExpires)
    /\ \A x \in Trades :
         /\ SF_vars(\E c \in Calls, i \in Instances : TickConsents(c, i, x))
         /\ SF_vars(\E c \in Calls, i \in Instances : TickSyncs(c, i, x))

Spec == Init /\ [][Next]_vars /\ Fairness
HostedSpec == Init /\ [][HostedNext]_vars

-----------------------------------------------------------------------------
TypeOK ==
    /\ durable = Unset \/ durable \in [Trades -> Records]
    /\ \A n \in 1..Len(engine) :
         engine[n] \in [trade : Trades, state : EngineStates, approved : SUBSET Side]
    /\ \A n \in 1..Len(intents) :
         intents[n] \in [instr : 1..Len(engine), side : Side, status : {"pending", "executed"}]
    /\ anchored \subseteq 1..Len(engine)
    /\ busy \in Calls \cup {NoInstance}
    /\ \A c \in Calls : call[c].pc \in Labels /\ call[c].inst \in Instances \cup {NoInstance}
    /\ accepted \subseteq Trades
    /\ loads \in 0..MaxPageLoads
    /\ faults \in 0..MaxFaults

(* "Persist each completed external step below so a retry resumes that     *)
(* instruction instead of silently creating a second trade" (rfq.ts        *)
(* 118-119): the desks of a trade are asked to sign one instruction only.  *)
AskedToSign(x) == {n \in 1..Len(engine) : engine[n].trade = x
                      /\ \E k \in 1..Len(intents) : intents[k].instr = n}
OneLiveInstruction == \A x \in Trades : Cardinality(AskedToSign(x)) <= 1

(* A granted record is complete: its instruction is the trade's own, its   *)
(* creation is on the topic, and each desk's intent is that desk's         *)
(* approval of that instruction.                                           *)
GrantedIsComplete ==
    durable # Unset => \A x \in Trades : durable[x].consent = "granted" =>
        LET t == durable[x] IN
        /\ t.id \in anchored
        /\ engine[t.id].trade = x
        /\ \A s \in Side : /\ t.intent[s] # 0
                           /\ intents[t.intent[s]].instr = t.id
                           /\ intents[t.intent[s]].side = s

(* Whatever stale copy a reconciliation writes back, the instruction and   *)
(* the intents a record has got are never lost or replaced, and a consent  *)
(* given is never taken back.                                              *)
ConsentIsKept ==
    [][\A x \in Trades :
         /\ durable[x].id # 0 => durable'[x].id = durable[x].id
         /\ \A s \in Side : durable[x].intent[s] # 0
               => durable'[x].intent[s] = durable[x].intent[s]
         /\ durable[x].consent = "granted" => durable'[x].consent = "granted"]_vars

(* The arranger automation consents to an assignment nobody consented to,  *)
(* whatever throws or dies on the way.                                     *)
ConsentCompletes ==
    \A x \in Trades \ Manual :
        durable[x].consent = "pending" ~> durable[x].consent = "granted"

(* A settlement on Hedera reaches the register and stays there, even when  *)
(* a page load read the engine earlier and writes its copy back later.     *)
SettledOnChain(x) ==
    durable[x].consent = "granted" /\ engine[durable[x].id].state = "Settled"
SettlementReachesRegister ==
    \A x \in Trades : SettledOnChain(x) ~> [](durable[x].state = "Settled")
=============================================================================
