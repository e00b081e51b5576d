-------------------------- MODULE DeskWalletProofs --------------------------
(***************************************************************************)
(* Safety of DeskWallet, for every value of the constants.                 *)
(*                                                                         *)
(* Five invariants, each inductive given the ones before it:               *)
(*  - WalletInv: types, what a request knows of the intent it works on,    *)
(*    and that a recorded step names an intent of its own permission;      *)
(*  - QueueInv: one proposal at a time is between its list of intents and  *)
(*    its new intent, and its view of the reserved nonces still covers     *)
(*    every live intent;                                                   *)
(*  - LeaseInv: who sends the operator's transactions holds the lease, and *)
(*    each transaction beyond the first was ordered or follows a failure;  *)
(*  - SentInv: what was sent was executed by Privy first;                  *)
(*  - PermissionInv: each permission's intents, counted against what was   *)
(*    ordered and what failed.                                             *)
(***************************************************************************)
EXTENDS DeskWallet, SequenceTheorems, FiniteSetTheorems, TLAPS

-----------------------------------------------------------------------------
(* Types and references *)

Jobs == {"none", "tick", "check", "admin", "trade", "retry", "order"}
CallStates == [job : Jobs, pc : Labels, step : 0..Steps, what : OperatorSteps \cup {"none"},
               s : DeskSteps, reserved : SUBSET Nat, n : Nat, current : BOOLEAN,
               dead : BOOLEAN]
Records == [done : SUBSET OperatorSteps, step : [SetupSteps -> DeskSteps],
            history : SUBSET (1..MaxIntents)]

(* Intent n of the wallet asks for permission k. *)
Asks(seq, n, k) == n \in 1..Len(seq) /\ k \in SetupSteps /\ seq[n].kind = k
(* A confirmed copy of a step names a permission that was executed. *)
TrueCopy(seq, s, k) ==
    /\ s.intent # 0 => Asks(seq, s.intent, k)
    /\ Confirmed(s) => s.intent # 0 /\ seq[s.intent].outcome = "ok"

(* What a request knows, label by label. *)
CallOK(k, seq) ==
    /\ k.pc \in {"operator", "operatorSaved"} =>
          k.what \in OperatorSteps /\ k.job \in {"tick", "order"}
    /\ k.pc \in {"broadcast", "poll", "review", "restore", "record"} => Asks(seq, k.n, k.step)
    /\ k.pc \in {"broadcast", "poll"} => k.s.intent = k.n /\ ~k.s.tx
    /\ k.pc = "syncSave" => k.s.intent # 0 /\ TrueCopy(seq, k.s, k.step)
    /\ k.pc \in {"review", "restore"} => k.job # "trade"
    /\ k.pc \in {"list", "nonce", "create"} => (k.step \in SetupSteps \/ k.job = "trade")

IntentsOK == intents \in Seq(Intents) /\ Len(intents) <= MaxIntents
RecordOK == h \in Records /\ \A k \in SetupSteps : TrueCopy(intents, h.step[k], k)
CallsOK == call \in [Calls -> CallStates] /\ \A c \in Calls : CallOK(call[c], intents)
CountsOK ==
    /\ chainNonce \in Nat /\ done \in [OperatorSteps -> Nat] /\ busy \in Calls \cup {Nobody}
    /\ rejects \in Nat /\ syncs \in Nat /\ trades \in Nat /\ orders \in Nat /\ faults \in Nat
    /\ rejects + syncs + trades + orders + faults <= MaxUpsets
WalletInv == IntentsOK /\ RecordOK /\ CallsOK /\ CountsOK

(* No intent changes its permission or its nonce, and one that was         *)
(* executed on Hedera stays so.                                            *)
Keeps(old, new) ==
    /\ new \in Seq(Intents) /\ Len(old) <= Len(new) /\ Len(new) <= MaxIntents
    /\ \A n \in 1..Len(old) : /\ new[n].kind = old[n].kind /\ new[n].nonce = old[n].nonce
                              /\ old[n].outcome = "ok" => new[n].outcome = "ok"
(* No intent is added, and none that is dead comes back to life. *)
Evolves(old, new) ==
    /\ Keeps(old, new) /\ Len(new) = Len(old)
    /\ \A n \in 1..Len(old) : Reserves(new[n]) => Reserves(old[n])

LEMMA EvolvesSame == ASSUME IntentsOK, UNCHANGED intents PROVE Evolves(intents, intents')
BY LenProperties DEF IntentsOK, Evolves, Keeps

(* One intent changes, in its signature, its status or its outcome. *)
LEMMA EvolvesOne ==
    ASSUME IntentsOK, NEW n \in Numbers, NEW e \in Intents,
           intents' = [intents EXCEPT ![n] = e],
           e.kind = intents[n].kind, e.nonce = intents[n].nonce,
           intents[n].outcome = "ok" => e.outcome = "ok",
           Reserves(e) => Reserves(intents[n])
    PROVE  Evolves(intents, intents')
<1>1. /\ intents' \in Seq(Intents) /\ Len(intents') = Len(intents)
      /\ \A j \in 1..Len(intents) : intents'[j] = IF j = n THEN e ELSE intents[j]
  BY ExceptSeq DEF IntentsOK, Numbers
<1>2. Len(intents) \in Nat
  BY LenProperties DEF IntentsOK
<1> QED BY <1>1, <1>2 DEF Evolves, Keeps, IntentsOK

(* Confirmed copies stay true, and what a request knows stays so. *)
LEMMA KeepsCopy ==
    ASSUME IntentsOK, NEW new, Keeps(intents, new), NEW s \in DeskSteps, NEW k,
           TrueCopy(intents, s, k)
    PROVE  TrueCopy(new, s, k)
<1>1. Len(intents) \in Nat /\ Len(new) \in Nat
  BY LenProperties DEF IntentsOK, Keeps
<1> QED BY <1>1 DEF Keeps, TrueCopy, Asks, Confirmed

LEMMA KeepsCall ==
    ASSUME IntentsOK, NEW new, Keeps(intents, new), NEW k \in CallStates,
           CallOK(k, intents)
    PROVE  CallOK(k, new)
<1>1. Len(intents) \in Nat /\ Len(new) \in Nat
  BY LenProperties DEF IntentsOK, Keeps
<1>2. \A n, p : Asks(intents, n, p) => Asks(new, n, p)
  BY <1>1 DEF Keeps, Asks
<1>3. k.s \in DeskSteps
  BY DEF CallStates
<1>4. TrueCopy(intents, k.s, k.step) => TrueCopy(new, k.s, k.step)
  BY <1>3, KeepsCopy
<1> QED BY <1>2, <1>4 DEF CallOK

(* A request goes on, the others stay where they are. *)
LEMMA OneCallMoves ==
    ASSUME IntentsOK, CallsOK, Keeps(intents, intents'), NEW c \in Calls,
           NEW k \in CallStates, CallOK(k, intents'), call' = [call EXCEPT ![c] = k]
    PROVE  CallsOK'
<1>1. call' \in [Calls -> CallStates]
  BY DEF CallsOK
<1>2. ASSUME NEW d \in Calls PROVE CallOK(call'[d], intents')
  <2>1. CASE d = c
    BY <2>1 DEF CallsOK
  <2>2. CASE d # c
    <3>1. call'[d] = call[d] /\ call[d] \in CallStates /\ CallOK(call[d], intents)
      BY <2>2 DEF CallsOK
    <3> QED BY <3>1, KeepsCall
  <2> QED BY <2>1, <2>2
<1> QED BY <1>1, <1>2 DEF CallsOK

LEMMA NoCallMoves ==
    ASSUME IntentsOK, CallsOK, Keeps(intents, intents'), UNCHANGED call PROVE CallsOK'
<1>1. ASSUME NEW d \in Calls PROVE CallOK(call[d], intents')
  BY KeepsCall DEF CallsOK
<1> QED BY <1>1 DEF CallsOK

LEMMA NoRecordMoves ==
    ASSUME IntentsOK, RecordOK, Keeps(intents, intents'), UNCHANGED h PROVE RecordOK'
<1>1. ASSUME NEW k \in SetupSteps PROVE TrueCopy(intents', h.step[k], k)
  BY KeepsCopy DEF RecordOK, Records
<1> QED BY <1>1 DEF RecordOK

LEMMA IdleOK == \A seq : Idle \in CallStates /\ CallOK(Idle, seq)
BY WalletAssumption DEF Idle, NoStep, CallStates, CallOK, DeskSteps, Jobs, Labels

(* A step of one request that changes neither an intent nor the record. *)
LEMMA CallOnly ==
    ASSUME WalletInv, UNCHANGED <<intents, h>>, CountsOK', NEW c \in Calls,
           NEW k \in CallStates, CallOK(k, intents), call' = [call EXCEPT ![c] = k]
    PROVE  WalletInv'
<1>1. Keeps(intents, intents')
  BY EvolvesSame DEF WalletInv, Evolves
<1>2. CallsOK'
  BY <1>1, OneCallMoves DEF WalletInv
<1>3. RecordOK'
  BY <1>1, NoRecordMoves DEF WalletInv
<1> QED BY <1>2, <1>3 DEF WalletInv, IntentsOK

LEMMA CountsSame ==
    ASSUME CountsOK, UNCHANGED <<chainNonce, done, counts>>,
           busy' \in Calls \cup {Nobody}
    PROVE  CountsOK'
BY DEF CountsOK, counts

LEMMA StepRange == \A k \in SetupSteps : k \in 0..Steps
BY WalletAssumption DEF SetupSteps

(* The first of some setup steps is one of them. *)
LEMMA FirstOfIn == ASSUME NEW S \in SUBSET SetupSteps, S # {} PROVE FirstOf(S) \in S
<1>1. \A k \in S : k \in 1..3
  BY WalletAssumption DEF SetupSteps
<1>2. \E k \in S : \A l \in S : k <= l
  <2>1. CASE 1 \in S
    BY <1>1, <2>1
  <2>2. CASE 1 \notin S /\ 2 \in S
    BY <1>1, <2>2
  <2>3. CASE 1 \notin S /\ 2 \notin S
    <3>1. \A k \in S : k = 3
      BY <1>1, <2>3
    <3> QED BY <3>1
  <2> QED BY <2>1, <2>2, <2>3
<1> QED BY <1>2 DEF FirstOf

-----------------------------------------------------------------------------
(* The steps of a request *)

LEMMA TickBeginsOK == ASSUME WalletInv, NEW c \in Calls, TickBegins(c) PROVE WalletInv'
<1> DEFINE w == NextOperatorStep
           k == [Idle EXCEPT !.job = "tick", !.step = 1, !.what = w,
                             !.pc = IF w = "none" THEN "sync" ELSE "operator"]
<1> w \in OperatorSteps \cup {"none"} /\ 1 \in 0..Steps
  BY WalletAssumption DEF NextOperatorStep, OperatorSteps
<1> HIDE DEF w
<1>1. k \in CallStates /\ CallOK(k, intents)
  <2>1. k \in CallStates
    BY IdleOK DEF CallStates, Jobs, Labels
  <2>2. CallOK(k, intents)
    BY IdleOK DEF CallStates, CallOK
  <2> QED BY <2>1, <2>2
<1>2. busy' = c /\ call' = [call EXCEPT ![c] = k] /\ UNCHANGED <<chainNonce, intents, h, done, counts>>
  BY DEF TickBegins, Take, Go, w
<1>3. CountsOK'
  BY <1>2, CountsSame DEF WalletInv
<1> HIDE DEF k
<1> QED BY <1>1, <1>2, <1>3, CallOnly

LEMMA ChecksOK ==
    ASSUME WalletInv, NEW c \in Calls, MemberChecks(c) \/ AdminChecks(c) \/ ProposesTrade(c)
    PROVE  WalletInv'
<1>1. CountsOK'
  BY WalletAssumption DEF WalletInv, CountsOK, MemberChecks, AdminChecks, ProposesTrade, Check, Upsettable, Take, Go
<1>2. PICK k \in CallStates : CallOK(k, intents) /\ call' = [call EXCEPT ![c] = k]
  <2> DEFINE k1 == [Idle EXCEPT !.job = "check", !.pc = "sync", !.step = 1]
             k2 == [Idle EXCEPT !.job = "admin", !.pc = "sync", !.step = 1]
             k3 == [Idle EXCEPT !.job = "trade", !.pc = "list"]
  <2> 1 \in 0..Steps
    BY WalletAssumption
  <2>1. k1 \in CallStates /\ k2 \in CallStates /\ k3 \in CallStates
    BY IdleOK DEF CallStates, Jobs, Labels
  <2>2. CallOK(k1, intents) /\ CallOK(k2, intents) /\ CallOK(k3, intents)
    BY IdleOK DEF CallStates, CallOK
  <2> HIDE DEF k1, k2, k3
  <2>3. call' \in {[call EXCEPT ![c] = k1], [call EXCEPT ![c] = k2], [call EXCEPT ![c] = k3]}
    BY DEF k1, k2, k3, MemberChecks, AdminChecks, ProposesTrade, Take, Go
  <2> QED BY <2>1, <2>2, <2>3
<1>3. UNCHANGED <<intents, h>>
  BY DEF MemberChecks, AdminChecks, ProposesTrade, Check
<1> QED BY <1>1, <1>2, <1>3, CallOnly

LEMMA OrdersOK ==
    ASSUME WalletInv, NEW c \in Calls, NEW k \in CallStates, CallOK(k, intents), Orders(c, k)
    PROVE  WalletInv'
<1>1. CountsOK'
  BY WalletAssumption DEF WalletInv, CountsOK, Orders, Upsettable, Take, Go
<1>2. call' = [call EXCEPT ![c] = k] /\ UNCHANGED <<intents, h>>
  BY DEF Orders, Take, Go
<1> QED BY <1>1, <1>2, CallOnly

LEMMA AdminOperatesOK ==
    ASSUME WalletInv, NEW c \in Calls, NEW what \in OperatorSteps, AdminOperates(c, what)
    PROVE  WalletInv'
<1> DEFINE k == [Idle EXCEPT !.job = "order", !.pc = "operator", !.what = what]
<1>1. k \in CallStates /\ CallOK(k, intents)
  <2>1. k \in CallStates
    BY IdleOK DEF CallStates, Jobs, Labels
  <2>2. CallOK(k, intents)
    BY IdleOK DEF CallStates, CallOK
  <2> QED BY <2>1, <2>2
<1>2. Orders(c, k)
  BY DEF AdminOperates
<1> HIDE DEF k
<1> QED BY <1>1, <1>2, OrdersOK

LEMMA AdminProposesOK ==
    ASSUME WalletInv, NEW c \in Calls, NEW p \in SetupSteps, AdminProposes(c, p)
    PROVE  WalletInv'
<1> DEFINE k == [Idle EXCEPT !.job = "order", !.pc = "list", !.step = p]
<1>1. k \in CallStates /\ CallOK(k, intents)
  <2>1. k \in CallStates
    BY IdleOK, StepRange DEF CallStates, Jobs, Labels
  <2>2. CallOK(k, intents)
    BY IdleOK DEF CallStates, CallOK
  <2> QED BY <2>1, <2>2
<1>2. Orders(c, k)
  BY DEF AdminProposes
<1> HIDE DEF k
<1> QED BY <1>1, <1>2, OrdersOK

LEMMA RetryBeginsOK ==
    ASSUME WalletInv, NEW c \in Calls, NEW p \in SetupSteps, RetryBegins(c, p)
    PROVE  WalletInv'
<1> DEFINE k == [Idle EXCEPT !.job = "retry", !.pc = "review", !.step = p,
                             !.n = h.step[p].intent]
<1>1. Asks(intents, h.step[p].intent, p) /\ h.step[p].intent \in Nat
  <2>1. TrueCopy(intents, h.step[p], p) /\ h.step[p] \in DeskSteps
    BY DEF WalletInv, RecordOK, Records
  <2>2. h.step[p].intent # 0
    BY DEF RetryBegins, CanRetry
  <2> QED BY <2>1, <2>2 DEF TrueCopy, DeskSteps
<1>2. k \in CallStates /\ CallOK(k, intents)
  <2>1. k \in CallStates
    BY <1>1, IdleOK, StepRange DEF CallStates, Jobs, Labels
  <2>2. CallOK(k, intents)
    BY <1>1, IdleOK DEF CallStates, CallOK, Jobs
  <2> QED BY <2>1, <2>2
<1>3. busy' = c /\ call' = [call EXCEPT ![c] = k] /\ UNCHANGED <<chainNonce, intents, h, done, counts>>
  BY DEF RetryBegins, Take, Go
<1>4. CountsOK'
  BY <1>3, CountsSame DEF WalletInv
<1> HIDE DEF k
<1> QED BY <1>2, <1>3, <1>4, CallOnly

(* A request that ends. *)
LEMMA EndOK ==
    ASSUME WalletInv, NEW c \in Calls, End(c),
           UNCHANGED <<chainNonce, intents, h, done, counts>>
    PROVE  WalletInv'
<1>1. call' = [call EXCEPT ![c] = Idle] /\ busy' \in {busy, Nobody}
  BY DEF End, Release
<1>2. CountsOK'
  BY <1>1, CountsSame DEF WalletInv, CountsOK
<1> QED BY <1>1, <1>2, IdleOK, CallOnly
(* A request that goes on. *)
LEMMA GoOK ==
    ASSUME WalletInv, NEW c \in Calls, NEW k \in CallStates, CallOK(k, intents), Go(c, k),
           UNCHANGED <<chainNonce, intents, h, done, busy, counts>>
    PROVE  WalletInv'
<1>1. call' = [call EXCEPT ![c] = k]
  BY DEF Go
<1>2. CountsOK'
  BY CountsSame DEF WalletInv, CountsOK
<1> QED BY <1>1, <1>2, CallOnly

LEMMA FailsOK == ASSUME WalletInv, NEW c \in Calls, Fails(c) PROVE WalletInv'
<1>1. call' = [call EXCEPT ![c] = Idle] /\ UNCHANGED <<intents, h>>
  BY DEF Fails, End
<1>2. CountsOK'
  BY WalletAssumption DEF WalletInv, CountsOK, Fails, Upsettable, End, Release
<1> QED BY <1>1, <1>2, IdleOK, CallOnly

LEMMA SendsOK ==
    ASSUME WalletInv, NEW c \in Calls, NEW what \in OperatorSteps, Sends(c, what)
    PROVE  WalletInv'
<1> DEFINE k == [call[c] EXCEPT !.pc = "operatorSaved"]
<1>1. call[c] \in CallStates /\ CallOK(call[c], intents) /\ call[c].pc = "operator"
  BY DEF WalletInv, CallsOK, Sends, At
<1>2. k \in CallStates /\ CallOK(k, intents)
  BY <1>1 DEF CallStates, CallOK, Labels
<1>3. CountsOK'
  BY DEF WalletInv, CountsOK, Sends, counts
<1>4. call' = [call EXCEPT ![c] = k] /\ UNCHANGED <<intents, h>>
  BY DEF Sends, Go
<1> HIDE DEF k
<1> QED BY <1>2, <1>3, <1>4, CallOnly

LEMMA OperatorSavesOK == ASSUME WalletInv, NEW c \in Calls, OperatorSaves(c) PROVE WalletInv'
<1>1. call[c].what \in OperatorSteps
  BY DEF WalletInv, CallsOK, CallOK, OperatorSaves, At
<1>2. Keeps(intents, intents')
  BY EvolvesSame DEF OperatorSaves, WalletInv, Evolves
<1>3. call' = [call EXCEPT ![c] = Idle] /\ busy' \in {busy, Nobody}
  BY DEF OperatorSaves, End, Release
<1>4. CallsOK'
  BY <1>2, <1>3, IdleOK, OneCallMoves DEF WalletInv
<1>5. h' \in Records /\ h'.step = h.step
  BY <1>1 DEF OperatorSaves, WalletInv, RecordOK, Records
<1>6. RecordOK'
  BY <1>5 DEF OperatorSaves, WalletInv, RecordOK
<1>7. CountsOK'
  BY <1>3, CountsSame DEF WalletInv, CountsOK, OperatorSaves
<1> QED BY <1>4, <1>6, <1>7 DEF WalletInv, IntentsOK, OperatorSaves

LEMMA AfterSyncOK == ASSUME WalletInv, NEW c \in Calls, AfterSync(c) PROVE WalletInv'
<1>1. CASE call[c].job = "tick" /\ Missing # {}
  <2> DEFINE m == FirstOf(Missing)
             k == [Idle EXCEPT !.job = "tick", !.pc = "list", !.step = m,
                               !.current = Missing = SetupSteps]
  <2>1. m \in SetupSteps
    BY <1>1, FirstOfIn DEF Missing
  <2>2. Go(c, k) /\ UNCHANGED <<chainNonce, intents, h, done, busy, counts>>
    BY <1>1 DEF AfterSync
  <2> HIDE DEF m
  <2>3. k \in CallStates
    BY <2>1, IdleOK, StepRange DEF CallStates, Jobs, Labels
  <2>4. CallOK(k, intents)
    BY <2>1, IdleOK DEF CallStates, CallOK
  <2> HIDE DEF k
  <2> QED BY <2>2, <2>3, <2>4, GoOK
<1>2. CASE ~(call[c].job = "tick" /\ Missing # {}) /\ call[c].job = "tick" /\ CashDue
  <2> DEFINE k == [Idle EXCEPT !.job = "tick", !.pc = "operator", !.what = "cash"]
  <2>1. Go(c, k) /\ UNCHANGED <<chainNonce, intents, h, done, busy, counts>>
    BY <1>2 DEF AfterSync
  <2>2. k \in CallStates
    BY IdleOK DEF CallStates, Jobs, Labels, OperatorSteps
  <2>3. CallOK(k, intents)
    BY IdleOK DEF CallStates, CallOK, OperatorSteps
  <2> HIDE DEF k
  <2> QED BY <2>1, <2>2, <2>3, GoOK
<1>3. CASE ~(call[c].job = "tick" /\ Missing # {}) /\ ~(call[c].job = "tick" /\ CashDue)
  <2>1. End(c) /\ UNCHANGED <<chainNonce, intents, h, done, counts>>
    BY <1>3 DEF AfterSync
  <2> QED BY <2>1, EndOK
<1> QED BY <1>1, <1>2, <1>3

LEMMA SyncLooksOK == ASSUME WalletInv, NEW c \in Calls, SyncLooks(c) PROVE WalletInv'
<1> DEFINE open == {k \in SetupSteps : ~Confirmed(h.step[k])}
           k == FirstOf(open)
           s == h.step[k]
           i == intents[s.intent]
           clear == [s EXCEPT !.error = "none"]
           s1 == IF i.status = "pending" /\ i.nonce # chainNonce
                 THEN [clear EXCEPT !.error = "NONCE"] ELSE clear
           k1 == [call[c] EXCEPT !.pc = "afterSync"]
           k2 == [call[c] EXCEPT !.step = k, !.n = s.intent,
                     !.pc = IF i.status = "executed" THEN "broadcast" ELSE "syncSave", !.s = s1]
<1>1. call[c] \in CallStates
  BY DEF WalletInv, CallsOK
<1>2. CASE open = {} \/ s.intent = 0 \/ s.tx
  <2>1. Go(c, k1) /\ UNCHANGED <<chainNonce, intents, h, done, busy, counts>>
    BY <1>2 DEF SyncLooks
  <2>2. k1 \in CallStates
    BY <1>1 DEF CallStates, Labels
  <2>3. CallOK(k1, intents)
    BY <1>1 DEF CallStates, CallOK
  <2> HIDE DEF k1
  <2> QED BY <2>1, <2>2, <2>3, GoOK
<1>3. CASE ~(open = {} \/ s.intent = 0 \/ s.tx)
  <2>1. Go(c, k2) /\ UNCHANGED <<chainNonce, intents, h, done, busy, counts>>
    BY <1>3 DEF SyncLooks
  <2>2. k \in SetupSteps
    BY <1>3, FirstOfIn
  <2> HIDE DEF k, open
  <2>3. s \in DeskSteps /\ TrueCopy(intents, s, k)
    BY <2>2 DEF WalletInv, RecordOK, Records
  <2>4. Asks(intents, s.intent, k) /\ s.intent \in Nat /\ ~s.tx
    BY <1>3, <2>3 DEF TrueCopy, DeskSteps
  <2> HIDE DEF s, i
  <2>5. s1 \in DeskSteps /\ s1.intent = s.intent /\ ~s1.tx
    BY <2>3, <2>4 DEF DeskSteps
  <2> HIDE DEF s1
  <2>6. k2 \in CallStates
    BY <1>1, <2>2, <2>4, <2>5, StepRange DEF CallStates, Labels
  <2>7. TrueCopy(intents, s1, k)
    BY <2>4, <2>5 DEF TrueCopy, Confirmed
  <2>8. s.intent # 0
    BY <1>3 DEF s
  <2>9. CallOK(k2, intents)
    BY <1>1, <2>4, <2>5, <2>7, <2>8 DEF CallStates, CallOK
  <2> HIDE DEF k2
  <2> QED BY <2>1, <2>6, <2>9, GoOK
<1> QED BY <1>2, <1>3

(* Intents change and a request goes on, the record stays. *)
LEMMA EvolveGo ==
    ASSUME WalletInv, Keeps(intents, intents'), NEW c \in Calls, NEW k \in CallStates,
           CallOK(k, intents'), call' = [call EXCEPT ![c] = k], CountsOK', UNCHANGED h
    PROVE  WalletInv'
<1>1. CallsOK'
  BY OneCallMoves DEF WalletInv
<1>2. RecordOK'
  BY NoRecordMoves DEF WalletInv
<1> QED BY <1>1, <1>2 DEF WalletInv, IntentsOK, Keeps
LEMMA EvolveOnly ==
    ASSUME WalletInv, Keeps(intents, intents'), CountsOK', UNCHANGED <<h, call>>
    PROVE  WalletInv'
<1>1. CallsOK'
  BY NoCallMoves DEF WalletInv
<1>2. RecordOK'
  BY NoRecordMoves DEF WalletInv
<1> QED BY <1>1, <1>2 DEF WalletInv, IntentsOK, Keeps

(* What a broadcast does to the intents. *)
LEMMA BroadcastsEvolves ==
    ASSUME WalletInv, NEW c \in Calls, Broadcasts(c) PROVE Evolves(intents, intents')
<1> DEFINE n == call[c].n
           e == [intents[n] EXCEPT !.outcome = "sent"]
<1>1. n \in Numbers
  BY DEF WalletInv, CallsOK, CallOK, Asks, Numbers, Broadcasts, At
<1>2. intents[n] \in Intents
  BY <1>1, ElementOfSeq DEF WalletInv, IntentsOK, Numbers
<1>3. CASE UNCHANGED intents
  BY <1>3, EvolvesSame DEF WalletInv
<1>4. CASE ~Decided(intents[n]) /\ intents' = [intents EXCEPT ![n].outcome = "sent"]
  <2>1. intents' = [intents EXCEPT ![n] = e]
    BY <1>4
  <2>2. e \in Intents /\ e.kind = intents[n].kind /\ e.nonce = intents[n].nonce
    BY <1>2 DEF Intents
  <2>3. intents[n].outcome \notin {"ok", "reverted"}
    BY <1>4 DEF Decided
  <2>4. Reserves(e) => Reserves(intents[n])
    BY <1>2, <2>3 DEF Reserves, Intents
  <2> HIDE DEF e, n
  <2> QED BY <1>1, <2>1, <2>2, <2>3, <2>4, EvolvesOne DEF WalletInv
<1> QED BY <1>3, <1>4 DEF Broadcasts

LEMMA BroadcastsOK == ASSUME WalletInv, NEW c \in Calls, Broadcasts(c) PROVE WalletInv'
<1> DEFINE k1 == [call[c] EXCEPT !.pc = "poll"]
           k2 == [call[c] EXCEPT !.pc = "syncSave", !.s.error = "NONCE"]
<1>1. Keeps(intents, intents')
  BY BroadcastsEvolves DEF Evolves
<1>2. call[c] \in CallStates /\ call[c].s \in DeskSteps /\ CallOK(call[c], intents)
      /\ call[c].pc = "broadcast"
  BY DEF WalletInv, CallsOK, CallStates, Broadcasts, At
<1>3. CountsOK'
  BY CountsSame DEF WalletInv, CountsOK, Broadcasts
<1>4. k1 \in CallStates /\ k2 \in CallStates
  BY <1>2 DEF CallStates, DeskSteps, Labels
<1>5. CallOK(k1, intents)
  BY <1>2 DEF CallStates, CallOK
<1>6. CallOK(k2, intents)
  <2>1. Asks(intents, call[c].n, call[c].step) /\ call[c].s.intent = call[c].n /\ ~call[c].s.tx
    BY <1>2 DEF CallOK
  <2>2. call[c].n # 0
    BY <2>1 DEF Asks
  <2>3. k2.pc = "syncSave" /\ k2.step = call[c].step /\ k2.s.intent = call[c].n /\ ~k2.s.tx
    BY <1>2, <2>1 DEF CallStates, DeskSteps
  <2> HIDE DEF k2
  <2>4. TrueCopy(intents, k2.s, k2.step)
    BY <2>1, <2>3 DEF TrueCopy, Confirmed
  <2> QED BY <2>2, <2>3, <2>4 DEF CallOK
<1>7. call' = [call EXCEPT ![c] = k1] \/ call' = [call EXCEPT ![c] = k2]
  BY DEF Broadcasts, Go
<1>8. UNCHANGED h
  BY DEF Broadcasts
<1> HIDE DEF k1, k2
<1>9. CallOK(k1, intents') /\ CallOK(k2, intents')
  BY <1>1, <1>4, <1>5, <1>6, KeepsCall DEF WalletInv
<1> QED BY <1>1, <1>3, <1>4, <1>7, <1>8, <1>9, EvolveGo

LEMMA PollsOK ==
    ASSUME WalletInv, NEW c \in Calls, Polls(c) \/ RelayRefused(c) PROVE WalletInv'
<1> DEFINE s1 == Result(call[c].s, intents[call[c].n])
           s2 == [call[c].s EXCEPT !.tx = TRUE, !.error = "REVERTED"]
           k1 == [call[c] EXCEPT !.pc = "syncSave", !.s = s1]
           k2 == [call[c] EXCEPT !.pc = "syncSave", !.s = s2]
<1>1. call[c] \in CallStates /\ call[c].s \in DeskSteps /\ CallOK(call[c], intents)
      /\ call[c].pc = "poll"
  BY DEF WalletInv, CallsOK, CallStates, Polls, RelayRefused, At
<1>2. Asks(intents, call[c].n, call[c].step) /\ call[c].s.intent = call[c].n /\ ~call[c].s.tx
  BY <1>1 DEF CallOK
<1>3. s1 \in DeskSteps /\ s1.intent = call[c].n
      /\ (Confirmed(s1) => intents[call[c].n].outcome = "ok")
  BY <1>1, <1>2 DEF Result, DeskSteps, Confirmed
<1>4. s2 \in DeskSteps /\ s2.intent = call[c].n /\ ~Confirmed(s2)
  BY <1>1, <1>2 DEF DeskSteps, Confirmed
<1>5. Go(c, k1) \/ Go(c, k2)
  <2>1. CASE Polls(c)
    BY <2>1 DEF Polls
  <2>2. CASE RelayRefused(c)
    <3>1. k2 = [call[c] EXCEPT !.pc = "syncSave", !.s.tx = TRUE, !.s.error = "REVERTED"]
      BY <1>1 DEF CallStates, DeskSteps
    <3> HIDE DEF k2
    <3> QED BY <2>2, <3>1 DEF RelayRefused
  <2> QED BY <2>1, <2>2
<1>6. UNCHANGED <<chainNonce, intents, h, done, busy, counts>>
  BY DEF Polls, RelayRefused
<1> HIDE DEF s1, s2
<1>7. call[c].n # 0
  BY <1>2 DEF Asks
<1>8. TrueCopy(intents, s1, call[c].step) /\ TrueCopy(intents, s2, call[c].step)
  BY <1>2, <1>3, <1>4, <1>7 DEF TrueCopy
<1>9. k1 \in CallStates /\ k2 \in CallStates
  BY <1>1, <1>3, <1>4 DEF CallStates, Labels
<1>10. CallOK(k1, intents)
  BY <1>1, <1>3, <1>7, <1>8 DEF CallStates, CallOK
<1>11. CallOK(k2, intents)
  BY <1>1, <1>4, <1>7, <1>8 DEF CallStates, CallOK
<1> HIDE DEF k1, k2
<1> QED BY <1>5, <1>6, <1>9, <1>10, <1>11, GoOK

LEMMA SyncSavesOK == ASSUME WalletInv, NEW c \in Calls, SyncSaves(c) PROVE WalletInv'
<1> DEFINE k == call[c].step
           s == call[c].s
           k1 == [call[c] EXCEPT !.pc = "afterSync"]
<1>1. call[c] \in CallStates /\ s \in DeskSteps /\ CallOK(call[c], intents)
      /\ call[c].pc = "syncSave"
  BY DEF WalletInv, CallsOK, CallStates, SyncSaves, At
<1>2. TrueCopy(intents, s, k) /\ k \in SetupSteps
  BY <1>1 DEF CallOK, TrueCopy, Asks
<1>3. h \in Records /\ h' = [h EXCEPT !.step[k] = s] /\ UNCHANGED intents
  BY DEF WalletInv, RecordOK, SyncSaves
<1>4. h' \in Records /\ h'.step = [h.step EXCEPT ![k] = s]
  BY <1>1, <1>2, <1>3 DEF Records
<1>5. RecordOK'
  <2>1. ASSUME NEW l \in SetupSteps PROVE TrueCopy(intents, h'.step[l], l)
    BY <1>2, <1>3, <1>4 DEF WalletInv, RecordOK, Records
  <2> QED BY <1>3, <1>4, <2>1 DEF RecordOK
<1>6. k1 \in CallStates
  BY <1>1 DEF CallStates, Labels
<1>7. CallOK(k1, intents)
  BY <1>1 DEF CallStates, CallOK
<1>8. call' = [call EXCEPT ![c] = k1] /\ UNCHANGED <<chainNonce, intents, done, busy, counts>>
  BY DEF SyncSaves, Go
<1> HIDE DEF k1
<1>9. CallsOK'
  BY <1>3, <1>6, <1>7, <1>8, EvolvesSame, OneCallMoves DEF WalletInv, Evolves
<1>10. CountsOK'
  BY <1>8, CountsSame DEF WalletInv, CountsOK
<1> QED BY <1>3, <1>5, <1>9, <1>10 DEF WalletInv, IntentsOK

LEMMA ListsIntentsOK == ASSUME WalletInv, NEW c \in Calls, ListsIntents(c) PROVE WalletInv'
<1> DEFINE nonces == {intents[n].nonce : n \in {m \in Numbers : Reserves(intents[m])}}
           k == [call[c] EXCEPT !.pc = "nonce", !.reserved = nonces]
<1>1. call[c] \in CallStates /\ CallOK(call[c], intents) /\ call[c].pc = "list"
  BY DEF WalletInv, CallsOK, ListsIntents, At
<1>2. nonces \in SUBSET Nat
  <2>1. \A n \in Numbers : intents[n] \in Intents
    BY ElementOfSeq DEF WalletInv, IntentsOK, Numbers
  <2>2. \A n \in Numbers : intents[n].nonce \in Nat
    BY <2>1 DEF Intents
  <2> QED BY <2>2
<1>3. Go(c, k) /\ UNCHANGED <<chainNonce, intents, h, done, busy, counts>>
  BY DEF ListsIntents
<1> HIDE DEF nonces
<1>4. k \in CallStates
  BY <1>1, <1>2 DEF CallStates, Labels
<1>5. CallOK(k, intents)
  BY <1>1 DEF CallStates, CallOK
<1> HIDE DEF k
<1> QED BY <1>3, <1>4, <1>5, GoOK

LEMMA ChoosesNonceOK == ASSUME WalletInv, NEW c \in Calls, ChoosesNonce(c) PROVE WalletInv'
<1>1. call[c] \in CallStates /\ CallOK(call[c], intents) /\ call[c].pc = "nonce"
  BY DEF WalletInv, CallsOK, ChoosesNonce, At
<1>2. PICK n \in Candidates(chainNonce, call[c].reserved) :
        IF call[c].current /\ n # chainNonce THEN End(c)
        ELSE Go(c, [call[c] EXCEPT !.pc = "create", !.n = n]) /\ UNCHANGED busy
  BY DEF ChoosesNonce
<1>3. n \in Nat
  BY <1>2 DEF Candidates, WalletInv, CountsOK
<1> DEFINE k == [call[c] EXCEPT !.pc = "create", !.n = n]
<1>4. k \in CallStates
  BY <1>1, <1>3 DEF CallStates, Labels
<1>5. CallOK(k, intents)
  BY <1>1 DEF CallStates, CallOK
<1>6. UNCHANGED <<chainNonce, intents, h, done, counts>>
  BY DEF ChoosesNonce
<1>7. End(c) \/ (Go(c, k) /\ UNCHANGED busy)
  BY <1>2
<1> HIDE DEF k
<1> QED BY <1>4, <1>5, <1>6, <1>7, GoOK, EndOK

(* The new intent, with the nonce that was chosen. *)
LEMMA CreatesKeeps ==
    ASSUME WalletInv, NEW c \in Calls, CreatesIntent(c)
    PROVE  /\ Keeps(intents, intents') /\ Len(intents') = Len(intents) + 1
           /\ \A n \in Numbers : intents'[n] = intents[n]
           /\ intents'[Len(intents) + 1].kind = call[c].step
           /\ intents'[Len(intents) + 1].nonce = call[c].n
<1> DEFINE new == [kind |-> call[c].step, nonce |-> call[c].n, signed |-> FALSE,
                   status |-> "pending", outcome |-> "none"]
<1>1. new \in Intents /\ intents' = Append(intents, new) /\ Len(intents) < MaxIntents
  BY DEF WalletInv, CallsOK, CallStates, Intents, CreatesIntent
<1> HIDE DEF new
<1>2. /\ intents' \in Seq(Intents) /\ Len(intents') = Len(intents) + 1
      /\ intents'[Len(intents) + 1] = new
      /\ \A n \in 1..Len(intents) : intents'[n] = intents[n]
  BY <1>1, AppendProperties DEF WalletInv, IntentsOK
<1>3. Len(intents) \in Nat
  BY LenProperties DEF WalletInv, IntentsOK
<1>4. Keeps(intents, intents')
  BY <1>1, <1>2, <1>3, WalletAssumption DEF Keeps
<1>5. new.kind = call[c].step /\ new.nonce = call[c].n
  BY DEF new
<1> QED BY <1>2, <1>4, <1>5 DEF Numbers

LEMMA CreatesIntentOK == ASSUME WalletInv, NEW c \in Calls, CreatesIntent(c) PROVE WalletInv'
<1> DEFINE m == Len(intents) + 1
           k == [call[c] EXCEPT !.pc = "record", !.n = m]
<1>1. call[c] \in CallStates /\ CallOK(call[c], intents) /\ call[c].pc = "create"
  BY DEF WalletInv, CallsOK, CreatesIntent, At
<1>2. Keeps(intents, intents') /\ Len(intents) \in Nat
  BY CreatesKeeps, LenProperties DEF WalletInv, IntentsOK
<1>3. m \in Nat /\ m \in 1..Len(intents') /\ intents'[m].kind = call[c].step
  BY <1>2, CreatesKeeps
<1> HIDE DEF m
<1>4. k \in CallStates
  BY <1>1, <1>3 DEF CallStates, Labels
<1>5. call[c].job # "trade" => CallOK(k, intents')
  BY <1>1, <1>2, <1>3 DEF CallStates, CallOK, Asks
<1>6. UNCHANGED <<chainNonce, h, done, counts>>
  BY DEF CreatesIntent
<1>7. CASE call[c].job = "trade"
  <2>1. call' = [call EXCEPT ![c] = Idle] /\ busy' \in {busy, Nobody}
    BY <1>7 DEF CreatesIntent, End, Release
  <2>2. CountsOK'
    BY <1>6, <2>1, CountsSame DEF WalletInv, CountsOK
  <2> QED BY <1>2, <1>6, <2>1, <2>2, IdleOK, EvolveGo
<1>8. CASE call[c].job # "trade"
  <2>1. call' = [call EXCEPT ![c] = k] /\ UNCHANGED busy
    BY <1>8 DEF CreatesIntent, Go, m
  <2>2. CountsOK'
    BY <1>6, <2>1, CountsSame DEF WalletInv, CountsOK
  <2> HIDE DEF k
  <2> QED BY <1>2, <1>4, <1>5, <1>6, <1>8, <2>1, <2>2, EvolveGo
<1> QED BY <1>7, <1>8

(* recordDeskStep keeps the record well typed and sets one step. *)
LEMMA WithStepOK ==
    ASSUME WalletInv, NEW k \in SetupSteps, NEW s \in DeskSteps
    PROVE  WithStep(k, s) \in Records /\ WithStep(k, s).step = [h.step EXCEPT ![k] = s]
<1>1. h \in Records /\ h.step[k] \in DeskSteps
  BY DEF WalletInv, RecordOK, Records
<1>2. h.step[k].intent \in 0..MaxIntents
  BY <1>1 DEF DeskSteps
<1>3. {h.step[k].intent} \ {0, s.intent} \subseteq 1..MaxIntents
  BY <1>2, WalletAssumption
<1> QED BY <1>1, <1>3 DEF WithStep, Records

(* The record after one step of it changed. *)
LEMMA RecordStepOK ==
    ASSUME WalletInv, Keeps(intents, intents'), NEW k \in SetupSteps, NEW s \in DeskSteps,
           TrueCopy(intents', s, k), h' \in Records, h'.step = [h.step EXCEPT ![k] = s]
    PROVE  RecordOK'
<1>1. ASSUME NEW l \in SetupSteps PROVE TrueCopy(intents', h'.step[l], l)
  <2>1. CASE l = k
    BY <2>1 DEF WalletInv, RecordOK, Records
  <2>2. CASE l # k
    <3>1. h'.step[l] = h.step[l] /\ h.step[l] \in DeskSteps /\ TrueCopy(intents, h.step[l], l)
      BY <2>2 DEF WalletInv, RecordOK, Records
    <3> QED BY <3>1, KeepsCopy DEF WalletInv
  <2> QED BY <2>1, <2>2
<1> QED BY <1>1 DEF RecordOK

LEMMA RecordsStepOK == ASSUME WalletInv, NEW c \in Calls, RecordsStep(c) PROVE WalletInv'
<1> DEFINE p == call[c].step
           s == [NoStep EXCEPT !.intent = call[c].n]
           rest == Missing \ {p}
           k == [Idle EXCEPT !.job = "tick", !.pc = "list", !.step = FirstOf(rest)]
<1>1. call[c] \in CallStates /\ CallOK(call[c], intents) /\ call[c].pc = "record"
  BY DEF WalletInv, CallsOK, RecordsStep, At
<1>2. Asks(intents, call[c].n, p)
  BY <1>1 DEF CallOK
<1>3. Keeps(intents, intents') /\ UNCHANGED <<chainNonce, intents, done, counts>>
  BY EvolvesSame DEF WalletInv, Evolves, RecordsStep
<1>4. s \in DeskSteps /\ s.intent = call[c].n /\ ~Confirmed(s)
  <2>1. call[c].n \in 0..MaxIntents
    BY <1>2, LenProperties, WalletAssumption DEF Asks, WalletInv, IntentsOK
  <2> QED BY <2>1 DEF NoStep, DeskSteps, Confirmed
<1>5. h' = WithStep(p, s) /\ p \in SetupSteps
  BY <1>2 DEF RecordsStep, Asks
<1> HIDE DEF s
<1>6. RecordOK'
  <2>1. TrueCopy(intents', s, p)
    BY <1>2, <1>3, <1>4 DEF TrueCopy
  <2> HIDE DEF p
  <2> QED BY <1>3, <1>4, <1>5, <2>1, WithStepOK, RecordStepOK
<1>7. rest # {} => k \in CallStates /\ CallOK(k, intents)
  <2> SUFFICES ASSUME rest # {} PROVE k \in CallStates /\ CallOK(k, intents)
    OBVIOUS
  <2> DEFINE m == FirstOf(rest)
  <2>1. m \in SetupSteps
    BY FirstOfIn DEF Missing
  <2> HIDE DEF m
  <2>2. k \in CallStates
    BY <2>1, IdleOK, StepRange DEF CallStates, Jobs, Labels, m
  <2>3. CallOK(k, intents)
    BY <2>1, IdleOK DEF CallStates, CallOK, m
  <2> QED BY <2>2, <2>3
<1>8. \/ rest # {} /\ call' = [call EXCEPT ![c] = k] /\ busy' = busy
      \/ call' = [call EXCEPT ![c] = Idle] /\ busy' \in {busy, Nobody}
  BY DEF RecordsStep, Go, End, Release
<1> HIDE DEF k, rest
<1>9. CallsOK'
  BY <1>3, <1>7, <1>8, IdleOK, OneCallMoves DEF WalletInv
<1>10. CountsOK'
  BY <1>3, <1>8, CountsSame DEF WalletInv, CountsOK
<1> QED BY <1>3, <1>6, <1>9, <1>10 DEF WalletInv, IntentsOK

LEMMA RetryReviewsOK == ASSUME WalletInv, NEW c \in Calls, RetryReviews(c) PROVE WalletInv'
<1> DEFINE n == call[c].n
           p == call[c].step
           decision == RecoveryDecision(intents[n])
           s == [intent |-> n, tx |-> TRUE, error |-> "none"]
           k == [call[c] EXCEPT !.pc = "restore", !.dead = decision = "replace"]
<1>1. call[c] \in CallStates /\ CallOK(call[c], intents) /\ call[c].pc = "review"
  BY DEF WalletInv, CallsOK, RetryReviews, At
<1>2. Asks(intents, n, p)
  BY <1>1 DEF CallOK
<1>3. UNCHANGED <<chainNonce, intents, done, counts>> /\ Keeps(intents, intents')
  BY EvolvesSame DEF WalletInv, Evolves, RetryReviews
<1>4. CASE decision = "complete"
  <2>1. h' = [h EXCEPT !.step[p] = s] /\ End(c)
    BY <1>4 DEF RetryReviews
  <2>2. s \in DeskSteps
    BY <1>2, LenProperties, WalletAssumption DEF Asks, WalletInv, IntentsOK, DeskSteps
  <2>3. intents[n].outcome = "ok"
    BY <1>4 DEF RecoveryDecision
  <2>4. TrueCopy(intents', s, p)
    BY <1>2, <1>3, <2>3 DEF TrueCopy, Asks, Confirmed
  <2>5. p \in SetupSteps
    BY <1>2 DEF Asks
  <2> HIDE DEF s, p
  <2>6. h' \in Records /\ h'.step = [h.step EXCEPT ![p] = s]
    BY <2>1, <2>2, <2>5 DEF WalletInv, RecordOK, Records
  <2>7. RecordOK'
    BY <1>3, <2>2, <2>4, <2>5, <2>6, RecordStepOK
  <2>8. call' = [call EXCEPT ![c] = Idle] /\ busy' \in {busy, Nobody}
    BY <2>1 DEF End, Release
  <2>9. CallsOK'
    BY <1>3, <2>8, IdleOK, OneCallMoves DEF WalletInv
  <2>10. CountsOK'
    BY <1>3, <2>8, CountsSame DEF WalletInv, CountsOK
  <2> QED BY <1>3, <2>7, <2>9, <2>10 DEF WalletInv, IntentsOK
<1>5. CASE decision # "complete"
  <2>1. Go(c, k) /\ UNCHANGED <<chainNonce, intents, h, done, busy, counts>>
    BY <1>5 DEF RetryReviews
  <2>2. k \in CallStates
    BY <1>1 DEF CallStates, Labels
  <2>3. CallOK(k, intents)
    BY <1>1 DEF CallStates, CallOK
  <2> HIDE DEF k
  <2> QED BY <2>1, <2>2, <2>3, GoOK
<1> QED BY <1>4, <1>5

(* The permission found elsewhere is restored: pending copies of it are    *)
(* withdrawn.                                                              *)
LEMMA RestoreEvolves ==
    ASSUME WalletInv, NEW c \in Calls, RetryRestores(c) PROVE Evolves(intents, intents')
<1>1. PICK n \in Restorable(c) :
        intents' = [m \in Numbers |-> IF m \in Copies(c, n)
                                      THEN [intents[m] EXCEPT !.status = "rejected"]
                                      ELSE intents[m]]
  BY DEF RetryRestores
<1>2. Len(intents) \in Nat /\ Len(intents) <= MaxIntents
  BY LenProperties DEF WalletInv, IntentsOK
<1>3. \A m \in Numbers : intents[m] \in Intents
  BY ElementOfSeq DEF WalletInv, IntentsOK, Numbers
<1>4. ASSUME NEW m \in Numbers
      PROVE  /\ intents'[m] \in Intents
             /\ intents'[m].kind = intents[m].kind /\ intents'[m].nonce = intents[m].nonce
             /\ intents'[m].outcome = intents[m].outcome
             /\ intents'[m].status \in {intents[m].status, "rejected"}
  BY <1>1, <1>3 DEF Intents
<1>5. intents' \in [1..Len(intents) -> Intents]
  <2>1. DOMAIN intents' = 1..Len(intents) /\ intents' = [m \in 1..Len(intents) |-> intents'[m]]
    BY <1>1 DEF Numbers
  <2> QED BY <1>4, <2>1 DEF Numbers
<1>6. intents' \in Seq(Intents) /\ Len(intents') = Len(intents)
  BY <1>2, <1>5, SeqDef, LenProperties
<1>7. \A m \in Numbers : Reserves(intents'[m]) => Reserves(intents[m])
  BY <1>3, <1>4 DEF Reserves, Reserving, Intents
<1> QED BY <1>2, <1>4, <1>6, <1>7 DEF Evolves, Keeps, Numbers

LEMMA RetryRestoresOK == ASSUME WalletInv, NEW c \in Calls, RetryRestores(c) PROVE WalletInv'
<1>1. PICK n \in Restorable(c) :
        h' = LET w == WithStep(call[c].step,
                               [NoStep EXCEPT !.intent = n, !.tx = intents[n].outcome = "ok"])
             IN  [w EXCEPT !.history = @ \cup Copies(c, n)]
  BY DEF RetryRestores
<1> DEFINE p == call[c].step
           s == [NoStep EXCEPT !.intent = n, !.tx = intents[n].outcome = "ok"]
           w == WithStep(p, s)
<1>2. Keeps(intents, intents')
  BY RestoreEvolves DEF Evolves
<1>3. Asks(intents, n, p)
  <2>1. call[c] \in CallStates /\ CallOK(call[c], intents) /\ call[c].pc = "restore"
    BY DEF WalletInv, CallsOK, RetryRestores, At
  <2> QED BY <1>1, <2>1 DEF CallOK, Asks, Restorable, Numbers
<1>4. n \in 1..MaxIntents /\ Copies(c, n) \subseteq 1..MaxIntents
  BY <1>3, LenProperties, WalletAssumption DEF Asks, WalletInv, IntentsOK, Copies, Numbers
<1>5. s \in DeskSteps /\ s.intent = n /\ (Confirmed(s) => intents[n].outcome = "ok")
  <2> n \in 0..MaxIntents
    BY <1>4, WalletAssumption
  <2>1. CASE intents[n].outcome = "ok"
    <3>1. s = [NoStep EXCEPT !.intent = n, !.tx = TRUE]
      BY <2>1
    <3> QED BY <2>1, <3>1 DEF NoStep, DeskSteps
  <2>2. CASE intents[n].outcome # "ok"
    <3>1. s = [NoStep EXCEPT !.intent = n, !.tx = FALSE]
      BY <2>2
    <3> QED BY <3>1 DEF NoStep, DeskSteps, Confirmed
  <2> QED BY <2>1, <2>2
<1>6. p \in SetupSteps
  BY <1>3 DEF Asks
<1>7. TrueCopy(intents', s, p)
  <2>1. TrueCopy(intents, s, p)
    BY <1>3, <1>4, <1>5 DEF TrueCopy
  <2> HIDE DEF s, p
  <2> QED BY <1>2, <1>5, <2>1, KeepsCopy DEF WalletInv
<1>8. h' = [w EXCEPT !.history = @ \cup Copies(c, n)]
  BY <1>1
<1> HIDE DEF s, p
<1>9. w \in Records /\ w.step = [h.step EXCEPT ![p] = s]
  BY <1>5, <1>6, WithStepOK
<1> HIDE DEF w
<1>10. h' \in Records /\ h'.step = [h.step EXCEPT ![p] = s]
  BY <1>4, <1>8, <1>9 DEF Records
<1>11. RecordOK'
  BY <1>2, <1>5, <1>6, <1>7, <1>10, RecordStepOK
<1>12. call' = [call EXCEPT ![c] = Idle] /\ busy' \in {busy, Nobody}
  BY DEF RetryRestores, End, Release
<1>13. CallsOK'
  BY <1>2, <1>12, IdleOK, OneCallMoves DEF WalletInv
<1>14. CountsOK'
  BY <1>12, CountsSame DEF WalletInv, CountsOK, RetryRestores
<1> QED BY <1>2, <1>11, <1>13, <1>14 DEF WalletInv, IntentsOK, Keeps

LEMMA RetryProposesOK == ASSUME WalletInv, NEW c \in Calls, RetryProposes(c) PROVE WalletInv'
<1> DEFINE k == [call[c] EXCEPT !.pc = "list", !.current = TRUE]
<1>1. call[c] \in CallStates /\ CallOK(call[c], intents) /\ call[c].pc = "restore"
  BY DEF WalletInv, CallsOK, RetryProposes, At
<1>2. k \in CallStates
  BY <1>1 DEF CallStates, Labels
<1>3. CallOK(k, intents)
  <2>1. call[c].step \in SetupSteps
    BY <1>1 DEF CallOK, Asks
  <2> QED BY <1>1, <2>1 DEF CallStates, CallOK
<1>4. UNCHANGED <<chainNonce, intents, h, done, counts>>
  BY DEF RetryProposes
<1>5. End(c) \/ (Go(c, k) /\ UNCHANGED busy)
  BY DEF RetryProposes
<1> HIDE DEF k
<1> QED BY <1>2, <1>3, <1>4, <1>5, GoOK, EndOK

-----------------------------------------------------------------------------
(* The quorum and Hedera *)

QuorumStep(n) == TraderSigns(n) \/ Cosigns(n) \/ RejectedOrExpires(n)
HederaStep(n) == TradeBroadcast(n) \/ Mines(n) \/ Drops(n)

LEMMA QuorumEvolves ==
    ASSUME WalletInv, NEW n \in Numbers, QuorumStep(n) PROVE Evolves(intents, intents')
<1>1. intents[n] \in Intents
  BY ElementOfSeq DEF WalletInv, IntentsOK, Numbers
<1>2. PICK e \in Intents :
        /\ intents' = [intents EXCEPT ![n] = e]
        /\ e.kind = intents[n].kind /\ e.nonce = intents[n].nonce
        /\ e.outcome = intents[n].outcome /\ intents[n].status = "pending"
  <2>1. CASE TraderSigns(n)
    <3> DEFINE e == [intents[n] EXCEPT !.signed = TRUE]
    <3>1. e \in Intents /\ e.kind = intents[n].kind /\ e.nonce = intents[n].nonce
          /\ e.outcome = intents[n].outcome
      BY <1>1 DEF Intents
    <3> QED BY <2>1, <3>1 DEF TraderSigns, CanApprove
  <2>2. CASE Cosigns(n) \/ RejectedOrExpires(n)
    <3>1. PICK status \in {"executed", "rejected", "expired"} :
            intents' = [intents EXCEPT ![n].status = status]
      BY <2>2 DEF Cosigns, RejectedOrExpires
    <3> DEFINE e == [intents[n] EXCEPT !.status = status]
    <3>2. e \in Intents /\ e.kind = intents[n].kind /\ e.nonce = intents[n].nonce
          /\ e.outcome = intents[n].outcome
      BY <1>1 DEF Intents
    <3>3. intents[n].status = "pending"
      BY <2>2 DEF Cosigns, RejectedOrExpires
    <3> QED BY <3>1, <3>2, <3>3
  <2> QED BY <2>1, <2>2 DEF QuorumStep
<1>3. Reserves(e) => Reserves(intents[n])
  BY <1>2 DEF Reserves, Reserving
<1> QED BY <1>2, <1>3, EvolvesOne DEF WalletInv

LEMMA HederaEvolves ==
    ASSUME WalletInv, NEW n \in Numbers, HederaStep(n) PROVE Evolves(intents, intents')
<1>1. intents[n] \in Intents
  BY ElementOfSeq DEF WalletInv, IntentsOK, Numbers
<1>2. PICK outcome \in {"none", "sent", "ok", "reverted"} :
        intents' = [intents EXCEPT ![n].outcome = outcome]
  BY DEF HederaStep, TradeBroadcast, Mines, Drops
<1>3. intents[n].outcome \in {"none", "sent"}
  BY DEF HederaStep, TradeBroadcast, Mines, Drops
<1> DEFINE e == [intents[n] EXCEPT !.outcome = outcome]
<1>4. e \in Intents /\ e.kind = intents[n].kind /\ e.nonce = intents[n].nonce
      /\ e.status = intents[n].status
  BY <1>1 DEF Intents
<1>5. Reserves(e) => Reserves(intents[n])
  BY <1>3, <1>4 DEF Reserves
<1> HIDE DEF e
<1>6. intents' = [intents EXCEPT ![n] = e]
  BY <1>2 DEF e
<1> QED BY <1>3, <1>4, <1>5, <1>6, EvolvesOne DEF WalletInv

LEMMA QuorumOK == ASSUME WalletInv, NEW n \in Numbers, QuorumStep(n) PROVE WalletInv'
<1>1. CountsOK'
  <2>1. CASE TraderSigns(n) \/ Cosigns(n)
    BY <2>1, CountsSame DEF WalletInv, CountsOK, TraderSigns, Cosigns
  <2>2. CASE RejectedOrExpires(n)
    BY <2>2, WalletAssumption DEF WalletInv, CountsOK, RejectedOrExpires, Upsettable
  <2> QED BY <2>1, <2>2 DEF QuorumStep
<1>2. UNCHANGED <<h, call>>
  BY DEF QuorumStep, TraderSigns, Cosigns, RejectedOrExpires
<1> QED BY <1>1, <1>2, QuorumEvolves, EvolveOnly DEF Evolves

LEMMA HederaOK == ASSUME WalletInv, NEW n \in Numbers, HederaStep(n) PROVE WalletInv'
<1>1. CountsOK'
  <2>1. CASE TradeBroadcast(n)
    BY <2>1, CountsSame DEF WalletInv, CountsOK, TradeBroadcast
  <2>2. CASE Mines(n)
    BY <2>2, WalletAssumption DEF WalletInv, CountsOK, Mines, Upsettable
  <2>3. CASE Drops(n)
    BY <2>3, WalletAssumption DEF WalletInv, CountsOK, Drops, Upsettable
  <2> QED BY <2>1, <2>2, <2>3 DEF HederaStep
<1>2. UNCHANGED <<h, call>>
  BY DEF HederaStep, TradeBroadcast, Mines, Drops
<1> QED BY <1>1, <1>2, HederaEvolves, EvolveOnly DEF Evolves

-----------------------------------------------------------------------------
(* WalletInv is inductive *)

LEMMA InitOK == ASSUME Init PROVE WalletInv
<1>1. IntentsOK
  BY EmptySeq, WalletAssumption DEF Init, IntentsOK
<1>2. RecordOK
  <2>1. NoStep \in DeskSteps /\ \A k : TrueCopy(<<>>, NoStep, k)
    BY WalletAssumption DEF NoStep, DeskSteps, TrueCopy, Confirmed
  <2> QED BY <2>1 DEF Init, RecordOK, Records
<1>3. CallsOK
  BY IdleOK DEF Init, CallsOK
<1>4. CountsOK
  BY WalletAssumption DEF Init, CountsOK
<1> QED BY <1>1, <1>2, <1>3, <1>4 DEF WalletInv

(* The requests that begin and those that go on, and the rest of Next. *)
Begins(c) ==
    \/ TickBegins(c) \/ MemberChecks(c) \/ AdminChecks(c) \/ ProposesTrade(c)
    \/ \E what \in OperatorSteps : AdminOperates(c, what)
    \/ \E k \in SetupSteps : AdminProposes(c, k)
    \/ \E k \in SetupSteps : RetryBegins(c, k)

LEMMA NextCases ==
    ASSUME Next
    PROVE  \/ \E c \in Calls : Begins(c) \/ Handle(c) \/ Fails(c)
           \/ \E n \in Numbers : QuorumStep(n) \/ HederaStep(n)
BY DEF Next, Begins, QuorumStep, HederaStep, Signs

LEMMA BeginsOK == ASSUME WalletInv, NEW c \in Calls, Begins(c) PROVE WalletInv'
BY TickBeginsOK, ChecksOK, AdminOperatesOK, AdminProposesOK, RetryBeginsOK DEF Begins
LEMMA HandleOK == ASSUME WalletInv, NEW c \in Calls, Handle(c) PROVE WalletInv'
<1>1. CASE OperatorSends(c)
  <2>1. PICK what \in OperatorSteps : Sends(c, what)
    BY <1>1 DEF OperatorSends, Fund, Eligibility, Allocate, FundUsd, OperatorSteps
  <2> QED BY <2>1, SendsOK
<1>2. CASE OperatorSaves(c) \/ AfterSync(c)
  BY <1>2, OperatorSavesOK, AfterSyncOK
<1>3. CASE SyncLooks(c) \/ Broadcasts(c) \/ Polls(c) \/ RelayRefused(c) \/ SyncSaves(c)
  BY <1>3, SyncLooksOK, BroadcastsOK, PollsOK, SyncSavesOK
<1>4. CASE ListsIntents(c) \/ ChoosesNonce(c) \/ CreatesIntent(c) \/ RecordsStep(c)
  BY <1>4, ListsIntentsOK, ChoosesNonceOK, CreatesIntentOK, RecordsStepOK
<1>5. CASE RetryReviews(c) \/ RetryRestores(c) \/ RetryProposes(c)
  BY <1>5, RetryReviewsOK, RetryRestoresOK, RetryProposesOK
<1> QED BY <1>1, <1>2, <1>3, <1>4, <1>5 DEF Handle

LEMMA StutterOK == ASSUME WalletInv, UNCHANGED vars PROVE WalletInv'
<1>1. CountsOK'
  BY CountsSame DEF WalletInv, CountsOK, vars, counts
<1>2. Keeps(intents, intents')
  BY EvolvesSame DEF WalletInv, Evolves, vars
<1> QED BY <1>1, <1>2, EvolveOnly DEF vars

LEMMA WalletStep == ASSUME WalletInv, [Next]_vars PROVE WalletInv'
BY NextCases, BeginsOK, HandleOK, FailsOK, QuorumOK, HederaOK, StutterOK

LEMMA WalletTypes == ASSUME WalletInv PROVE TypeOK
<1>1. /\ h.done \subseteq OperatorSteps /\ h.step \in [SetupSteps -> DeskSteps]
      /\ h.history \subseteq 1..MaxIntents
  BY DEF WalletInv, RecordOK, Records
<1>2. \A c \in Calls : /\ call[c].pc \in Labels /\ call[c].step \in 0..Steps
                       /\ call[c].s \in DeskSteps /\ call[c].reserved \subseteq Nat
  BY DEF WalletInv, CallsOK, CallStates
<1>3. rejects + syncs + trades + orders + faults \in 0..MaxUpsets
  BY WalletAssumption DEF WalletInv, CountsOK
<1> QED BY <1>1, <1>2, <1>3 DEF WalletInv, IntentsOK, CountsOK, TypeOK

LEMMA WalletReady == ASSUME WalletInv PROVE ReadyIsTrue
BY DEF WalletInv, RecordOK, TrueCopy, Asks, ReadyIsTrue

(* Every state of the desk wallet is well typed: the intents, the record   *)
(* of the institution's onboarding, the requests in flight and the lease.  *)
THEOREM WalletTypeCorrect == Spec => []TypeOK
<1>1. WalletInv /\ [Next]_vars => WalletInv'
  BY WalletStep
<1> QED BY <1>1, InitOK, WalletTypes, PTL DEF Spec

(* A step of the onboarding that the venue calls confirmed was executed on *)
(* Hedera, for any number of reconciliations, retries and administrators   *)
(* that write the record over each other.                                  *)
THEOREM WalletReadySafety == Spec => []ReadyIsTrue
<1>1. WalletInv /\ [Next]_vars => WalletInv'
  BY WalletStep
<1> QED BY <1>1, InitOK, WalletReady, PTL DEF Spec

-----------------------------------------------------------------------------
(* Nonces *)

(* What the proposal under way knows of the nonces: nobody else is at it,  *)
(* so no intent appears behind its back, and those that die only free      *)
(* nonces.                                                                 *)
TurnOK == \A c, d \in Calls : Proposing(c) /\ Proposing(d) => c = d
NonceFits(k, seq) ==
    \A n \in 1..Len(seq) : Reserves(seq[n]) =>
        /\ k.pc = "nonce" => seq[n].nonce \in k.reserved
        /\ k.pc = "create" => seq[n].nonce # k.n
ViewsOK == \A c \in Calls : NonceFits(call[c], intents)
QueueInv == TurnOK /\ ViewsOK /\ NoSharedNonce

LEMMA EvolvesUnshared ==
    ASSUME WalletInv, NoSharedNonce, Evolves(intents, intents') PROVE NoSharedNonce'
<1>1. Len(intents') = Len(intents)
  BY DEF Evolves
<1>2. \A n \in Numbers : /\ intents'[n].nonce = intents[n].nonce
                         /\ Reserves(intents'[n]) => Reserves(intents[n])
  BY DEF Evolves, Keeps, Numbers
<1> QED BY <1>1, <1>2 DEF NoSharedNonce, Live, Numbers

LEMMA EvolvesFits ==
    ASSUME WalletInv, NEW k, NonceFits(k, intents), Evolves(intents, intents')
    PROVE  NonceFits(k, intents')
BY DEF NonceFits, Evolves, Keeps

(* A request that goes to another part of its work. *)
Moves(c, labels) == \E k \in CallStates : k.pc \in labels /\ call' = [call EXCEPT ![c] = k]
Elsewhere == Labels \ {"nonce", "create"}

LEMMA QueueQuiet ==
    ASSUME WalletInv, QueueInv, Evolves(intents, intents'),
           NEW c \in Calls, Moves(c, Elsewhere)
    PROVE  QueueInv'
<1>1. PICK k \in CallStates : k.pc \in Elsewhere /\ call' = [call EXCEPT ![c] = k]
  BY DEF Moves
<1>2. call'[c] = k /\ \A d \in Calls \ {c} : call'[d] = call[d]
  BY <1>1 DEF WalletInv, CallsOK
<1>3. TurnOK'
  BY <1>1, <1>2 DEF QueueInv, TurnOK, Proposing, Elsewhere
<1>4. ViewsOK'
  <2>1. ASSUME NEW d \in Calls PROVE NonceFits(call'[d], intents')
    <3>1. CASE d = c
      BY <1>1, <1>2, <3>1 DEF NonceFits, Elsewhere
    <3>2. CASE d # c
      BY <1>2, <3>2, EvolvesFits DEF QueueInv, ViewsOK
    <3> QED BY <3>1, <3>2
  <2> QED BY <2>1 DEF ViewsOK
<1>5. NoSharedNonce'
  BY EvolvesUnshared DEF QueueInv
<1> QED BY <1>3, <1>4, <1>5 DEF QueueInv

LEMMA QueueStill ==
    ASSUME WalletInv, QueueInv, Evolves(intents, intents'), UNCHANGED call
    PROVE  QueueInv'
<1>1. ViewsOK'
  BY EvolvesFits DEF QueueInv, ViewsOK
<1> QED BY <1>1, EvolvesUnshared DEF QueueInv, TurnOK, Proposing

(* Where each request goes. *)
LEMMA MovesByPc ==
    ASSUME WalletInv, WalletInv', NEW c \in Calls, NEW k, NEW labels,
           call' = [call EXCEPT ![c] = k], k.pc \in labels
    PROVE  Moves(c, labels)
<1>1. call'[c] \in CallStates /\ call'[c] = k
  BY DEF WalletInv, CallsOK
<1> QED BY <1>1 DEF Moves

LEMMA BeginsWhere ==
    ASSUME WalletInv, NEW c \in Calls, Begins(c)
    PROVE  Moves(c, {"operator", "sync", "list", "review"}) /\ UNCHANGED intents
<1>1. PICK k : /\ call' = [call EXCEPT ![c] = k]
               /\ k.pc \in {"operator", "sync", "list", "review"} /\ UNCHANGED intents
  <2>1. CASE TickBegins(c)
    <3> DEFINE w == NextOperatorStep
               k == [Idle EXCEPT !.job = "tick", !.step = 1, !.what = w,
                                 !.pc = IF w = "none" THEN "sync" ELSE "operator"]
    <3>1. call' = [call EXCEPT ![c] = k] /\ UNCHANGED intents
      BY <2>1 DEF TickBegins, Take, Go
    <3>2. k.pc \in {"operator", "sync"}
      BY DEF Idle
    <3> HIDE DEF k
    <3> QED BY <3>1, <3>2
  <2>2. CASE MemberChecks(c)
    <3> DEFINE k == [Idle EXCEPT !.job = "check", !.pc = "sync", !.step = 1]
    <3>1. k.pc = "sync"
      BY DEF Idle
    <3> QED BY <2>2, <3>1 DEF MemberChecks, Check, Take, Go
  <2>3. CASE AdminChecks(c)
    <3> DEFINE k == [Idle EXCEPT !.job = "admin", !.pc = "sync", !.step = 1]
    <3>1. k.pc = "sync"
      BY DEF Idle
    <3> QED BY <2>3, <3>1 DEF AdminChecks, Check, Go
  <2>4. CASE ProposesTrade(c)
    <3> DEFINE k == [Idle EXCEPT !.job = "trade", !.pc = "list"]
    <3>1. k.pc = "list"
      BY DEF Idle
    <3> QED BY <2>4, <3>1 DEF ProposesTrade, Go
  <2>5. ASSUME NEW what \in OperatorSteps, AdminOperates(c, what)
        PROVE  \E k : /\ call' = [call EXCEPT ![c] = k]
                      /\ k.pc = "operator" /\ UNCHANGED intents
    <3> DEFINE k == [Idle EXCEPT !.job = "order", !.pc = "operator", !.what = what]
    <3>1. k.pc = "operator"
      BY DEF Idle
    <3> QED BY <2>5, <3>1 DEF AdminOperates, Orders, Take, Go
  <2>6. ASSUME NEW p \in SetupSteps, AdminProposes(c, p)
        PROVE  \E k : call' = [call EXCEPT ![c] = k] /\ k.pc = "list" /\ UNCHANGED intents
    <3> DEFINE k == [Idle EXCEPT !.job = "order", !.pc = "list", !.step = p]
    <3>1. k.pc = "list"
      BY DEF Idle
    <3> QED BY <2>6, <3>1 DEF AdminProposes, Orders, Take, Go
  <2>7. ASSUME NEW p \in SetupSteps, RetryBegins(c, p)
        PROVE  \E k : call' = [call EXCEPT ![c] = k] /\ k.pc = "review" /\ UNCHANGED intents
    <3> DEFINE k == [Idle EXCEPT !.job = "retry", !.pc = "review", !.step = p,
                                 !.n = h.step[p].intent]
    <3>1. k.pc = "review"
      BY DEF Idle
    <3> QED BY <2>7, <3>1 DEF RetryBegins, Take, Go
  <2> QED BY <2>1, <2>2, <2>3, <2>4, <2>5, <2>6, <2>7 DEF Begins
<1> QED BY <1>1, BeginsOK, MovesByPc

LEMMA BeginsQuiet ==
    ASSUME WalletInv, NEW c \in Calls, Begins(c)
    PROVE  Moves(c, Elsewhere) /\ UNCHANGED intents
<1>1. {"operator", "sync", "list", "review"} \subseteq Elsewhere
  BY DEF Elsewhere, Labels
<1> QED BY <1>1, BeginsWhere DEF Moves

LEMMA HandleQuiet ==
    ASSUME WalletInv, NEW c \in Calls, Handle(c),
           ~(ListsIntents(c) \/ ChoosesNonce(c) \/ CreatesIntent(c))
    PROVE  Moves(c, Elsewhere) /\ Evolves(intents, intents')
<1>0. call[c] \in CallStates /\ Idle.pc = "idle"
  BY DEF WalletInv, CallsOK, Idle
<1>1. PICK k : /\ call' = [call EXCEPT ![c] = k]
               /\ k.pc \in {"operator", "operatorSaved", "afterSync", "broadcast", "poll",
                            "syncSave", "list", "restore", "idle"}
  <2>1. CASE OperatorSends(c) \/ OperatorSaves(c)
    <3> DEFINE k == [call[c] EXCEPT !.pc = "operatorSaved"]
    <3>1. k.pc = "operatorSaved"
      BY <1>0 DEF CallStates
    <3>2. call' = [call EXCEPT ![c] = k] \/ call' = [call EXCEPT ![c] = Idle]
      BY <2>1 DEF OperatorSends, Fund, Eligibility, Allocate, FundUsd, Sends, OperatorSaves, Go, End
    <3> HIDE DEF k
    <3> QED BY <1>0, <3>1, <3>2
  <2>2. CASE AfterSync(c)
    <3> DEFINE k1 == [Idle EXCEPT !.job = "tick", !.pc = "list", !.step = FirstOf(Missing),
                                  !.current = Missing = SetupSteps]
               k2 == [Idle EXCEPT !.job = "tick", !.pc = "operator", !.what = "cash"]
    <3>1. k1.pc = "list" /\ k2.pc = "operator"
      BY DEF Idle
    <3>2. call' \in {[call EXCEPT ![c] = k1], [call EXCEPT ![c] = k2], [call EXCEPT ![c] = Idle]}
      BY <2>2 DEF AfterSync, Go, End
    <3> HIDE DEF k1, k2
    <3> QED BY <1>0, <3>1, <3>2
  <2>3. CASE SyncLooks(c)
    <3>1. PICK k : /\ call' = [call EXCEPT ![c] = k]
                       /\ k.pc \in {"afterSync", "broadcast", "syncSave"}
      <4> DEFINE open == {q \in SetupSteps : ~Confirmed(h.step[q])}
                 p == FirstOf(open)
                 s == h.step[p]
                 i == intents[s.intent]
                 clear == [s EXCEPT !.error = "none"]
                 s1 == IF i.status = "pending" /\ i.nonce # chainNonce
                       THEN [clear EXCEPT !.error = "NONCE"] ELSE clear
                 k1 == [call[c] EXCEPT !.pc = "afterSync"]
                 k2 == [call[c] EXCEPT !.step = p, !.n = s.intent,
                          !.pc = IF i.status = "executed" THEN "broadcast" ELSE "syncSave",
                          !.s = s1]
      <4>1. call' = [call EXCEPT ![c] = k1] \/ call' = [call EXCEPT ![c] = k2]
        BY <2>3 DEF SyncLooks, Go
      <4> HIDE DEF p, s, i, s1
      <4>2. k1.pc = "afterSync" /\ k2.pc \in {"broadcast", "syncSave"}
        BY <1>0 DEF CallStates
      <4> HIDE DEF k1, k2
      <4> QED BY <4>1, <4>2
    <3> QED BY <3>1
  <2>4. CASE Broadcasts(c) \/ Polls(c) \/ RelayRefused(c) \/ SyncSaves(c)
    <3> DEFINE k1 == [call[c] EXCEPT !.pc = "poll"]
               k2 == [call[c] EXCEPT !.pc = "afterSync"]
               k3 == [call[c] EXCEPT !.pc = "syncSave", !.s.error = "NONCE"]
               k4 == [call[c] EXCEPT !.pc = "syncSave", !.s.tx = TRUE, !.s.error = "REVERTED"]
               k5 == [call[c] EXCEPT !.pc = "syncSave", !.s = Result(@, intents[call[c].n])]
    <3>1. k1.pc = "poll" /\ k2.pc = "afterSync" /\ k3.pc = "syncSave" /\ k4.pc = "syncSave"
      BY <1>0 DEF CallStates
    <3>2. k5.pc = "syncSave"
      BY <1>0 DEF CallStates
    <3>3. \/ Go(c, k1) \/ Go(c, k2) \/ Go(c, k3) \/ Go(c, k4) \/ Go(c, k5)
      BY <2>4, Zenon DEF Broadcasts, Polls, RelayRefused, SyncSaves
    <3> HIDE DEF k1, k2, k3, k4, k5
    <3> QED BY <3>1, <3>2, <3>3 DEF Go
  <2>5. CASE RecordsStep(c)
    <3> DEFINE rest == Missing \ {call[c].step}
               k == [Idle EXCEPT !.job = "tick", !.pc = "list", !.step = FirstOf(rest)]
    <3>1. k.pc = "list"
      BY DEF Idle
    <3>2. call' \in {[call EXCEPT ![c] = k], [call EXCEPT ![c] = Idle]}
      BY <2>5 DEF RecordsStep, Go, End
    <3> HIDE DEF k
    <3> QED BY <1>0, <3>1, <3>2
  <2>6. CASE RetryReviews(c) \/ RetryRestores(c) \/ RetryProposes(c)
    <3> DEFINE replace == RecoveryDecision(intents[call[c].n]) = "replace"
               k1 == [call[c] EXCEPT !.pc = "restore", !.dead = replace]
               k2 == [call[c] EXCEPT !.pc = "list", !.current = TRUE]
    <3>1. k1.pc = "restore" /\ k2.pc = "list"
      BY <1>0 DEF CallStates
    <3>2. call' \in {[call EXCEPT ![c] = k1], [call EXCEPT ![c] = k2], [call EXCEPT ![c] = Idle]}
      BY <2>6 DEF RetryReviews, RetryRestores, RetryProposes, Go, End
    <3> HIDE DEF k1, k2
    <3> QED BY <1>0, <3>1, <3>2
  <2> QED BY <2>1, <2>2, <2>3, <2>4, <2>5, <2>6 DEF Handle
<1>2. k.pc \in Elsewhere
  BY <1>1 DEF Elsewhere, Labels
<1>3. Moves(c, Elsewhere)
  BY <1>1, <1>2, HandleOK, MovesByPc
<1>4. Evolves(intents, intents')
  <2>1. CASE Broadcasts(c) \/ RetryRestores(c)
    BY <2>1, BroadcastsEvolves, RestoreEvolves
  <2>2. CASE ~(Broadcasts(c) \/ RetryRestores(c))
    <3>1. UNCHANGED intents
      BY <2>2 DEF Handle, OperatorSends, Fund, Eligibility, Allocate, FundUsd, Sends, OperatorSaves,
                  AfterSync, SyncLooks, Polls, RelayRefused, SyncSaves, RecordsStep, RetryReviews,
                  RetryProposes
    <3> QED BY <3>1, EvolvesSame DEF WalletInv
  <2> QED BY <2>1, <2>2
<1> QED BY <1>3, <1>4

(* The proposal that lists the intents has the turn to itself. *)
LEMMA QueueLists ==
    ASSUME WalletInv, QueueInv, NEW c \in Calls, ListsIntents(c) PROVE QueueInv'
<1> DEFINE nonces == {intents[n].nonce : n \in {m \in Numbers : Reserves(intents[m])}}
           k == [call[c] EXCEPT !.pc = "nonce", !.reserved = nonces]
<1>1. UNCHANGED intents /\ \A d \in Calls \ {c} : ~Proposing(d)
  BY DEF ListsIntents, ProposalTurn
<1>2. k.pc = "nonce" /\ k.reserved = nonces
  BY DEF WalletInv, CallsOK, CallStates
<1>3. call' = [call EXCEPT ![c] = k]
  BY DEF ListsIntents, Go
<1>4. NonceFits(k, intents)
  BY <1>2 DEF NonceFits, Numbers
<1> HIDE DEF k
<1>5. call'[c] = k /\ \A d \in Calls \ {c} : call'[d] = call[d]
  BY <1>3 DEF WalletInv, CallsOK
<1>6. TurnOK'
  BY <1>1, <1>5 DEF TurnOK, Proposing
<1>7. ViewsOK'
  BY <1>1, <1>4, <1>5 DEF QueueInv, ViewsOK
<1> QED BY <1>1, <1>6, <1>7 DEF QueueInv, NoSharedNonce, Numbers, Live

(* The nonce it chooses is none of a live intent. *)
LEMMA QueueChooses ==
    ASSUME WalletInv, QueueInv, NEW c \in Calls, ChoosesNonce(c) PROVE QueueInv'
<1>1. PICK n \in Candidates(chainNonce, call[c].reserved) :
        /\ NextUnreservedNonce(n, chainNonce, call[c].reserved)
        /\ IF call[c].current /\ n # chainNonce THEN End(c)
           ELSE Go(c, [call[c] EXCEPT !.pc = "create", !.n = n]) /\ UNCHANGED busy
  BY DEF ChoosesNonce
<1>2. UNCHANGED intents /\ call[c].pc = "nonce" /\ call[c] \in CallStates
  BY DEF WalletInv, CallsOK, ChoosesNonce, At
<1>3. CASE End(c)
  <2>1. Moves(c, Elsewhere)
    BY <1>3, IdleOK DEF Moves, Elsewhere, Labels, Idle, End
  <2> QED BY <1>2, <2>1, EvolvesSame, QueueQuiet DEF WalletInv
<1>4. CASE Go(c, [call[c] EXCEPT !.pc = "create", !.n = n])
  <2> DEFINE k == [call[c] EXCEPT !.pc = "create", !.n = n]
  <2>1. k.pc = "create" /\ k.n = n
    BY <1>2 DEF CallStates
  <2>2. n \notin call[c].reserved
    BY <1>1 DEF NextUnreservedNonce
  <2>3. NonceFits(k, intents)
    BY <1>2, <2>1, <2>2 DEF QueueInv, ViewsOK, NonceFits
  <2>4. call' = [call EXCEPT ![c] = k]
    BY <1>4 DEF Go
  <2> HIDE DEF k
  <2>5. call'[c] = k /\ \A d \in Calls \ {c} : call'[d] = call[d]
    BY <2>4 DEF WalletInv, CallsOK
  <2>6. TurnOK'
    BY <1>2, <2>5 DEF QueueInv, TurnOK, Proposing
  <2>7. ViewsOK'
    BY <1>2, <2>3, <2>5 DEF QueueInv, ViewsOK
  <2> QED BY <1>2, <2>6, <2>7 DEF QueueInv, NoSharedNonce, Numbers, Live
<1> QED BY <1>1, <1>3, <1>4

(* The new intent has it, and the turn is over. *)
LEMMA QueueCreates ==
    ASSUME WalletInv, QueueInv, NEW c \in Calls, CreatesIntent(c) PROVE QueueInv'
<1> DEFINE m == Len(intents) + 1
<1>1. /\ Keeps(intents, intents') /\ Len(intents') = m /\ Len(intents) \in Nat
      /\ \A n \in 1..Len(intents) : intents'[n] = intents[n]
      /\ intents'[m].nonce = call[c].n
  BY CreatesKeeps, LenProperties DEF WalletInv, IntentsOK, Numbers
<1>2. call[c].pc = "create" /\ call[c] \in CallStates
  BY DEF WalletInv, CallsOK, CreatesIntent, At
<1>3. call'[c].pc \in {"idle", "record"} /\ \A d \in Calls \ {c} : call'[d] = call[d]
  <2> DEFINE k == [call[c] EXCEPT !.pc = "record", !.n = Len(intents) + 1]
  <2>1. Idle.pc = "idle" /\ k.pc = "record"
    BY <1>2 DEF Idle, CallStates
  <2>2. call' \in {[call EXCEPT ![c] = k], [call EXCEPT ![c] = Idle]}
    BY DEF CreatesIntent, Go, End
  <2> HIDE DEF k
  <2> QED BY <2>1, <2>2 DEF WalletInv, CallsOK
<1>4. \A d \in Calls : ~Proposing(d)'
  BY <1>2, <1>3 DEF QueueInv, TurnOK, Proposing
<1>5. TurnOK' /\ ViewsOK'
  BY <1>4 DEF TurnOK, ViewsOK, NonceFits, Proposing
<1>6. NoSharedNonce'
  <2>1. \A n \in 1..Len(intents) : Reserves(intents[n]) => intents[n].nonce # call[c].n
    BY <1>2 DEF QueueInv, ViewsOK, NonceFits
  <2>2. \A n \in 1..m : n = m \/ n \in 1..Len(intents)
    BY <1>1
  <2> HIDE DEF m
  <2>3. ASSUME NEW i \in 1..m, NEW j \in 1..m, Reserves(intents'[i]), Reserves(intents'[j]), i # j
        PROVE  intents'[i].nonce # intents'[j].nonce
    <3>1. CASE i = m
      BY <1>1, <2>1, <2>2, <2>3, <3>1
    <3>2. CASE j = m
      BY <1>1, <2>1, <2>2, <2>3, <3>2
    <3>3. CASE i # m /\ j # m
      <4>1. i \in 1..Len(intents) /\ j \in 1..Len(intents)
        BY <2>2, <3>3
      <4> QED BY <1>1, <2>3, <4>1 DEF QueueInv, NoSharedNonce, Live, Numbers
    <3> QED BY <3>1, <3>2, <3>3
  <2> QED BY <1>1, <2>3 DEF NoSharedNonce, Live, Numbers
<1> QED BY <1>5, <1>6 DEF QueueInv

LEMMA QueueInit == ASSUME Init PROVE QueueInv
<1>1. Len(intents) = 0
  BY EmptySeq DEF Init
<1>2. \A c \in Calls : call[c].pc = "idle"
  BY DEF Init, Idle
<1> QED BY <1>1, <1>2 DEF QueueInv, TurnOK, ViewsOK, NonceFits, NoSharedNonce, Proposing, Numbers

LEMMA QueueStep == ASSUME WalletInv, QueueInv, [Next]_vars PROVE QueueInv'
<1>1. ASSUME NEW c \in Calls, Begins(c) PROVE QueueInv'
  BY <1>1, BeginsQuiet, EvolvesSame, QueueQuiet DEF WalletInv
<1>2. ASSUME NEW c \in Calls, Handle(c) PROVE QueueInv'
  BY <1>2, QueueLists, QueueChooses, QueueCreates, HandleQuiet, QueueQuiet
<1>3. ASSUME NEW c \in Calls, Fails(c) PROVE QueueInv'
  <2>1. Moves(c, Elsewhere)
    BY <1>3, IdleOK DEF Moves, Elsewhere, Labels, Idle, End, Fails
  <2>2. UNCHANGED intents
    BY <1>3 DEF Fails
  <2> QED BY <2>1, <2>2, EvolvesSame, QueueQuiet DEF WalletInv
<1>4. ASSUME NEW n \in Numbers, QuorumStep(n) \/ HederaStep(n) PROVE QueueInv'
  <2>1. UNCHANGED call
    BY <1>4 DEF QuorumStep, TraderSigns, Cosigns, RejectedOrExpires, HederaStep, TradeBroadcast,
                Mines, Drops
  <2> QED BY <1>4, <2>1, QuorumEvolves, HederaEvolves, QueueStill
<1>5. CASE UNCHANGED vars
  <2>1. UNCHANGED <<intents, call>>
    BY <1>5 DEF vars
  <2> QED BY <2>1, EvolvesSame, QueueStill DEF WalletInv
<1> QED BY <1>1, <1>2, <1>3, <1>4, <1>5, NextCases

(* No two approvals that can still take effect share a nonce, for any      *)
(* number of proposals, signatures, rejections and confirmations between   *)
(* the list of the intents and the creation of the new one.                *)
THEOREM WalletNonceSafety == Spec => []NoSharedNonce
<1>1. Init => WalletInv /\ QueueInv
  BY InitOK, QueueInit
<1>2. WalletInv /\ QueueInv /\ [Next]_vars => (WalletInv /\ QueueInv)'
  BY WalletStep, QueueStep
<1>3. QueueInv => NoSharedNonce
  BY DEF QueueInv
<1> QED BY <1>1, <1>2, <1>3, PTL DEF Spec

-----------------------------------------------------------------------------
(* The operator's transactions *)

Extra == orders + faults
Leased == {"tick", "check", "retry", "order"}
Ordered(w) == \E c \in Calls : At(c, "operator") /\ call[c].job = "order" /\ call[c].what = w
Saving(w) == \E c \in Calls : At(c, "operatorSaved") /\ call[c].what = w
(* Who works under the lease holds it; a tick sends what is not recorded.  *)
HolderOK ==
    \A c \in Calls :
        /\ call[c].job \in Leased => busy = c
        /\ At(c, "operator") /\ call[c].job = "tick" => call[c].what \notin h.done
(* Every transaction but the first is an order's or follows a failure: one *)
(* that is neither recorded nor about to be has none to spare.             *)
BalanceOK ==
    \A w \in OperatorSteps :
        /\ done[w] <= 1 + Extra
        /\ Ordered(w) => done[w] <= Extra
        /\ w \notin h.done /\ ~Saving(w) => done[w] <= Extra
        /\ w \notin h.done /\ ~Saving(w) /\ Ordered(w) => done[w] + 1 <= Extra
LeaseInv == HolderOK /\ BalanceOK

LEMMA ExtraNat == ASSUME WalletInv PROVE orders \in Nat /\ faults \in Nat /\ Extra \in Nat
BY DEF WalletInv, CountsOK, Extra

LEMMA NatSum ==
    \A a, b, d \in Nat : a + b \in Nat /\ (d >= b => a + d >= a + b)
OBVIOUS

LEMMA BalanceMonotone ==
    ASSUME WalletInv, WalletInv', BalanceOK, done' = done, h'.done = h.done, Extra' >= Extra,
           \A w \in OperatorSteps :
               /\ Ordered(w)' => Ordered(w) \/ Extra' >= Extra + 1
               /\ Saving(w) => Saving(w)'
    PROVE  BalanceOK'
<1>1. Extra \in Nat /\ Extra' \in Nat /\ done \in [OperatorSteps -> Nat]
  <2>1. orders \in Nat /\ faults \in Nat /\ orders' \in Nat /\ faults' \in Nat
    BY DEF WalletInv, CountsOK
  <2>2. done \in [OperatorSteps -> Nat]
    BY DEF WalletInv, CountsOK
  <2>3. Extra \in Nat
    BY <2>1 DEF Extra
  <2>4. Extra' \in Nat
    <3>1. Extra' = orders' + faults'
      BY DEF Extra
    <3>2. orders' + faults' \in Nat
      BY <2>1, NatSum
    <3> QED BY <3>1, <3>2
  <2> QED BY <2>2, <2>3, <2>4
<1>2. ASSUME NEW w \in OperatorSteps
      PROVE  /\ done[w] <= 1 + Extra'
             /\ Ordered(w)' => done[w] <= Extra'
             /\ w \notin h.done /\ ~Saving(w)' => done[w] <= Extra'
             /\ w \notin h.done /\ ~Saving(w)' /\ Ordered(w)' => done[w] + 1 <= Extra'
  <2>1. /\ done[w] \in Nat /\ done[w] <= 1 + Extra
        /\ Ordered(w) => done[w] <= Extra
        /\ w \notin h.done /\ ~Saving(w) => done[w] <= Extra
        /\ w \notin h.done /\ ~Saving(w) /\ Ordered(w) => done[w] + 1 <= Extra
    BY <1>1 DEF BalanceOK
  <2>2. (Ordered(w)' => Ordered(w) \/ Extra' >= Extra + 1) /\ (Saving(w) => Saving(w)')
    OBVIOUS
  <2>3. done[w] <= 1 + Extra'
    BY <1>1, <2>1
  <2>4. Ordered(w)' => done[w] <= Extra'
    BY <1>1, <2>1, <2>2
  <2>5. w \notin h.done /\ ~Saving(w)' => done[w] <= Extra'
    BY <1>1, <2>1, <2>2
  <2>6. w \notin h.done /\ ~Saving(w)' /\ Ordered(w)' => done[w] + 1 <= Extra'
    <3> SUFFICES ASSUME w \notin h.done, ~Saving(w)', Ordered(w)' PROVE done[w] + 1 <= Extra'
      OBVIOUS
    <3>1. ~Saving(w) /\ done[w] <= Extra
      BY <2>1, <2>2
    <3>2. CASE Ordered(w)
      BY <1>1, <2>1, <3>1, <3>2
    <3>3. CASE Extra' >= Extra + 1
      BY <1>1, <2>1, <3>1, <3>3
    <3> QED BY <2>2, <3>2, <3>3
  <2> QED BY <2>3, <2>4, <2>5, <2>6
<1> QED BY <1>2 DEF BalanceOK

(* A request moves without sending or saving: it takes the lease when it   *)
(* is free, keeps it or gives it back.                                     *)
LEMMA LeaseMove ==
    ASSUME WalletInv, WalletInv', LeaseInv, NEW c \in Calls, NEW k,
           call' = [call EXCEPT ![c] = k], done' = done, h'.done = h.done, Extra' >= Extra,
           call[c].pc \notin {"operator", "operatorSaved"}, k.pc # "operatorSaved",
           busy' = busy \/ busy = Nobody \/ busy = c,
           k.job \in Leased => busy' = c,
           k.pc = "operator" => \/ k.job = "tick" /\ k.what \notin h.done
                                \/ k.job # "tick" /\ Extra' >= Extra + 1
    PROVE  LeaseInv'
<1>1. call'[c] = k /\ \A d \in Calls \ {c} : call'[d] = call[d]
  BY DEF WalletInv, CallsOK
<1>2. HolderOK'
  <2>1. ASSUME NEW d \in Calls
        PROVE  /\ call'[d].job \in Leased => busy' = d
               /\ call'[d].pc = "operator" /\ call'[d].job = "tick" => call'[d].what \notin h.done
    <3>1. CASE d = c
      BY <1>1, <3>1
    <3>2. CASE d # c
      BY <1>1, <3>2, WalletAssumption DEF LeaseInv, HolderOK, At
    <3> QED BY <3>1, <3>2
  <2> QED BY <2>1 DEF HolderOK, At
<1>3. \A w \in OperatorSteps : Saving(w) => Saving(w)'
  BY <1>1 DEF Saving, At
<1>4. ASSUME NEW w \in OperatorSteps, Ordered(w)' PROVE Ordered(w) \/ Extra' >= Extra + 1
  <2>1. PICK d \in Calls : call'[d].pc = "operator" /\ call'[d].job = "order" /\ call'[d].what = w
    BY <1>4 DEF Ordered, At
  <2>2. CASE d = c
    BY <1>1, <2>1, <2>2
  <2>3. CASE d # c
    BY <1>1, <2>1, <2>3 DEF Ordered, At
  <2> QED BY <2>2, <2>3
<1>5. BalanceOK'
  BY <1>3, <1>4, BalanceMonotone DEF LeaseInv
<1> QED BY <1>2, <1>5 DEF LeaseInv

LEMMA LeaseStill ==
    ASSUME WalletInv, WalletInv', LeaseInv, UNCHANGED <<call, h, done, busy>>, Extra' >= Extra
    PROVE  LeaseInv'
<1>1. HolderOK'
  BY DEF LeaseInv, HolderOK, At
<1>2. \A w \in OperatorSteps : (Saving(w) => Saving(w)') /\ (Ordered(w)' => Ordered(w))
  BY DEF Saving, Ordered, At
<1>3. BalanceOK'
  BY <1>2, BalanceMonotone DEF LeaseInv
<1> QED BY <1>1, <1>3 DEF LeaseInv

LEMMA BeginsLease ==
    ASSUME WalletInv, LeaseInv, NEW c \in Calls, Begins(c) PROVE LeaseInv'
<1>0. WalletInv' /\ call[c].pc = "idle" /\ orders \in Nat /\ faults \in Nat
  BY BeginsOK, ExtraNat DEF Begins, TickBegins, MemberChecks, AdminChecks, Check, ProposesTrade,
     AdminOperates, AdminProposes, Orders, RetryBegins, At
<1>1. CASE TickBegins(c)
  <2> DEFINE w == NextOperatorStep
             k == [Idle EXCEPT !.job = "tick", !.step = 1, !.what = w,
                               !.pc = IF w = "none" THEN "sync" ELSE "operator"]
  <2>1. /\ call' = [call EXCEPT ![c] = k] /\ busy = Nobody /\ busy' = c
        /\ UNCHANGED <<h, done, orders, faults>>
    BY <1>1 DEF TickBegins, Take, Go, counts
  <2>2. w # "none" => w \notin h.done
    BY DEF NextOperatorStep
  <2> HIDE DEF w
  <2>3. k.job = "tick" /\ k.pc \in {"sync", "operator"} /\ (k.pc = "operator" => k.what \notin h.done)
    BY <2>2 DEF Idle
  <2>4. Extra' >= Extra
    BY <1>0, <2>1 DEF Extra
  <2> HIDE DEF k
  <2> QED BY <1>0, <2>1, <2>3, <2>4, LeaseMove
<1>2. CASE MemberChecks(c)
  <2> DEFINE k == [Idle EXCEPT !.job = "check", !.pc = "sync", !.step = 1]
  <2>1. /\ call' = [call EXCEPT ![c] = k] /\ busy = Nobody /\ busy' = c
        /\ UNCHANGED <<h, done, orders, faults>>
    BY <1>2 DEF MemberChecks, Check, Take, Go
  <2>2. k.pc = "sync"
    BY DEF Idle
  <2>3. Extra' >= Extra
    BY <1>0, <2>1 DEF Extra
  <2> HIDE DEF k
  <2> QED BY <1>0, <2>1, <2>2, <2>3, LeaseMove
<1>3. CASE AdminChecks(c) \/ ProposesTrade(c)
  <2> DEFINE k1 == [Idle EXCEPT !.job = "admin", !.pc = "sync", !.step = 1]
             k2 == [Idle EXCEPT !.job = "trade", !.pc = "list"]
  <2>1. /\ call' = [call EXCEPT ![c] = k1] \/ call' = [call EXCEPT ![c] = k2]
        /\ UNCHANGED <<h, done, busy, orders, faults>>
    BY <1>3 DEF AdminChecks, ProposesTrade, Check, Go
  <2>2. /\ k1.pc = "sync" /\ k2.pc = "list"
        /\ k1.job \notin Leased /\ k2.job \notin Leased
    BY DEF Idle, Leased
  <2>3. Extra' >= Extra
    BY <1>0, <2>1 DEF Extra
  <2> HIDE DEF k1, k2
  <2> QED BY <1>0, <2>1, <2>2, <2>3, LeaseMove
<1>4. ASSUME NEW what \in OperatorSteps, AdminOperates(c, what) PROVE LeaseInv'
  <2> DEFINE k == [Idle EXCEPT !.job = "order", !.pc = "operator", !.what = what]
  <2>1. /\ call' = [call EXCEPT ![c] = k] /\ busy = Nobody /\ busy' = c
        /\ UNCHANGED <<h, done, faults>> /\ orders' = orders + 1
    BY <1>4 DEF AdminOperates, Orders, Take, Go
  <2>2. k.pc = "operator" /\ k.job = "order"
    BY DEF Idle
  <2>3. Extra' >= Extra /\ Extra' >= Extra + 1
    BY <1>0, <2>1 DEF Extra
  <2> HIDE DEF k
  <2> QED BY <1>0, <2>1, <2>2, <2>3, LeaseMove
<1>5. ASSUME NEW p \in SetupSteps, AdminProposes(c, p) PROVE LeaseInv'
  <2> DEFINE k == [Idle EXCEPT !.job = "order", !.pc = "list", !.step = p]
  <2>1. /\ call' = [call EXCEPT ![c] = k] /\ busy = Nobody /\ busy' = c
        /\ UNCHANGED <<h, done, faults>> /\ orders' = orders + 1
    BY <1>5 DEF AdminProposes, Orders, Take, Go
  <2>2. k.pc = "list"
    BY DEF Idle
  <2>3. Extra' >= Extra
    BY <1>0, <2>1 DEF Extra
  <2> HIDE DEF k
  <2> QED BY <1>0, <2>1, <2>2, <2>3, LeaseMove
<1>6. ASSUME NEW p \in SetupSteps, RetryBegins(c, p) PROVE LeaseInv'
  <2> DEFINE k == [Idle EXCEPT !.job = "retry", !.pc = "review", !.step = p,
                               !.n = h.step[p].intent]
  <2>1. /\ call' = [call EXCEPT ![c] = k] /\ busy = Nobody /\ busy' = c
        /\ UNCHANGED <<h, done, orders, faults>>
    BY <1>6 DEF RetryBegins, Take, Go, counts
  <2>2. k.pc = "review"
    BY DEF Idle
  <2>3. Extra' >= Extra
    BY <1>0, <2>1 DEF Extra
  <2> HIDE DEF k
  <2> QED BY <1>0, <2>1, <2>2, <2>3, LeaseMove
<1> QED BY <1>1, <1>2, <1>3, <1>4, <1>5, <1>6 DEF Begins

(* A request that goes on, but for its operator's transactions. *)
GoesOn(c) ==
    \E k : /\ UNCHANGED busy /\ call' = [call EXCEPT ![c] = k]
           /\ k.job = call[c].job /\ k.pc # "operatorSaved"
           /\ k.pc = "operator" => k.job = "tick" /\ k.what \notin h.done
LEMMA HandleGoes ==
    ASSUME WalletInv, NEW c \in Calls, Handle(c), ~OperatorSends(c), ~OperatorSaves(c)
    PROVE  /\ UNCHANGED <<done, orders, faults>> /\ h'.done = h.done
           /\ call[c].pc \notin {"operator", "operatorSaved"}
           /\ End(c) \/ GoesOn(c)
<1>0. call[c] \in CallStates /\ h \in Records
  BY DEF WalletInv, CallsOK, RecordOK
<1>1. UNCHANGED <<done, orders, faults>> /\ call[c].pc \notin {"operator", "operatorSaved"}
  BY DEF Handle, AfterSync, SyncLooks, Broadcasts, Polls, RelayRefused, SyncSaves, ListsIntents,
         ChoosesNonce, CreatesIntent, RecordsStep, RetryReviews, RetryRestores, RetryProposes,
         At, counts
<1>2. h'.done = h.done
  <2>1. CASE UNCHANGED h
    BY <2>1
  <2>2. CASE SyncSaves(c) \/ RetryReviews(c)
    BY <1>0, <2>2 DEF SyncSaves, RetryReviews, Records
  <2>3. \A k, s : WithStep(k, s).done = h.done /\ "history" \in DOMAIN WithStep(k, s)
    BY <1>0 DEF WithStep, Records
  <2>4. CASE RecordsStep(c)
    BY <2>3, <2>4 DEF RecordsStep
  <2>5. CASE RetryRestores(c)
    <3>1. PICK p, s, m : h' = [WithStep(p, s) EXCEPT !.history = m]
      <4>1. PICK n \in Restorable(c) :
              h' = [WithStep(call[c].step, [NoStep EXCEPT !.intent = n,
                                                          !.tx = intents[n].outcome = "ok"])
                      EXCEPT !.history = @ \cup Copies(c, n)]
        BY <2>5 DEF RetryRestores
      <4> QED BY <4>1
    <3> QED BY <2>3, <3>1
  <2> QED BY <2>1, <2>2, <2>4, <2>5
      DEF Handle, AfterSync, SyncLooks, Broadcasts, Polls, RelayRefused, ListsIntents,
          ChoosesNonce, CreatesIntent, RetryProposes
<1>3. ASSUME NEW k, Go(c, k), UNCHANGED busy, k.job = call[c].job,
             k.pc \notin {"operator", "operatorSaved"}
      PROVE  GoesOn(c)
  BY <1>3 DEF Go, GoesOn
<1>4. ASSUME AfterSync(c) PROVE End(c) \/ GoesOn(c)
  <2> DEFINE k1 == [Idle EXCEPT !.job = "tick", !.pc = "list", !.step = FirstOf(Missing),
                                !.current = Missing = SetupSteps]
             k2 == [Idle EXCEPT !.job = "tick", !.pc = "operator", !.what = "cash"]
  <2>1. \/ End(c)
        \/ call[c].job = "tick" /\ UNCHANGED busy /\ Go(c, k1)
        \/ call[c].job = "tick" /\ UNCHANGED busy /\ Go(c, k2) /\ CashDue
    BY <1>4 DEF AfterSync
  <2>2. /\ k1.job = "tick" /\ k1.pc = "list"
        /\ k2.job = "tick" /\ k2.pc = "operator" /\ k2.what = "cash"
    BY DEF Idle
  <2>3. CashDue => "cash" \notin h.done
    BY DEF CashDue
  <2> HIDE DEF k1, k2
  <2> QED BY <1>3, <2>1, <2>2, <2>3 DEF Go, GoesOn
<1>5. ASSUME SyncLooks(c) PROVE End(c) \/ GoesOn(c)
  <2> DEFINE open == {q \in SetupSteps : ~Confirmed(h.step[q])}
             p == FirstOf(open)
             s == h.step[p]
             i == intents[s.intent]
             clear == [s EXCEPT !.error = "none"]
             s1 == IF i.status = "pending" /\ i.nonce # chainNonce
                   THEN [clear EXCEPT !.error = "NONCE"] ELSE clear
             k1 == [call[c] EXCEPT !.pc = "afterSync"]
             k2 == [call[c] EXCEPT !.step = p, !.n = s.intent,
                      !.pc = IF i.status = "executed" THEN "broadcast" ELSE "syncSave",
                      !.s = s1]
  <2>1. UNCHANGED busy /\ (Go(c, k1) \/ Go(c, k2))
    BY <1>5 DEF SyncLooks
  <2> HIDE DEF p, s, i, s1
  <2>2. /\ k1.pc = "afterSync" /\ k2.pc \in {"broadcast", "syncSave"}
        /\ k1.job = call[c].job /\ k2.job = call[c].job
    BY <1>0 DEF CallStates
  <2> HIDE DEF k1, k2
  <2> QED BY <1>3, <2>1, <2>2
<1>6. ASSUME Broadcasts(c) \/ Polls(c) \/ RelayRefused(c) \/ SyncSaves(c) PROVE End(c) \/ GoesOn(c)
  <2> DEFINE k1 == [call[c] EXCEPT !.pc = "poll"]
             k2 == [call[c] EXCEPT !.pc = "afterSync"]
             k3 == [call[c] EXCEPT !.pc = "syncSave", !.s.error = "NONCE"]
             k4 == [call[c] EXCEPT !.pc = "syncSave", !.s.tx = TRUE, !.s.error = "REVERTED"]
             k5 == [call[c] EXCEPT !.pc = "syncSave", !.s = Result(@, intents[call[c].n])]
  <2>1. /\ k1.pc = "poll" /\ k2.pc = "afterSync" /\ k3.pc = "syncSave" /\ k4.pc = "syncSave"
        /\ k1.job = call[c].job /\ k2.job = call[c].job /\ k3.job = call[c].job
        /\ k4.job = call[c].job
    BY <1>0 DEF CallStates
  <2>2. k5.pc = "syncSave" /\ k5.job = call[c].job
    BY <1>0 DEF CallStates
  <2>3. \/ Go(c, k1) \/ Go(c, k2) \/ Go(c, k3) \/ Go(c, k4) \/ Go(c, k5)
    BY <1>6, Zenon DEF Broadcasts, Polls, RelayRefused, SyncSaves
  <2>4. UNCHANGED busy
    BY <1>6 DEF Broadcasts, Polls, RelayRefused, SyncSaves
  <2> HIDE DEF k1, k2, k3, k4, k5
  <2> QED BY <1>3, <2>1, <2>2, <2>3, <2>4
<1>7. ASSUME ListsIntents(c) \/ ChoosesNonce(c) \/ CreatesIntent(c) PROVE End(c) \/ GoesOn(c)
  <2> DEFINE nonces == {intents[n].nonce : n \in {m \in Numbers : Reserves(intents[m])}}
             k1 == [call[c] EXCEPT !.pc = "nonce", !.reserved = nonces]
             k2 == [call[c] EXCEPT !.pc = "record", !.n = Len(intents) + 1]
  <2>1. k1.pc = "nonce" /\ k2.pc = "record" /\ k1.job = call[c].job /\ k2.job = call[c].job
    BY <1>0 DEF CallStates
  <2>2. \A n : /\ [call[c] EXCEPT !.pc = "create", !.n = n].pc = "create"
               /\ [call[c] EXCEPT !.pc = "create", !.n = n].job = call[c].job
    BY <1>0 DEF CallStates
  <2>3. \/ End(c)
        \/ UNCHANGED busy /\ (Go(c, k1) \/ Go(c, k2))
        \/ UNCHANGED busy /\ \E n : Go(c, [call[c] EXCEPT !.pc = "create", !.n = n])
    BY <1>7, Zenon DEF ListsIntents, ChoosesNonce, CreatesIntent
  <2> HIDE DEF k1, k2
  <2> QED BY <1>3, <2>1, <2>2, <2>3
<1>8. ASSUME RecordsStep(c) PROVE End(c) \/ GoesOn(c)
  <2> DEFINE rest == Missing \ {call[c].step}
             k == [Idle EXCEPT !.job = "tick", !.pc = "list", !.step = FirstOf(rest)]
  <2>1. k.pc = "list" /\ k.job = "tick"
    BY DEF Idle
  <2>2. End(c) \/ (call[c].job = "tick" /\ UNCHANGED busy /\ Go(c, k))
    BY <1>8 DEF RecordsStep
  <2> HIDE DEF k
  <2> QED BY <1>3, <2>1, <2>2
<1>9. ASSUME RetryReviews(c) \/ RetryRestores(c) \/ RetryProposes(c) PROVE End(c) \/ GoesOn(c)
  <2> DEFINE replace == RecoveryDecision(intents[call[c].n]) = "replace"
             k1 == [call[c] EXCEPT !.pc = "restore", !.dead = replace]
             k2 == [call[c] EXCEPT !.pc = "list", !.current = TRUE]
  <2>1. k1.pc = "restore" /\ k2.pc = "list" /\ k1.job = call[c].job /\ k2.job = call[c].job
    BY <1>0 DEF CallStates
  <2>2. End(c) \/ (UNCHANGED busy /\ (Go(c, k1) \/ Go(c, k2)))
    BY <1>9 DEF RetryReviews, RetryRestores, RetryProposes
  <2> HIDE DEF k1, k2
  <2> QED BY <1>3, <2>1, <2>2
<1>10. End(c) \/ GoesOn(c)
  BY <1>4, <1>5, <1>6, <1>7, <1>8, <1>9 DEF Handle
<1> QED BY <1>1, <1>2, <1>10

LEMMA IdleLeased == Idle.job \notin Leased /\ Idle.pc = "idle"
BY DEF Idle, Leased

LEMMA SendsLease ==
    ASSUME WalletInv, LeaseInv, NEW c \in Calls, NEW what \in OperatorSteps, Sends(c, what)
    PROVE  LeaseInv'
<1> DEFINE k == [call[c] EXCEPT !.pc = "operatorSaved"]
<1>1. call[c] \in CallStates /\ call[c].pc = "operator" /\ call[c].what = what
      /\ call[c].job \in {"tick", "order"}
  BY DEF WalletInv, CallsOK, CallOK, Sends, At
<1>2. k.pc = "operatorSaved" /\ k.job = call[c].job /\ k.what = what
  BY <1>1 DEF CallStates
<1>3. /\ call' = [call EXCEPT ![c] = k] /\ done' = [done EXCEPT ![what] = @ + 1]
      /\ UNCHANGED <<h, busy, orders, faults>>
  BY DEF Sends, Go, counts
<1> HIDE DEF k
<1>4. call'[c] = k /\ \A d \in Calls \ {c} : call'[d] = call[d]
  BY <1>3 DEF WalletInv, CallsOK
<1>5. busy = c /\ \A d \in Calls \ {c} : call[d].job \notin Leased
  BY <1>1 DEF LeaseInv, HolderOK, Leased
<1>6. HolderOK'
  <2>1. ASSUME NEW d \in Calls
        PROVE  /\ call'[d].job \in Leased => busy' = d
               /\ call'[d].pc = "operator" /\ call'[d].job = "tick" => call'[d].what \notin h'.done
    <3>1. CASE d = c
      BY <1>2, <1>3, <1>4, <1>5, <3>1
    <3>2. CASE d # c
      BY <1>3, <1>4, <3>2 DEF LeaseInv, HolderOK, At
    <3> QED BY <3>1, <3>2
  <2> QED BY <2>1 DEF HolderOK, At
<1>7. Extra' = Extra /\ Extra \in Nat /\ done \in [OperatorSteps -> Nat]
  BY <1>3, ExtraNat DEF Extra, WalletInv, CountsOK
<1>8. \A d \in Calls \ {c} : call[d].job # "order" /\ call[d].pc # "operatorSaved"
  BY <1>5 DEF Leased, WalletInv, CallsOK, CallOK
<1>9. done[what] <= Extra
  <2>1. CASE call[c].job = "order"
    BY <1>1, <2>1 DEF LeaseInv, BalanceOK, Ordered, At
  <2>2. CASE call[c].job = "tick"
    <3>1. what \notin h.done
      BY <1>1, <2>2 DEF LeaseInv, HolderOK, At
    <3>2. ~Saving(what)
      BY <1>1, <1>8 DEF Saving, At
    <3> QED BY <3>1, <3>2 DEF LeaseInv, BalanceOK
  <2> QED BY <1>1, <2>1, <2>2
<1>10. ASSUME NEW w \in OperatorSteps
       PROVE  /\ done'[w] <= 1 + Extra'
              /\ ~Ordered(w)'
              /\ w \notin h'.done /\ ~Saving(w)' => done'[w] <= Extra'
  <2>1. ~Ordered(w)'
    BY <1>2, <1>4, <1>8 DEF Ordered, At
  <2>2. CASE w = what
    <3>1. Saving(w)'
      BY <1>2, <1>4, <2>2 DEF Saving, At
    <3>2. done'[w] = done[w] + 1 /\ done[w] \in Nat
      BY <1>3, <1>7, <2>2
    <3> QED BY <1>7, <1>9, <2>1, <2>2, <3>1, <3>2
  <2>3. CASE w # what
    <3>1. done'[w] = done[w]
      BY <1>3, <1>7, <2>3
    <3>2. ~Saving(w)
      BY <1>1, <1>8 DEF Saving, At
    <3> QED BY <1>3, <1>7, <2>1, <3>1, <3>2 DEF LeaseInv, BalanceOK
  <2> QED BY <2>2, <2>3
<1> QED BY <1>6, <1>10 DEF LeaseInv, BalanceOK

LEMMA SavesLease ==
    ASSUME WalletInv, LeaseInv, NEW c \in Calls, OperatorSaves(c) PROVE LeaseInv'
<1>1. /\ call[c].pc = "operatorSaved" /\ call[c].job \in {"tick", "order"}
      /\ call[c].what \in OperatorSteps
  BY DEF WalletInv, CallsOK, CallOK, OperatorSaves, At
<1>2. /\ call' = [call EXCEPT ![c] = Idle] /\ UNCHANGED <<done, orders, faults>>
      /\ h'.done = h.done \cup {call[c].what}
  BY DEF OperatorSaves, End, counts, WalletInv, RecordOK, Records
<1>3. call'[c] = Idle /\ \A d \in Calls \ {c} : call'[d] = call[d]
  BY <1>2 DEF WalletInv, CallsOK
<1>4. \A d \in Calls \ {c} : call[d].job \notin Leased
  BY <1>1 DEF LeaseInv, HolderOK, Leased
<1>5. \A d \in Calls : call'[d].job \notin Leased
  BY <1>3, <1>4, IdleLeased
<1>6. HolderOK'
  BY <1>5 DEF HolderOK, At, Leased
<1>7. Extra' = Extra /\ Extra \in Nat /\ done \in [OperatorSteps -> Nat]
  BY <1>2, ExtraNat DEF Extra, WalletInv, CountsOK
<1>8. ASSUME NEW w \in OperatorSteps
      PROVE  /\ done[w] <= 1 + Extra
             /\ ~Ordered(w)'
             /\ w \notin h'.done => done[w] <= Extra
  <2>1. ~Ordered(w)'
    BY <1>5 DEF Ordered, At, Leased
  <2>2. w \notin h'.done => w \notin h.done /\ ~Saving(w)
    <3>1. \A d \in Calls \ {c} : call[d].pc # "operatorSaved"
      BY <1>4 DEF Leased, WalletInv, CallsOK, CallOK
    <3> QED BY <1>2, <3>1 DEF Saving, At
  <2> QED BY <2>1, <2>2 DEF LeaseInv, BalanceOK
<1> QED BY <1>2, <1>6, <1>7, <1>8 DEF LeaseInv, BalanceOK

LEMMA FailsLease == ASSUME WalletInv, LeaseInv, NEW c \in Calls, Fails(c) PROVE LeaseInv'
<1>1. /\ call' = [call EXCEPT ![c] = Idle] /\ UNCHANGED <<h, done, orders>>
      /\ faults' = faults + 1
      /\ busy' = IF busy = c THEN Nobody ELSE busy
  BY DEF Fails, End, Release
<1>2. call'[c] = Idle /\ \A d \in Calls \ {c} : call'[d] = call[d]
  BY <1>1 DEF WalletInv, CallsOK
<1>3. Extra' = Extra + 1 /\ Extra \in Nat /\ done \in [OperatorSteps -> Nat]
  BY <1>1, ExtraNat DEF Extra, WalletInv, CountsOK
<1>4. HolderOK'
  <2>1. ASSUME NEW d \in Calls
        PROVE  /\ call'[d].job \in Leased => busy' = d
               /\ call'[d].pc = "operator" /\ call'[d].job = "tick" => call'[d].what \notin h'.done
    <3>1. CASE d = c
      BY <1>2, <3>1, IdleLeased
    <3>2. CASE d # c
      BY <1>1, <1>2, <3>2 DEF LeaseInv, HolderOK, At
    <3> QED BY <3>1, <3>2
  <2> QED BY <2>1 DEF HolderOK, At
<1>5. ASSUME NEW w \in OperatorSteps
      PROVE  /\ done[w] <= 1 + Extra
             /\ w \notin h.done /\ ~Saving(w)' /\ Ordered(w)' => done[w] <= Extra
  <2>1. ASSUME w \notin h.done, ~Saving(w)', Ordered(w)' PROVE done[w] <= Extra
    <3>1. PICK d \in Calls : call'[d].pc = "operator" /\ call'[d].job = "order" /\ call'[d].what = w
      BY <2>1 DEF Ordered, At
    <3>2. d # c
      BY <1>2, <3>1, IdleLeased
    <3>3. call[d].pc = "operator" /\ call[d].job = "order" /\ call[d].what = w
      BY <1>2, <3>1, <3>2
    <3> QED BY <3>3 DEF LeaseInv, BalanceOK, Ordered, At
  <2> QED BY <2>1 DEF LeaseInv, BalanceOK
<1>6. BalanceOK'
  <2>1. \A w \in OperatorSteps : done[w] \in Nat
    BY <1>3
  <2> QED BY <1>1, <1>3, <1>5, <2>1 DEF BalanceOK
<1> QED BY <1>4, <1>6 DEF LeaseInv

LEMMA LeaseInit == ASSUME Init PROVE LeaseInv
<1>1. \A c \in Calls : call[c] = Idle
  BY DEF Init
<1>2. orders = 0 /\ faults = 0 /\ \A w \in OperatorSteps : done[w] = 0
  BY DEF Init
<1>3. HolderOK
  BY <1>1, IdleLeased DEF HolderOK, At
<1>4. \A w \in OperatorSteps : ~Ordered(w)
  BY <1>1, IdleLeased DEF Ordered, At
<1> QED BY <1>2, <1>3, <1>4 DEF LeaseInv, BalanceOK, Extra

LEMMA LeaseStep == ASSUME WalletInv, LeaseInv, [Next]_vars PROVE LeaseInv'
<1>0. WalletInv' /\ orders \in Nat /\ faults \in Nat
  BY WalletStep, ExtraNat
<1>1. ASSUME NEW c \in Calls, Handle(c) PROVE LeaseInv'
  <2>1. CASE OperatorSends(c)
    <3>1. PICK what \in OperatorSteps : Sends(c, what)
      BY <2>1 DEF OperatorSends, Fund, Eligibility, Allocate, FundUsd, OperatorSteps
    <3> QED BY <3>1, SendsLease
  <2>2. CASE OperatorSaves(c)
    BY <2>2, SavesLease
  <2>3. CASE ~OperatorSends(c) /\ ~OperatorSaves(c)
    <3>1. /\ UNCHANGED <<done, orders, faults>> /\ h'.done = h.done
          /\ call[c].pc \notin {"operator", "operatorSaved"}
      BY <1>1, <2>3, HandleGoes
    <3>2. Extra' >= Extra
      BY <1>0, <3>1 DEF Extra
    <3>3. CASE End(c)
      <4>1. call' = [call EXCEPT ![c] = Idle] /\ (busy' = busy \/ busy = c)
        BY <3>3 DEF End, Release
      <4> QED BY <1>0, <3>1, <3>2, <4>1, IdleLeased, LeaseMove
    <3>4. CASE GoesOn(c)
      <4>1. call[c].job \in Leased => busy = c
        BY DEF LeaseInv, HolderOK
      <4> QED BY <1>0, <3>1, <3>2, <3>4, <4>1, LeaseMove DEF GoesOn
    <3> QED BY <1>1, <2>3, <3>3, <3>4, HandleGoes
  <2> QED BY <2>1, <2>2, <2>3
<1>2. ASSUME NEW n \in Numbers, QuorumStep(n) \/ HederaStep(n) PROVE LeaseInv'
  <2>1. UNCHANGED <<call, h, done, busy>> /\ orders' = orders /\ faults' \in {faults, faults + 1}
    BY <1>2 DEF QuorumStep, TraderSigns, Cosigns, RejectedOrExpires, HederaStep, TradeBroadcast,
                Mines, Drops, counts
  <2>2. faults' >= faults
    BY <1>0, <2>1
  <2>3. faults' \in Nat
    BY <1>0, <2>1
  <2>4. Extra' >= Extra
    <3>1. Extra = orders + faults /\ Extra' = orders + faults'
      BY <2>1 DEF Extra
    <3>2. orders + faults' >= orders + faults
      BY <1>0, <2>2, <2>3, NatSum
    <3> QED BY <3>1, <3>2
  <2> QED BY <1>0, <2>1, <2>4, LeaseStill
<1>3. CASE UNCHANGED vars
  <2>1. UNCHANGED <<call, h, done, busy, orders, faults>>
    BY <1>3 DEF vars
  <2>2. Extra' >= Extra
    BY <1>0, <2>1 DEF Extra
  <2> QED BY <1>0, <2>1, <2>2, LeaseStill
<1> QED BY <1>1, <1>2, <1>3, BeginsLease, FailsLease, NextCases

(* The opening balance, the eligibility, the account and the cash of a     *)
(* desk are each sent once, and again only when an administrator ordered   *)
(* it or a request failed between the transaction and its record, for any  *)
(* number of ticks, checks and retries on any number of instances.         *)
THEOREM WalletBalanceSafety == Spec => []OpeningBalanceOnce
<1>1. Init => WalletInv /\ LeaseInv
  BY InitOK, LeaseInit
<1>2. WalletInv /\ LeaseInv /\ [Next]_vars => (WalletInv /\ LeaseInv)'
  BY WalletStep, LeaseStep
<1>3. WalletInv /\ LeaseInv => OpeningBalanceOnce
  <2> SUFFICES ASSUME WalletInv, LeaseInv, NEW w \in OperatorSteps
               PROVE  done[w] <= 1 + orders + faults
    BY DEF OpeningBalanceOnce
  <2>1. orders \in Nat /\ faults \in Nat /\ done[w] \in Nat
    BY DEF WalletInv, CountsOK
  <2>2. done[w] <= 1 + (orders + faults)
    BY DEF LeaseInv, BalanceOK, Extra
  <2> QED BY <2>1, <2>2
<1> QED BY <1>1, <1>2, <1>3, PTL DEF Spec

-----------------------------------------------------------------------------
(***************************************************************************)
(* Permissions.  What was sent was executed by Privy first (SentInv), so a *)
(* transaction that uses a nonce up is live until then.  PermissionInv     *)
(* counts the intents of a permission against the credit that orders and   *)
(* failures give: a tick proposes what the record lacks, and the record    *)
(* lacks only what was never proposed but for that credit; a retry         *)
(* proposes again what is dead, when no other intent of the permission is  *)
(* confirmed or next, and those that wait for a later nonce beside a dead  *)
(* one are all on credit.                                                  *)
(***************************************************************************)

(* A step of a request leaves the others where they are.                   *)
LEMMA HandleOthers ==
    ASSUME WalletInv, NEW c \in Calls, Handle(c)
    PROVE  \A d \in Calls \ {c} : call'[d] = call[d]
<1>1. PICK k : call' = [call EXCEPT ![c] = k]
  <2>1. CASE OperatorSends(c) \/ OperatorSaves(c)
    BY <2>1 DEF OperatorSends, Fund, Eligibility, Allocate, FundUsd, Sends, OperatorSaves, Go, End
  <2>2. CASE ~OperatorSends(c) /\ ~OperatorSaves(c)
    BY <2>2, HandleGoes DEF GoesOn, End
  <2> QED BY <2>1, <2>2
<1> QED BY <1>1 DEF WalletInv, CallsOK

SentInv ==
    /\ \A n \in Numbers : intents[n].outcome # "none" => intents[n].status = "executed"
    /\ \A c \in Calls : At(c, "broadcast") => intents[call[c].n].status = "executed"

(* What is executed stays so, and a new outcome is one of what is executed.*)
Settles(old, new) ==
    /\ Len(old) <= Len(new)
    /\ \A n \in 1..Len(old) : old[n].status = "executed" => new[n].status = "executed"
    /\ \A n \in 1..Len(new) : new[n].outcome # "none" => new[n].status = "executed"

LEMMA OneIntentChanges ==
    ASSUME WalletInv, Evolves(intents, intents'), NEW n \in Numbers, NEW e,
           intents' = [intents EXCEPT ![n] = e]
    PROVE  /\ Len(intents') = Len(intents) /\ intents'[n] = e
           /\ \A m \in Numbers \ {n} : intents'[m] = intents[m]
<1>1. DOMAIN intents = Numbers
  BY LenProperties DEF WalletInv, IntentsOK, Numbers
<1> QED BY <1>1 DEF Evolves

LEMMA OutcomeChanges ==
    ASSUME WalletInv, Evolves(intents, intents'), NEW n \in Numbers, NEW o,
           intents' = [intents EXCEPT ![n].outcome = o]
    PROVE  /\ Len(intents') = Len(intents) /\ intents[n] \in Intents
           /\ intents'[n] = [intents[n] EXCEPT !.outcome = o]
           /\ intents'[n].outcome = o /\ intents'[n].status = intents[n].status
           /\ intents'[n].kind = intents[n].kind /\ intents'[n].nonce = intents[n].nonce
           /\ \A m \in Numbers \ {n} : intents'[m] = intents[m]
<1>1. intents[n] \in Intents
  BY ElementOfSeq DEF WalletInv, IntentsOK, Numbers
<1> DEFINE e == [intents[n] EXCEPT !.outcome = o]
<1>2. e.outcome = o /\ e.status = intents[n].status /\ e.kind = intents[n].kind
      /\ e.nonce = intents[n].nonce
  BY <1>1 DEF Intents
<1>3. intents' = [intents EXCEPT ![n] = e]
  OBVIOUS
<1>4. /\ Len(intents') = Len(intents) /\ intents'[n] = e
      /\ \A m \in Numbers \ {n} : intents'[m] = intents[m]
  <2> HIDE DEF e
  <2> QED BY <1>3, OneIntentChanges
<1> QED BY <1>1, <1>2, <1>4

LEMMA OutcomeSettles ==
    ASSUME WalletInv, SentInv, Evolves(intents, intents'), NEW n \in Numbers, NEW o,
           intents' = [intents EXCEPT ![n].outcome = o],
           intents[n].status = "executed" \/ o = "none"
    PROVE  Settles(intents, intents')
<1>1. Len(intents) \in Nat
  BY LenProperties DEF WalletInv, IntentsOK
<1> QED BY <1>1, OutcomeChanges DEF SentInv, Settles, Numbers

LEMMA SettlesSame == ASSUME WalletInv, SentInv, UNCHANGED intents PROVE Settles(intents, intents')
<1>1. Len(intents) \in Nat
  BY LenProperties DEF WalletInv, IntentsOK
<1> QED BY <1>1 DEF SentInv, Settles, Numbers

LEMMA StatusSettles ==
    ASSUME WalletInv, SentInv, NEW n \in Numbers, QuorumStep(n)
    PROVE  Settles(intents, intents')
<1>1. intents[n] \in Intents /\ Len(intents) \in Nat
  BY ElementOfSeq, LenProperties DEF WalletInv, IntentsOK, Numbers
<1>2. PICK e : /\ intents' = [intents EXCEPT ![n] = e] /\ e.outcome = intents[n].outcome
               /\ intents[n].status = "pending"
  <2>1. CASE TraderSigns(n)
    <3> DEFINE e == [intents[n] EXCEPT !.signed = TRUE]
    <3>1. e.outcome = intents[n].outcome
      BY <1>1 DEF Intents
    <3> QED BY <2>1, <3>1 DEF TraderSigns, CanApprove
  <2>2. CASE Cosigns(n) \/ RejectedOrExpires(n)
    <3>1. PICK status : intents' = [intents EXCEPT ![n].status = status]
      BY <2>2 DEF Cosigns, RejectedOrExpires
    <3> DEFINE e == [intents[n] EXCEPT !.status = status]
    <3>2. e.outcome = intents[n].outcome
      BY <1>1 DEF Intents
    <3>3. intents[n].status = "pending"
      BY <2>2 DEF Cosigns, RejectedOrExpires
    <3> QED BY <3>1, <3>2, <3>3
  <2> QED BY <2>1, <2>2 DEF QuorumStep
<1>3. /\ Len(intents') = Len(intents) /\ intents'[n] = e
      /\ \A m \in Numbers \ {n} : intents'[m] = intents[m]
  BY <1>2, QuorumEvolves, OneIntentChanges
<1>4. intents[n].outcome = "none"
  BY <1>2 DEF SentInv
<1> QED BY <1>1, <1>2, <1>3, <1>4 DEF SentInv, Settles, Numbers

LEMMA HandleSettles ==
    ASSUME WalletInv, SentInv, NEW c \in Calls, Handle(c)
    PROVE  Settles(intents, intents')
<1>0. intents \in Seq(Intents) /\ Len(intents) \in Nat
  BY LenProperties DEF WalletInv, IntentsOK
<1>1. CASE Broadcasts(c)
  <2>1. call[c].n \in Numbers /\ intents[call[c].n].status = "executed"
    BY <1>1 DEF Broadcasts, At, WalletInv, CallsOK, CallOK, Asks, Numbers, SentInv
  <2>2. UNCHANGED intents \/ intents' = [intents EXCEPT ![call[c].n].outcome = "sent"]
    BY <1>1 DEF Broadcasts
  <2> QED BY <1>1, <2>1, <2>2, BroadcastsEvolves, SettlesSame, OutcomeSettles
<1>2. CASE CreatesIntent(c)
  <2> DEFINE new == [kind |-> call[c].step, nonce |-> call[c].n, signed |-> FALSE,
                     status |-> "pending", outcome |-> "none"]
  <2>1. new \in Intents /\ intents' = Append(intents, new) /\ new.outcome = "none"
    BY <1>2 DEF WalletInv, CallsOK, CallStates, Intents, CreatesIntent
  <2> HIDE DEF new
  <2>2. /\ Len(intents') = Len(intents) + 1 /\ intents'[Len(intents) + 1] = new
        /\ \A n \in 1..Len(intents) : intents'[n] = intents[n]
    BY <1>0, <2>1, AppendProperties
  <2>3. \A n \in 1..Len(intents') : n = Len(intents) + 1 \/ n \in 1..Len(intents)
    BY <1>0, <2>2
  <2> QED BY <1>0, <2>1, <2>2, <2>3 DEF SentInv, Settles, Numbers
<1>3. CASE RetryRestores(c)
  <2>1. PICK n \in Restorable(c) :
          intents' = [m \in Numbers |-> IF m \in Copies(c, n)
                                        THEN [intents[m] EXCEPT !.status = "rejected"]
                                        ELSE intents[m]]
    BY <1>3 DEF RetryRestores
  <2>2. Len(intents') = Len(intents)
    BY <1>3, RestoreEvolves DEF Evolves
  <2>3. \A m \in Numbers : intents[m] \in Intents
    BY <1>0, ElementOfSeq DEF Numbers
  <2>4. ASSUME NEW m \in Numbers
        PROVE  /\ intents[m].status = "executed" => intents'[m].status = "executed"
               /\ intents'[m].outcome # "none" => intents'[m].status = "executed"
    <3>1. CASE m \in Copies(c, n)
      <4>1. intents[m].status = "pending" /\ intents[m].outcome = "none"
        BY <3>1 DEF Copies, SentInv
      <4>2. intents'[m].outcome = intents[m].outcome
        BY <2>1, <2>3, <3>1 DEF Intents
      <4> QED BY <4>1, <4>2
    <3>2. CASE m \notin Copies(c, n)
      BY <2>1, <3>2 DEF SentInv
    <3> QED BY <3>1, <3>2
  <2> QED BY <1>0, <2>2, <2>4 DEF Settles, Numbers
<1>4. CASE ~(Broadcasts(c) \/ CreatesIntent(c) \/ RetryRestores(c))
  <2>1. UNCHANGED intents
    BY <1>4 DEF Handle, OperatorSends, Fund, Eligibility, Allocate, FundUsd, Sends, OperatorSaves,
                AfterSync, SyncLooks, Polls, RelayRefused, SyncSaves, RecordsStep, RetryReviews,
                RetryProposes, ListsIntents, ChoosesNonce
  <2> QED BY <2>1, SettlesSame
<1> QED BY <1>1, <1>2, <1>3, <1>4

LEMMA HederaSettles ==
    ASSUME WalletInv, SentInv, NEW n \in Numbers, HederaStep(n)
    PROVE  Settles(intents, intents')
<1>1. PICK o : /\ intents' = [intents EXCEPT ![n].outcome = o]
               /\ intents[n].status = "executed" \/ o = "none"
  BY DEF HederaStep, TradeBroadcast, Mines, Drops, SentInv
<1> QED BY <1>1, HederaEvolves, OutcomeSettles

(* A request that goes to broadcast has an executed intent before it.      *)
LEMMA BroadcastOfExecuted ==
    ASSUME WalletInv, NEW c \in Calls, Handle(c), call'[c].pc = "broadcast"
    PROVE  UNCHANGED intents /\ intents[call'[c].n].status = "executed"
<1>0. call[c] \in CallStates
  BY DEF WalletInv, CallsOK
<1>1. CASE SyncLooks(c)
  <2> DEFINE open == {q \in SetupSteps : ~Confirmed(h.step[q])}
             p == FirstOf(open)
             s == h.step[p]
             i == intents[s.intent]
             clear == [s EXCEPT !.error = "none"]
             s1 == IF i.status = "pending" /\ i.nonce # chainNonce
                   THEN [clear EXCEPT !.error = "NONCE"] ELSE clear
             k1 == [call[c] EXCEPT !.pc = "afterSync"]
             k2 == [call[c] EXCEPT !.step = p, !.n = s.intent,
                      !.pc = IF i.status = "executed" THEN "broadcast" ELSE "syncSave",
                      !.s = s1]
  <2>1. (call' = [call EXCEPT ![c] = k1] \/ call' = [call EXCEPT ![c] = k2]) /\ UNCHANGED intents
    BY <1>1 DEF SyncLooks, Go
  <2> HIDE DEF p, s, s1
  <2>2. k1.pc = "afterSync" /\ (k2.pc = "broadcast" => i.status = "executed") /\ k2.n = s.intent
    BY <1>0 DEF CallStates
  <2> HIDE DEF k1, k2
  <2>3. call'[c] = k1 \/ call'[c] = k2
    BY <2>1 DEF WalletInv, CallsOK
  <2> QED BY <2>1, <2>2, <2>3
<1>2. CASE ~SyncLooks(c)
  <2>1. PICK k : /\ call' = [call EXCEPT ![c] = k]
                 /\ k.pc # "broadcast"
    <3>1. CASE OperatorSends(c)
      <4> DEFINE k == [call[c] EXCEPT !.pc = "operatorSaved"]
      <4>1. call' = [call EXCEPT ![c] = k]
        BY <3>1 DEF OperatorSends, Fund, Eligibility, Allocate, FundUsd, Sends, Go
      <4>2. k.pc = "operatorSaved"
        BY <1>0 DEF CallStates
      <4> HIDE DEF k
      <4> QED BY <4>1, <4>2
    <3>2. CASE Broadcasts(c) \/ Polls(c) \/ RelayRefused(c) \/ SyncSaves(c)
      <4> DEFINE k1 == [call[c] EXCEPT !.pc = "poll"]
                 k2 == [call[c] EXCEPT !.pc = "afterSync"]
                 k3 == [call[c] EXCEPT !.pc = "syncSave", !.s.error = "NONCE"]
                 k4 == [call[c] EXCEPT !.pc = "syncSave", !.s.tx = TRUE, !.s.error = "REVERTED"]
                 k5 == [call[c] EXCEPT !.pc = "syncSave", !.s = Result(@, intents[call[c].n])]
      <4>1. k1.pc = "poll" /\ k2.pc = "afterSync" /\ k3.pc = "syncSave" /\ k4.pc = "syncSave"
        BY <1>0 DEF CallStates
      <4>2. k5.pc = "syncSave"
        BY <1>0 DEF CallStates
      <4>3. \/ Go(c, k1) \/ Go(c, k2) \/ Go(c, k3) \/ Go(c, k4) \/ Go(c, k5)
        BY <3>2, Zenon DEF Broadcasts, Polls, RelayRefused, SyncSaves
      <4> HIDE DEF k1, k2, k3, k4, k5
      <4> QED BY <4>1, <4>2, <4>3 DEF Go
    <3>3. CASE ListsIntents(c) \/ ChoosesNonce(c) \/ CreatesIntent(c)
      <4> DEFINE nonces == {intents[n].nonce : n \in {m \in Numbers : Reserves(intents[m])}}
                 k1 == [call[c] EXCEPT !.pc = "nonce", !.reserved = nonces]
                 k2 == [call[c] EXCEPT !.pc = "record", !.n = Len(intents) + 1]
      <4>1. k1.pc = "nonce" /\ k2.pc = "record" /\ Idle.pc = "idle"
        BY <1>0 DEF CallStates, Idle
      <4>2. \A n : [call[c] EXCEPT !.pc = "create", !.n = n].pc = "create"
        BY <1>0 DEF CallStates
      <4>3. \/ End(c) \/ Go(c, k1) \/ Go(c, k2)
            \/ \E n : Go(c, [call[c] EXCEPT !.pc = "create", !.n = n])
        BY <3>3, Zenon DEF ListsIntents, ChoosesNonce, CreatesIntent
      <4> HIDE DEF k1, k2
      <4> QED BY <4>1, <4>2, <4>3 DEF Go, End
    <3>4. CASE AfterSync(c) \/ RecordsStep(c) \/ OperatorSaves(c)
      <4> DEFINE k1 == [Idle EXCEPT !.job = "tick", !.pc = "list", !.step = FirstOf(Missing),
                                    !.current = Missing = SetupSteps]
                 k2 == [Idle EXCEPT !.job = "tick", !.pc = "operator", !.what = "cash"]
                 rest == Missing \ {call[c].step}
                 k3 == [Idle EXCEPT !.job = "tick", !.pc = "list", !.step = FirstOf(rest)]
      <4>1. k1.pc = "list" /\ k2.pc = "operator" /\ k3.pc = "list" /\ Idle.pc = "idle"
        BY DEF Idle
      <4>2. \/ End(c) \/ Go(c, k1) \/ Go(c, k2) \/ Go(c, k3)
        BY <3>4 DEF AfterSync, RecordsStep, OperatorSaves
      <4> HIDE DEF k1, k2, k3
      <4> QED BY <4>1, <4>2 DEF Go, End
    <3>5. CASE RetryReviews(c) \/ RetryRestores(c) \/ RetryProposes(c)
      <4> DEFINE replace == RecoveryDecision(intents[call[c].n]) = "replace"
                 k1 == [call[c] EXCEPT !.pc = "restore", !.dead = replace]
                 k2 == [call[c] EXCEPT !.pc = "list", !.current = TRUE]
      <4>1. k1.pc = "restore" /\ k2.pc = "list" /\ Idle.pc = "idle"
        BY <1>0 DEF CallStates, Idle
      <4>2. \/ End(c) \/ Go(c, k1) \/ Go(c, k2)
        BY <3>5 DEF RetryReviews, RetryRestores, RetryProposes
      <4> HIDE DEF k1, k2
      <4> QED BY <4>1, <4>2 DEF Go, End
    <3> QED BY <1>2, <3>1, <3>2, <3>3, <3>4, <3>5 DEF Handle
  <2> QED BY <2>1 DEF WalletInv, CallsOK
<1> QED BY <1>1, <1>2

LEMMA SentMoves ==
    ASSUME WalletInv, WalletInv', SentInv, Settles(intents, intents'), NEW c \in Calls,
           \A d \in Calls \ {c} : call'[d] = call[d],
           call'[c].pc = "broadcast" => UNCHANGED intents /\ intents[call'[c].n].status = "executed"
    PROVE  SentInv'
<1>1. ASSUME NEW d \in Calls, call'[d].pc = "broadcast"
      PROVE  intents'[call'[d].n].status = "executed"
  <2>1. CASE d = c
    BY <1>1, <2>1
  <2>2. CASE d # c
    <3>1. call[d].pc = "broadcast" /\ call'[d] = call[d]
      BY <1>1, <2>2
    <3>2. call[d].n \in 1..Len(intents)
      BY <3>1 DEF WalletInv, CallsOK, CallOK, Asks
    <3> QED BY <3>1, <3>2 DEF SentInv, Settles, At
  <2> QED BY <2>1, <2>2
<1> QED BY <1>1 DEF SentInv, Settles, Numbers, At

LEMMA SentStep == ASSUME WalletInv, SentInv, [Next]_vars PROVE SentInv'
<1>0. WalletInv'
  BY WalletStep
<1>1. ASSUME NEW c \in Calls, Begins(c) PROVE SentInv'
  <2>1. PICK k \in CallStates : k.pc \in {"operator", "sync", "list", "review"}
                                /\ call' = [call EXCEPT ![c] = k] /\ UNCHANGED intents
    BY <1>1, BeginsWhere DEF Moves
  <2>2. call'[c].pc # "broadcast" /\ \A d \in Calls \ {c} : call'[d] = call[d]
    BY <2>1 DEF WalletInv, CallsOK
  <2> QED BY <1>0, <2>1, <2>2, SettlesSame, SentMoves
<1>2. ASSUME NEW c \in Calls, Handle(c) PROVE SentInv'
  <2>1. \A d \in Calls \ {c} : call'[d] = call[d]
    BY <1>2, HandleOthers
  <2> QED BY <1>0, <1>2, <2>1, HandleSettles, BroadcastOfExecuted, SentMoves
<1>3. ASSUME NEW c \in Calls, Fails(c) PROVE SentInv'
  <2>1. call' = [call EXCEPT ![c] = Idle] /\ UNCHANGED intents /\ Idle.pc = "idle"
    BY <1>3 DEF Fails, End, Idle
  <2>2. call'[c].pc # "broadcast" /\ \A d \in Calls \ {c} : call'[d] = call[d]
    BY <2>1 DEF WalletInv, CallsOK
  <2> QED BY <1>0, <2>1, <2>2, SettlesSame, SentMoves
<1>4. ASSUME NEW n \in Numbers, QuorumStep(n) \/ HederaStep(n) PROVE SentInv'
  <2>1. UNCHANGED call
    BY <1>4 DEF QuorumStep, TraderSigns, Cosigns, RejectedOrExpires, HederaStep, TradeBroadcast,
                Mines, Drops
  <2>2. Settles(intents, intents')
    BY <1>4, StatusSettles, HederaSettles
  <2>3. \A c \in Calls : call[c].pc = "broadcast" => call[c].n \in 1..Len(intents)
    BY DEF WalletInv, CallsOK, CallOK, Asks
  <2> QED BY <2>1, <2>2, <2>3 DEF SentInv, Settles, Numbers, At
<1>5. CASE UNCHANGED vars
  BY <1>5 DEF vars, SentInv, Numbers, At
<1> QED BY <1>1, <1>2, <1>3, <1>4, <1>5, NextCases

OfKind(k) == {n \in Numbers : intents[n].kind = k}
LiveOf(k) == {n \in OfKind(k) : Live(n)}
(* Those that are not confirmed and whose turn it is not. *)
Queued(k) == {n \in LiveOf(k) : intents[n].outcome # "ok" /\ intents[n].nonce # chainNonce}

(* An order is credited with its intent once that is there. *)
ChoosingLabels == {"list", "nonce", "create"}
Choosing(c) == call[c].pc \in ChoosingLabels
Ordering == \E c \in Calls : Choosing(c) /\ call[c].job = "order"
Credit == orders + faults - (IF Ordering THEN 1 ELSE 0)
Recording(k) == \E c \in Calls : At(c, "record") /\ call[c].job = "tick" /\ call[c].step = k

StepOK(k) ==
    /\ Cardinality(LiveOf(k)) <= 1 + Credit
    /\ LiveOf(k) # OfKind(k) => Cardinality(Queued(k)) <= Credit
    /\ h.step[k].intent = 0 =>
          Cardinality(OfKind(k)) <= Credit + (IF Recording(k) THEN 1 ELSE 0)
ProposerOK(c) ==
    /\ Choosing(c) => \/ call[c].job = "trade" /\ call[c].step = Trade
                      \/ call[c].job \in {"tick", "retry", "order"} /\ call[c].step \in SetupSteps
    /\ call[c].pc \in {"review", "restore"} => call[c].job = "retry"
TickOK(c) ==
    Choosing(c) /\ call[c].job = "tick" => Cardinality(OfKind(call[c].step)) <= Credit
RetryOK(c) ==
    call[c].job = "retry" =>
        /\ call[c].pc \in ChoosingLabels \cup {"review", "restore", "record"}
        /\ call[c].step \in SetupSteps /\ h.step[call[c].step].intent # 0
        /\ At(c, "restore") /\ call[c].dead => ~Live(call[c].n)
        /\ Choosing(c) => call[c].current /\ Cardinality(LiveOf(call[c].step)) <= Credit
        /\ At(c, "create") => call[c].n = chainNonce
RequestOK(c) == ProposerOK(c) /\ TickOK(c) /\ RetryOK(c)
PermissionInv == (\A k \in SetupSteps : StepOK(k)) /\ \A c \in Calls : RequestOK(c)

LEMMA CreditType == ASSUME WalletInv, WalletInv' PROVE Credit \in Int /\ Credit' \in Int
<1>1. orders \in Nat /\ faults \in Nat /\ orders' \in Nat /\ faults' \in Nat
  BY DEF WalletInv, CountsOK
<1>2. \A a, b \in Nat : a + b - 1 \in Int /\ a + b - 0 \in Int
  OBVIOUS
<1>3. Credit \in {orders + faults - 1, orders + faults - 0}
  BY DEF Credit
<1>4. Credit' \in {orders' + faults' - 1, orders' + faults' - 0}
  BY DEF Credit
<1>5. orders + faults - 1 \in Int /\ orders + faults - 0 \in Int
  BY <1>1, <1>2
<1>6. orders' + faults' - 1 \in Int /\ orders' + faults' - 0 \in Int
  BY <1>1, <1>2
<1> QED BY <1>3, <1>4, <1>5, <1>6

(* Credit is never lost, and a failure adds to it.                         *)
LEMMA CreditGrows ==
    ASSUME WalletInv, WalletInv', orders' >= orders, faults' >= faults,
           Ordering' => Ordering \/ orders' >= orders + 1
    PROVE  /\ Credit' >= Credit
           /\ faults' >= faults + 1 /\ (Ordering' => Ordering) => Credit' >= Credit + 1
<1>1. orders \in Nat /\ faults \in Nat /\ orders' \in Nat /\ faults' \in Nat
  BY DEF WalletInv, CountsOK
<1>2. Credit = orders + faults - (IF Ordering THEN 1 ELSE 0)
  BY DEF Credit
<1>3. Credit' = orders' + faults' - (IF Ordering' THEN 1 ELSE 0)
  BY DEF Credit
<1>4. \A a, b, x, y \in Nat :
        /\ x >= a /\ y >= b => x + y - 0 >= a + b - 0 /\ x + y - 0 >= a + b - 1
                               /\ x + y - 1 >= a + b - 1
        /\ x >= a + 1 /\ y >= b => x + y - 1 >= a + b - 0
        /\ x >= a /\ y >= b + 1 => x + y - 0 >= a + b - 0 + 1 /\ x + y - 0 >= a + b - 1 + 1
                                   /\ x + y - 1 >= a + b - 1 + 1
  OBVIOUS
<1>5. CASE Ordering' /\ Ordering
  <2>1. Credit = orders + faults - 1 /\ Credit' = orders' + faults' - 1
    BY <1>2, <1>3, <1>5
  <2> QED BY <1>1, <1>4, <2>1
<1>6. CASE Ordering' /\ ~Ordering
  <2>1. Credit = orders + faults - 0 /\ Credit' = orders' + faults' - 1
    BY <1>2, <1>3, <1>6
  <2> QED BY <1>1, <1>4, <1>6, <2>1
<1>7. CASE ~Ordering' /\ Ordering
  <2>1. Credit = orders + faults - 1 /\ Credit' = orders' + faults' - 0
    BY <1>2, <1>3, <1>7
  <2> QED BY <1>1, <1>4, <2>1
<1>8. CASE ~Ordering' /\ ~Ordering
  <2>1. Credit = orders + faults - 0 /\ Credit' = orders' + faults' - 0
    BY <1>2, <1>3, <1>8
  <2> QED BY <1>1, <1>4, <2>1
<1> QED BY <1>5, <1>6, <1>7, <1>8

LEMMA KindSets ==
    ASSUME WalletInv, NEW k
    PROVE  /\ LiveOf(k) \subseteq OfKind(k) /\ Queued(k) \subseteq LiveOf(k)
           /\ IsFiniteSet(OfKind(k)) /\ IsFiniteSet(LiveOf(k)) /\ IsFiniteSet(Queued(k))
           /\ Cardinality(OfKind(k)) \in Nat /\ Cardinality(LiveOf(k)) \in Nat
           /\ Cardinality(Queued(k)) \in Nat
           /\ Cardinality(LiveOf(k)) <= Cardinality(OfKind(k))
           /\ Cardinality(Queued(k)) <= Cardinality(LiveOf(k))
           /\ LiveOf(k) # OfKind(k) => Cardinality(LiveOf(k)) + 1 <= Cardinality(OfKind(k))
<1>1. Len(intents) \in Nat
  BY LenProperties DEF WalletInv, IntentsOK
<1>2. IsFiniteSet(Numbers)
  BY <1>1, FS_Interval DEF Numbers
<1>3. OfKind(k) \subseteq Numbers /\ LiveOf(k) \subseteq OfKind(k) /\ Queued(k) \subseteq LiveOf(k)
  BY DEF OfKind, LiveOf, Queued
<1>4. IsFiniteSet(OfKind(k)) /\ Cardinality(OfKind(k)) \in Nat
  BY <1>2, <1>3, FS_Subset, FS_CardinalityType
<1>5. /\ IsFiniteSet(LiveOf(k)) /\ Cardinality(LiveOf(k)) \in Nat
      /\ Cardinality(LiveOf(k)) <= Cardinality(OfKind(k))
      /\ Cardinality(OfKind(k)) = Cardinality(LiveOf(k)) => LiveOf(k) = OfKind(k)
  BY <1>3, <1>4, FS_Subset, FS_CardinalityType
<1>6. /\ IsFiniteSet(Queued(k)) /\ Cardinality(Queued(k)) \in Nat
      /\ Cardinality(Queued(k)) <= Cardinality(LiveOf(k))
  BY <1>3, <1>5, FS_Subset, FS_CardinalityType
<1> QED BY <1>3, <1>4, <1>5, <1>6

LEMMA KindsEvolve ==
    ASSUME WalletInv, Evolves(intents, intents'), NEW k
    PROVE  OfKind(k)' = OfKind(k) /\ LiveOf(k)' \subseteq LiveOf(k)
<1>1. /\ Numbers' = Numbers
      /\ \A n \in Numbers : /\ intents'[n].kind = intents[n].kind
                            /\ Reserves(intents'[n]) => Reserves(intents[n])
  BY DEF Evolves, Keeps, Numbers
<1>2. OfKind(k)' = OfKind(k)
  BY <1>1 DEF OfKind
<1> QED BY <1>1, <1>2 DEF LiveOf, Live, OfKind

LEMMA QueueShrinks ==
    ASSUME WalletInv, Evolves(intents, intents'), UNCHANGED chainNonce, NEW k
    PROVE  Queued(k)' \subseteq Queued(k)
<1>1. \A n \in Numbers : /\ intents'[n].nonce = intents[n].nonce
                         /\ intents[n].outcome = "ok" => intents'[n].outcome = "ok"
  BY DEF Evolves, Keeps, Numbers
<1>2. LiveOf(k)' \subseteq LiveOf(k) /\ LiveOf(k) \subseteq Numbers
  BY KindsEvolve DEF LiveOf, OfKind
<1> QED BY <1>1, <1>2 DEF Queued

(* No intent appears: a permission's intents only die, the credit grows.   *)
LEMMA StepFrame ==
    ASSUME WalletInv, WalletInv', Evolves(intents, intents'), NEW k, StepOK(k),
           Queued(k)' \subseteq Queued(k), Credit' >= Credit,
           h'.step[k].intent = 0 =>
               h.step[k].intent = 0 /\ (Recording(k) => Recording(k)' \/ Credit' >= Credit + 1)
    PROVE  StepOK(k)'
<1> DEFINE live == LiveOf(k)
           liveN == LiveOf(k)'
           queue == Queued(k)
           queueN == Queued(k)'
           all == OfKind(k)
<1>1. all = OfKind(k)' /\ liveN \subseteq live
  BY KindsEvolve
<1>2. /\ IsFiniteSet(live) /\ IsFiniteSet(queue)
      /\ Cardinality(all) \in Nat /\ Cardinality(live) \in Nat /\ Cardinality(queue) \in Nat
  BY KindSets
<1>3. Cardinality(liveN) \in Nat /\ Cardinality(queueN) \in Nat
      /\ Cardinality(queueN) <= Cardinality(liveN)
  <2>1. IsFiniteSet(liveN) /\ Cardinality(liveN) \in Nat
    BY <1>1, <1>2, FS_Subset, FS_CardinalityType
  <2>2. queueN \subseteq liveN
    BY DEF Queued
  <2> QED BY <2>1, <2>2, FS_Subset, FS_CardinalityType
<1>4. Credit \in Int /\ Credit' \in Int
  BY CreditType
<1>5. /\ Cardinality(liveN) <= Cardinality(live)
      /\ liveN # live => Cardinality(liveN) + 1 <= Cardinality(live)
  <2>1. /\ Cardinality(liveN) <= Cardinality(live)
        /\ Cardinality(live) = Cardinality(liveN) => live = liveN
    BY <1>1, <1>2, FS_Subset
  <2> QED BY <1>2, <1>3, <2>1
<1>6. Cardinality(queueN) <= Cardinality(queue)
  BY <1>2, FS_Subset
<1>7. /\ Cardinality(live) <= 1 + Credit
      /\ live # all => Cardinality(queue) <= Credit
      /\ h.step[k].intent = 0 => Cardinality(all) <= Credit + (IF Recording(k) THEN 1 ELSE 0)
  BY DEF StepOK
<1> HIDE DEF live, liveN, queue, queueN, all
<1>8. Cardinality(liveN) <= 1 + Credit'
  BY <1>2, <1>3, <1>4, <1>5, <1>7
<1>9. liveN # all => Cardinality(queueN) <= Credit'
  <2>1. CASE live # all
    BY <1>2, <1>3, <1>4, <1>6, <1>7, <2>1
  <2>2. CASE live = all /\ liveN # all
    BY <1>2, <1>3, <1>4, <1>5, <1>7, <2>2
  <2> QED BY <2>1, <2>2
<1>10. h'.step[k].intent = 0 =>
          Cardinality(all) <= Credit' + (IF Recording(k)' THEN 1 ELSE 0)
  <2> SUFFICES ASSUME h'.step[k].intent = 0
               PROVE  Cardinality(all) <= Credit' + (IF Recording(k)' THEN 1 ELSE 0)
    OBVIOUS
  <2>1. Cardinality(all) <= Credit + (IF Recording(k) THEN 1 ELSE 0)
    BY <1>7
  <2>2. CASE Recording(k)
    BY <1>2, <1>4, <2>1, <2>2
  <2>3. CASE ~Recording(k)
    BY <1>2, <1>4, <2>1, <2>3
  <2> QED BY <2>2, <2>3
<1> QED BY <1>1, <1>8, <1>9, <1>10 DEF StepOK, live, liveN, queueN, all

RecordKept == \A k \in SetupSteps : h'.step[k].intent = 0 => h.step[k].intent = 0

LEMMA RequestFrame ==
    ASSUME WalletInv, WalletInv', Evolves(intents, intents'), Credit' >= Credit, RecordKept,
           NEW c \in Calls, RequestOK(c), call'[c] = call[c],
           call[c].pc = "create" /\ call[c].job = "retry" => UNCHANGED chainNonce
    PROVE  RequestOK(c)'
<1>1. \A k : /\ OfKind(k)' = OfKind(k) /\ Cardinality(OfKind(k)) \in Nat
             /\ Cardinality(LiveOf(k)') <= Cardinality(LiveOf(k))
             /\ Cardinality(LiveOf(k)) \in Nat /\ Cardinality(LiveOf(k)') \in Nat
  <2> SUFFICES ASSUME NEW k
               PROVE  /\ OfKind(k)' = OfKind(k) /\ Cardinality(OfKind(k)) \in Nat
                      /\ Cardinality(LiveOf(k)') <= Cardinality(LiveOf(k))
                      /\ Cardinality(LiveOf(k)) \in Nat /\ Cardinality(LiveOf(k)') \in Nat
    OBVIOUS
  <2>1. OfKind(k)' = OfKind(k) /\ LiveOf(k)' \subseteq LiveOf(k)
    BY KindsEvolve
  <2>2. IsFiniteSet(LiveOf(k)) /\ Cardinality(OfKind(k)) \in Nat
    BY KindSets
  <2> QED BY <2>1, <2>2, FS_Subset, FS_CardinalityType
<1>2. Credit \in Int /\ Credit' \in Int
  BY CreditType
<1>3. ProposerOK(c)'
  BY DEF RequestOK, ProposerOK, Choosing
<1>4. TickOK(c)'
  <2> SUFFICES ASSUME Choosing(c), call[c].job = "tick"
               PROVE  Cardinality(OfKind(call[c].step)) <= Credit'
    BY <1>1 DEF TickOK, Choosing
  <2>1. Cardinality(OfKind(call[c].step)) <= Credit
    BY DEF RequestOK, TickOK
  <2> QED BY <1>1, <1>2, <2>1
<1>5. RetryOK(c)'
  <2> SUFFICES ASSUME call[c].job = "retry" PROVE RetryOK(c)'
    BY DEF RetryOK
  <2>1. /\ call[c].pc \in ChoosingLabels \cup {"review", "restore", "record"}
        /\ call[c].step \in SetupSteps /\ h'.step[call[c].step].intent # 0
    BY DEF RequestOK, RetryOK, RecordKept
  <2>2. At(c, "restore") /\ call[c].dead => ~Live(call[c].n)'
    <3> SUFFICES ASSUME At(c, "restore"), ~Live(call[c].n) PROVE ~Reserves(intents'[call[c].n])
      BY DEF RequestOK, RetryOK, Live
    <3>1. call[c].n \in 1..Len(intents)
      BY DEF At, WalletInv, CallsOK, CallOK, Asks
    <3> QED BY <3>1 DEF Evolves, Live
  <2>3. Choosing(c) => call[c].current /\ Cardinality(LiveOf(call[c].step)') <= Credit'
    <3> SUFFICES ASSUME Choosing(c)
                 PROVE  call[c].current /\ Cardinality(LiveOf(call[c].step)') <= Credit'
      OBVIOUS
    <3>1. call[c].current /\ Cardinality(LiveOf(call[c].step)) <= Credit
      BY DEF RequestOK, RetryOK
    <3> QED BY <1>1, <1>2, <3>1
  <2>4. At(c, "create") => call[c].n = chainNonce'
    BY DEF At, RequestOK, RetryOK
  <2> QED BY <2>1, <2>2, <2>3, <2>4 DEF RetryOK, At, Choosing, LiveOf, OfKind, Live
<1> QED BY <1>3, <1>4, <1>5 DEF RequestOK

-----------------------------------------------------------------------------
(* The steps of a request and the permissions *)

(* A request at none of these labels, and no retry, is bound by nothing.   *)
Harmless(k) == k.job # "retry" /\ k.pc \notin ChoosingLabels \cup {"review", "restore"}
LEMMA HarmlessOK == ASSUME NEW c \in Calls, Harmless(call'[c]) PROVE RequestOK(c)'
BY DEF Harmless, RequestOK, ProposerOK, TickOK, RetryOK, Choosing, At

(* One request moves and no intent appears.                                *)
LEMMA PermissionMove ==
    ASSUME WalletInv, WalletInv', PermissionInv, Evolves(intents, intents'),
           UNCHANGED chainNonce, orders' >= orders, faults' >= faults, RecordKept,
           NEW c \in Calls, \A d \in Calls \ {c} : call'[d] = call[d],
           call'[c].pc \in ChoosingLabels /\ call'[c].job = "order" =>
               (Choosing(c) /\ call[c].job = "order") \/ orders' >= orders + 1,
           call[c].pc = "record" =>
               \/ h'.step[call[c].step].intent # 0
               \/ faults' >= faults + 1 /\ call'[c].job # "order",
           Credit' >= Credit => RequestOK(c)'
    PROVE  PermissionInv'
<1>1. Ordering' => Ordering \/ orders' >= orders + 1
  BY DEF Ordering, Choosing
<1>2. Credit' >= Credit
  BY <1>1, CreditGrows
<1>3. ASSUME NEW k \in SetupSteps PROVE StepOK(k)'
  <2>1. Queued(k)' \subseteq Queued(k)
    BY QueueShrinks
  <2>2. ASSUME h'.step[k].intent = 0, Recording(k) PROVE Recording(k)' \/ Credit' >= Credit + 1
    <3>1. PICK d \in Calls : call[d].pc = "record" /\ call[d].job = "tick" /\ call[d].step = k
      BY <2>2 DEF Recording, At
    <3>2. CASE d = c
      <4>1. faults' >= faults + 1 /\ call'[c].job # "order"
        BY <2>2, <3>1, <3>2
      <4>2. Ordering' => Ordering
        BY <4>1 DEF Ordering, Choosing
      <4> QED BY <1>1, <4>1, <4>2, CreditGrows
    <3>3. CASE d # c
      BY <3>1, <3>3 DEF Recording, At
    <3> QED BY <3>2, <3>3
  <2>3. h'.step[k].intent = 0 => h.step[k].intent = 0
    BY DEF RecordKept
  <2>4. StepOK(k)
    BY DEF PermissionInv
  <2> QED BY <1>2, <2>1, <2>2, <2>3, <2>4, StepFrame
<1>4. ASSUME NEW d \in Calls PROVE RequestOK(d)'
  <2>1. CASE d = c
    BY <1>2, <2>1
  <2>2. CASE d # c
    <3>1. RequestOK(d) /\ call'[d] = call[d]
      BY <2>2 DEF PermissionInv
    <3> QED BY <1>2, <3>1, RequestFrame
  <2> QED BY <2>1, <2>2
<1> QED BY <1>3, <1>4 DEF PermissionInv

(* It goes where nothing is asked of it.                                   *)
LEMMA PermissionHarmless ==
    ASSUME WalletInv, WalletInv', PermissionInv, Evolves(intents, intents'),
           UNCHANGED <<chainNonce, orders>>, faults' >= faults, RecordKept,
           NEW c \in Calls, \A d \in Calls \ {c} : call'[d] = call[d],
           Harmless(call'[c]),
           call[c].pc = "record" =>
               \/ h'.step[call[c].step].intent # 0
               \/ faults' >= faults + 1 /\ call'[c].job # "order"
    PROVE  PermissionInv'
<1>1. RequestOK(c)'
  BY HarmlessOK
<1>2. orders \in Nat
  BY DEF WalletInv, CountsOK
<1>3. orders' >= orders
  BY <1>2
<1>4. call'[c].pc \notin ChoosingLabels
  BY DEF Harmless
<1> QED BY <1>1, <1>3, <1>4, PermissionMove

(* Nobody moves.                                                           *)
LEMMA PermissionStill ==
    ASSUME WalletInv, WalletInv', PermissionInv, Evolves(intents, intents'),
           UNCHANGED <<call, h, orders>>, faults' >= faults,
           \A k \in SetupSteps : Queued(k)' \subseteq Queued(k),
           \A c \in Calls : call[c].pc = "create" /\ call[c].job = "retry" => UNCHANGED chainNonce
    PROVE  PermissionInv'
<1>1. orders \in Nat /\ (Ordering' => Ordering)
  BY DEF WalletInv, CountsOK, Ordering, Choosing
<1>2. Credit' >= Credit
  BY <1>1, CreditGrows
<1>3. RecordKept
  BY DEF RecordKept
<1>4. ASSUME NEW k \in SetupSteps PROVE StepOK(k)'
  <2>1. Recording(k) => Recording(k)'
    BY DEF Recording, At
  <2>2. StepOK(k)
    BY DEF PermissionInv
  <2> QED BY <1>2, <2>1, <2>2, StepFrame
<1>5. ASSUME NEW d \in Calls PROVE RequestOK(d)'
  BY <1>2, <1>3, RequestFrame DEF PermissionInv
<1> QED BY <1>4, <1>5 DEF PermissionInv

(* Whoever begins proposes nothing, a trade's approval, what is ordered,   *)
(* or what it is to review first.                                          *)
LEMMA BeginsPermission ==
    ASSUME WalletInv, PermissionInv, NEW c \in Calls, Begins(c) PROVE PermissionInv'
<1>0. WalletInv' /\ orders \in Nat /\ faults \in Nat /\ call[c].pc = "idle"
      /\ Evolves(intents, intents') /\ UNCHANGED <<chainNonce, h, faults>> /\ RecordKept
  <2>1. UNCHANGED <<intents, chainNonce, h, faults>> /\ call[c].pc = "idle"
    BY DEF Begins, TickBegins, MemberChecks, AdminChecks, Check, ProposesTrade, AdminOperates,
           AdminProposes, Orders, RetryBegins, At, counts
  <2> QED BY <2>1, BeginsOK, EvolvesSame DEF WalletInv, CountsOK, RecordKept
<1>1. PICK k : /\ call' = [call EXCEPT ![c] = k]
               /\ \/ Harmless(k) /\ orders' \in {orders, orders + 1}
                  \/ k.job = "trade" /\ k.step = Trade /\ k.pc = "list" /\ orders' = orders
                  \/ k.job = "order" /\ k.step \in SetupSteps /\ k.pc = "list"
                     /\ orders' = orders + 1
                  \/ k.job = "retry" /\ k.step \in SetupSteps /\ k.pc = "review"
                     /\ h.step[k.step].intent # 0 /\ orders' = orders
  <2>1. CASE TickBegins(c)
    <3> DEFINE w == NextOperatorStep
               k == [Idle EXCEPT !.job = "tick", !.step = 1, !.what = w,
                                 !.pc = IF w = "none" THEN "sync" ELSE "operator"]
    <3>1. call' = [call EXCEPT ![c] = k] /\ orders' = orders
      BY <2>1 DEF TickBegins, Take, Go, counts
    <3>2. Harmless(k)
      BY DEF Idle, Harmless, ChoosingLabels
    <3> HIDE DEF k
    <3> QED BY <3>1, <3>2
  <2>2. CASE MemberChecks(c)
    <3> DEFINE k == [Idle EXCEPT !.job = "check", !.pc = "sync", !.step = 1]
    <3>1. Harmless(k)
      BY DEF Idle, Harmless, ChoosingLabels
    <3> QED BY <2>2, <3>1 DEF MemberChecks, Check, Take, Go
  <2>3. CASE AdminChecks(c)
    <3> DEFINE k == [Idle EXCEPT !.job = "admin", !.pc = "sync", !.step = 1]
    <3>1. Harmless(k)
      BY DEF Idle, Harmless, ChoosingLabels
    <3> QED BY <2>3, <3>1 DEF AdminChecks, Check, Go
  <2>4. CASE ProposesTrade(c)
    <3> DEFINE k == [Idle EXCEPT !.job = "trade", !.pc = "list"]
    <3>1. k.job = "trade" /\ k.pc = "list" /\ k.step = Trade
      BY DEF Idle, Trade
    <3> QED BY <2>4, <3>1 DEF ProposesTrade, Go
  <2>5. ASSUME NEW what \in OperatorSteps, AdminOperates(c, what)
        PROVE  \E k : /\ call' = [call EXCEPT ![c] = k]
                      /\ Harmless(k) /\ orders' = orders + 1
    <3> DEFINE k == [Idle EXCEPT !.job = "order", !.pc = "operator", !.what = what]
    <3>1. Harmless(k)
      BY DEF Idle, Harmless, ChoosingLabels
    <3> QED BY <2>5, <3>1 DEF AdminOperates, Orders, Take, Go
  <2>6. ASSUME NEW p \in SetupSteps, AdminProposes(c, p)
        PROVE  \E k : /\ call' = [call EXCEPT ![c] = k] /\ orders' = orders + 1
                      /\ k.job = "order" /\ k.step \in SetupSteps /\ k.pc = "list"
    <3> DEFINE k == [Idle EXCEPT !.job = "order", !.pc = "list", !.step = p]
    <3>1. k.pc = "list" /\ k.job = "order" /\ k.step = p
      BY DEF Idle
    <3> QED BY <2>6, <3>1 DEF AdminProposes, Orders, Take, Go
  <2>7. ASSUME NEW p \in SetupSteps, RetryBegins(c, p)
        PROVE  \E k : /\ call' = [call EXCEPT ![c] = k] /\ orders' = orders
                      /\ k.job = "retry" /\ k.step \in SetupSteps /\ k.pc = "review"
                      /\ h.step[k.step].intent # 0
    <3> DEFINE k == [Idle EXCEPT !.job = "retry", !.pc = "review", !.step = p,
                                 !.n = h.step[p].intent]
    <3>1. k.pc = "review" /\ k.job = "retry" /\ k.step = p
      BY DEF Idle
    <3>2. h.step[p].intent # 0 /\ call' = [call EXCEPT ![c] = k] /\ orders' = orders
      BY <2>7 DEF RetryBegins, CanRetry, Take, Go, counts
    <3> HIDE DEF k
    <3> QED BY <3>1, <3>2
  <2>8. CASE TickBegins(c) \/ MemberChecks(c) \/ AdminChecks(c) \/ ProposesTrade(c)
    BY <2>1, <2>2, <2>3, <2>4, <2>8
  <2> QED BY <2>5, <2>6, <2>7, <2>8 DEF Begins
<1>2. call'[c] = k /\ \A d \in Calls \ {c} : call'[d] = call[d]
  BY <1>1 DEF WalletInv, CallsOK
<1>3. RequestOK(c)'
  <2>1. CASE Harmless(k)
    BY <1>2, <2>1, HarmlessOK
  <2>2. CASE /\ k.pc = "list"
             /\ \/ k.job = "trade" /\ k.step = Trade
                \/ k.job = "order" /\ k.step \in SetupSteps
    BY <1>2, <2>2 DEF RequestOK, ProposerOK, TickOK, RetryOK
  <2>3. CASE k.job = "retry" /\ k.step \in SetupSteps /\ k.pc = "review"
             /\ h.step[k.step].intent # 0
    BY <1>0, <1>2, <2>3 DEF RequestOK, ProposerOK, TickOK, RetryOK, Choosing, ChoosingLabels, At
  <2> QED BY <1>1, <2>1, <2>2, <2>3
<1>4. /\ orders' >= orders /\ faults' >= faults
      /\ k.pc \in ChoosingLabels /\ k.job = "order" => orders' >= orders + 1
  BY <1>0, <1>1 DEF Harmless
<1> QED BY <1>0, <1>2, <1>3, <1>4, PermissionMove

LEMMA RecordKeptBy ==
    ASSUME WalletInv, NEW p \in SetupSteps, NEW s, s.intent # 0,
           h'.step = [h.step EXCEPT ![p] = s]
    PROVE  RecordKept /\ h'.step[p].intent # 0
<1>1. h.step \in [SetupSteps -> DeskSteps]
  BY DEF WalletInv, RecordOK, Records
<1> QED BY <1>1 DEF RecordKept

LEMMA OperatorPermission ==
    ASSUME WalletInv, PermissionInv, NEW c \in Calls, OperatorSends(c) \/ OperatorSaves(c)
    PROVE  PermissionInv'
<1>0. WalletInv' /\ Evolves(intents, intents') /\ orders \in Nat /\ faults \in Nat
  <2>1. UNCHANGED intents
    BY DEF OperatorSends, Fund, Eligibility, Allocate, FundUsd, Sends, OperatorSaves
  <2> QED BY <2>1, HandleOK, EvolvesSame DEF Handle, WalletInv, CountsOK
<1>1. call[c] \in CallStates /\ call[c].job \in {"tick", "order"} /\ call[c].pc # "record"
  BY DEF WalletInv, CallsOK, CallOK, OperatorSends, Fund, Eligibility, Allocate, FundUsd, Sends,
         OperatorSaves, At
<1>2. h \in Records
  BY DEF WalletInv, RecordOK
<1>3. UNCHANGED <<chainNonce, orders, faults>> /\ h'.step = h.step
  BY <1>2 DEF OperatorSends, Fund, Eligibility, Allocate, FundUsd, Sends, OperatorSaves, counts,
              Records
<1>4. PICK k : call' = [call EXCEPT ![c] = k] /\ Harmless(k)
  <2> DEFINE k == [call[c] EXCEPT !.pc = "operatorSaved"]
  <2>1. Harmless(k) /\ Harmless(Idle)
    BY <1>1 DEF Harmless, CallStates, Idle, ChoosingLabels
  <2>2. call' \in {[call EXCEPT ![c] = k], [call EXCEPT ![c] = Idle]}
    BY DEF OperatorSends, Fund, Eligibility, Allocate, FundUsd, Sends, OperatorSaves, Go, End
  <2> HIDE DEF k
  <2> QED BY <2>1, <2>2
<1>5. call'[c] = k /\ \A d \in Calls \ {c} : call'[d] = call[d]
  BY <1>4 DEF WalletInv, CallsOK
<1>6. RecordKept
  BY <1>3 DEF RecordKept
<1>7. faults' >= faults
  BY <1>0, <1>3
<1> QED BY <1>0, <1>1, <1>3, <1>4, <1>5, <1>6, <1>7, PermissionHarmless

(* A reconciliation proposes nothing and writes back no missing step.      *)
LEMMA SyncPermission ==
    ASSUME WalletInv, PermissionInv, NEW c \in Calls,
           SyncLooks(c) \/ Broadcasts(c) \/ Polls(c) \/ RelayRefused(c) \/ SyncSaves(c)
    PROVE  PermissionInv'
<1>0. WalletInv' /\ orders \in Nat /\ faults \in Nat
  BY HandleOK DEF Handle, WalletInv, CountsOK
<1>1. /\ call[c] \in CallStates /\ CallOK(call[c], intents) /\ call[c].job # "retry"
      /\ call[c].pc \in {"sync", "broadcast", "poll", "syncSave"}
  BY DEF WalletInv, CallsOK, PermissionInv, RequestOK, RetryOK, ChoosingLabels, SyncLooks,
         Broadcasts, Polls, RelayRefused, SyncSaves, At
<1>2. Evolves(intents, intents')
  <2>1. CASE Broadcasts(c)
    BY <2>1, BroadcastsEvolves
  <2>2. CASE ~Broadcasts(c)
    <3>1. UNCHANGED intents
      BY <2>2 DEF SyncLooks, Polls, RelayRefused, SyncSaves
    <3> QED BY <3>1, EvolvesSame DEF WalletInv
  <2> QED BY <2>1, <2>2
<1>3. UNCHANGED <<chainNonce, orders, faults>>
  BY DEF SyncLooks, Broadcasts, Polls, RelayRefused, SyncSaves, counts
<1>4. RecordKept
  <2>1. CASE SyncSaves(c)
    <3>1. h' = [h EXCEPT !.step[call[c].step] = call[c].s] /\ call[c].pc = "syncSave"
      BY <2>1 DEF SyncSaves, At
    <3>2. h'.step = [h.step EXCEPT ![call[c].step] = call[c].s]
      BY <3>1 DEF WalletInv, RecordOK, Records
    <3>3. call[c].s.intent # 0 /\ call[c].step \in SetupSteps
      BY <1>1, <3>1 DEF CallOK, TrueCopy, Asks
    <3> QED BY <3>2, <3>3, RecordKeptBy
  <2>2. CASE ~SyncSaves(c)
    BY <2>2 DEF SyncLooks, Broadcasts, Polls, RelayRefused, RecordKept
  <2> QED BY <2>1, <2>2
<1>5. PICK k : /\ call' = [call EXCEPT ![c] = k]
               /\ k.job = call[c].job /\ k.pc \in {"afterSync", "broadcast", "poll", "syncSave"}
  <2>1. CASE SyncLooks(c)
    <3> DEFINE open == {q \in SetupSteps : ~Confirmed(h.step[q])}
               p == FirstOf(open)
               s == h.step[p]
               i == intents[s.intent]
               clear == [s EXCEPT !.error = "none"]
               s1 == IF i.status = "pending" /\ i.nonce # chainNonce
                     THEN [clear EXCEPT !.error = "NONCE"] ELSE clear
               k1 == [call[c] EXCEPT !.pc = "afterSync"]
               k2 == [call[c] EXCEPT !.step = p, !.n = s.intent,
                        !.pc = IF i.status = "executed" THEN "broadcast" ELSE "syncSave",
                        !.s = s1]
    <3>1. call' = [call EXCEPT ![c] = k1] \/ call' = [call EXCEPT ![c] = k2]
      BY <2>1 DEF SyncLooks, Go
    <3> HIDE DEF p, s, s1
    <3>2. k1.pc = "afterSync" /\ k2.pc \in {"broadcast", "syncSave"}
          /\ k1.job = call[c].job /\ k2.job = call[c].job
      BY <1>1 DEF CallStates
    <3> HIDE DEF k1, k2
    <3> QED BY <3>1, <3>2
  <2>2. CASE ~SyncLooks(c)
    <3> DEFINE k1 == [call[c] EXCEPT !.pc = "poll"]
               k2 == [call[c] EXCEPT !.pc = "afterSync"]
               k3 == [call[c] EXCEPT !.pc = "syncSave", !.s.error = "NONCE"]
               k4 == [call[c] EXCEPT !.pc = "syncSave", !.s.tx = TRUE, !.s.error = "REVERTED"]
               k5 == [call[c] EXCEPT !.pc = "syncSave", !.s = Result(@, intents[call[c].n])]
    <3>1. k1.pc = "poll" /\ k2.pc = "afterSync" /\ k3.pc = "syncSave" /\ k4.pc = "syncSave"
          /\ k1.job = call[c].job /\ k2.job = call[c].job /\ k3.job = call[c].job
          /\ k4.job = call[c].job
      BY <1>1 DEF CallStates
    <3>2. k5.pc = "syncSave" /\ k5.job = call[c].job
      BY <1>1 DEF CallStates
    <3>3. \/ Go(c, k1) \/ Go(c, k2) \/ Go(c, k3) \/ Go(c, k4) \/ Go(c, k5)
      BY <2>2, Zenon DEF Broadcasts, Polls, RelayRefused, SyncSaves
    <3> HIDE DEF k1, k2, k3, k4, k5
    <3> QED BY <3>1, <3>2, <3>3 DEF Go
  <2> QED BY <2>1, <2>2
<1>6. call'[c] = k /\ \A d \in Calls \ {c} : call'[d] = call[d]
  BY <1>5 DEF WalletInv, CallsOK
<1>7. Harmless(k)
  BY <1>1, <1>5 DEF Harmless, ChoosingLabels
<1>8. faults' >= faults
  BY <1>0, <1>3
<1> QED BY <1>0, <1>1, <1>2, <1>3, <1>4, <1>6, <1>7, <1>8, PermissionHarmless

(* A missing step that no tick is about to record was proposed on credit.  *)
LEMMA MissingOnCredit ==
    ASSUME WalletInv, LeaseInv, PermissionInv, NEW c \in Calls, call[c].job = "tick",
           NEW p \in SetupSteps, h.step[p].intent = 0, ~(call[c].pc = "record" /\ call[c].step = p)
    PROVE  Cardinality(OfKind(p)) <= Credit
<1>1. ~Recording(p)
  <2> SUFFICES ASSUME NEW d \in Calls, At(d, "record"), call[d].job = "tick", call[d].step = p
               PROVE  FALSE
    BY DEF Recording
  <2>1. busy = c /\ busy = d
    BY DEF LeaseInv, HolderOK, Leased
  <2> QED BY <2>1 DEF At
<1>2. Cardinality(OfKind(p)) <= Credit + 0
  BY <1>1 DEF PermissionInv, StepOK
<1>3. Credit \in Int
  <2>1. orders \in Nat /\ faults \in Nat
    BY DEF WalletInv, CountsOK
  <2>2. orders + faults - 1 \in Int /\ orders + faults - 0 \in Int
    BY <2>1
  <2> QED BY <2>2 DEF Credit
<1> QED BY <1>2, <1>3

(* The tick turns to a missing step.                                       *)
LEMMA TickProposes ==
    ASSUME WalletInv, WalletInv', PermissionInv, Evolves(intents, intents'), NEW c \in Calls,
           Credit' >= Credit, NEW p \in SetupSteps, Cardinality(OfKind(p)) <= Credit,
           call'[c].job = "tick", call'[c].pc = "list", call'[c].step = p
    PROVE  RequestOK(c)'
<1>1. OfKind(p)' = OfKind(p) /\ Cardinality(OfKind(p)) \in Nat
  BY KindsEvolve, KindSets
<1>2. Credit \in Int /\ Credit' \in Int
  BY CreditType
<1>3. Cardinality(OfKind(p)') <= Credit'
  BY <1>1, <1>2
<1>4. TickOK(c)'
  BY <1>3 DEF TickOK, OfKind
<1> QED BY <1>4 DEF RequestOK, ProposerOK, RetryOK

LEMMA AfterSyncPermission ==
    ASSUME WalletInv, LeaseInv, PermissionInv, NEW c \in Calls, AfterSync(c)
    PROVE  PermissionInv'
<1>0. /\ WalletInv' /\ Evolves(intents, intents') /\ orders \in Nat /\ faults \in Nat
      /\ UNCHANGED <<chainNonce, orders, faults, h>> /\ call[c].pc = "afterSync"
      /\ orders' >= orders /\ faults' >= faults /\ RecordKept
  <2>1. UNCHANGED <<intents, chainNonce, orders, faults, h>> /\ call[c].pc = "afterSync"
    BY DEF AfterSync, counts, At
  <2>2. orders \in Nat /\ faults \in Nat
    BY DEF WalletInv, CountsOK
  <2> QED BY <2>1, <2>2, HandleOK, EvolvesSame DEF Handle, WalletInv, RecordKept
<1>1. CASE call[c].job = "tick" /\ Missing # {}
  <2> DEFINE p == FirstOf(Missing)
             k == [Idle EXCEPT !.job = "tick", !.pc = "list", !.step = p,
                               !.current = Missing = SetupSteps]
  <2>1. call' = [call EXCEPT ![c] = k]
    BY <1>1 DEF AfterSync, Go
  <2>2. p \in SetupSteps /\ h.step[p].intent = 0
    BY <1>1, FirstOfIn DEF Missing
  <2> HIDE DEF p
  <2>3. k.job = "tick" /\ k.pc = "list" /\ k.step = p
    BY DEF Idle
  <2> HIDE DEF k
  <2>4. call'[c] = k /\ \A d \in Calls \ {c} : call'[d] = call[d]
    BY <2>1 DEF WalletInv, CallsOK
  <2>5. Cardinality(OfKind(p)) <= Credit
    BY <1>0, <1>1, <2>2, MissingOnCredit
  <2>6. Credit' >= Credit => RequestOK(c)'
    BY <1>0, <2>2, <2>3, <2>4, <2>5, TickProposes
  <2> QED BY <1>0, <2>3, <2>4, <2>6, PermissionMove
<1>2. CASE ~(call[c].job = "tick" /\ Missing # {})
  <2>1. PICK k : call' = [call EXCEPT ![c] = k] /\ Harmless(k)
    <3> DEFINE k == [Idle EXCEPT !.job = "tick", !.pc = "operator", !.what = "cash"]
    <3>1. Harmless(k) /\ Harmless(Idle)
      BY DEF Harmless, Idle, ChoosingLabels
    <3>2. call' \in {[call EXCEPT ![c] = k], [call EXCEPT ![c] = Idle]}
      BY <1>2 DEF AfterSync, Go, End
    <3> HIDE DEF k
    <3> QED BY <3>1, <3>2
  <2>2. call'[c] = k /\ \A d \in Calls \ {c} : call'[d] = call[d]
    BY <2>1 DEF WalletInv, CallsOK
  <2> QED BY <1>0, <2>1, <2>2, PermissionHarmless
<1> QED BY <1>1, <1>2

LEMMA RecordsPermission ==
    ASSUME WalletInv, LeaseInv, PermissionInv, NEW c \in Calls, RecordsStep(c)
    PROVE  PermissionInv'
<1> DEFINE q == call[c].step
           s == [NoStep EXCEPT !.intent = call[c].n]
           rest == Missing \ {q}
<1>0. /\ WalletInv' /\ Evolves(intents, intents')
      /\ UNCHANGED <<chainNonce, orders, faults>> /\ call[c].pc = "record"
      /\ orders' >= orders /\ faults' >= faults
  <2>1. UNCHANGED <<intents, chainNonce, orders, faults>> /\ call[c].pc = "record"
    BY DEF RecordsStep, counts, At
  <2>2. orders \in Nat /\ faults \in Nat
    BY DEF WalletInv, CountsOK
  <2> QED BY <2>1, <2>2, HandleOK, EvolvesSame DEF Handle, WalletInv
<1>1. q \in SetupSteps /\ call[c].n \in 1..Len(intents) /\ call[c] \in CallStates
  BY <1>0 DEF WalletInv, CallsOK, CallOK, Asks
<1>2. call[c].n \in 0..MaxIntents /\ call[c].n # 0
  <2>1. Len(intents) \in Nat /\ Len(intents) <= MaxIntents /\ MaxIntents \in Nat
    BY LenProperties, WalletAssumption DEF WalletInv, IntentsOK
  <2> QED BY <1>1, <2>1
<1>3. s \in DeskSteps /\ s.intent # 0
  BY <1>2 DEF NoStep, DeskSteps
<1>4. h'.step = [h.step EXCEPT ![q] = s]
  <2>1. h' = WithStep(q, s)
    BY DEF RecordsStep
  <2> HIDE DEF s, q
  <2> QED BY <1>1, <1>3, <2>1, WithStepOK
<1>5. RecordKept /\ h'.step[q].intent # 0
  <2> HIDE DEF s, q
  <2> QED BY <1>1, <1>3, <1>4, RecordKeptBy
<1>6. CASE call[c].job = "tick" /\ rest # {}
  <2> DEFINE p == FirstOf(rest)
             k == [Idle EXCEPT !.job = "tick", !.pc = "list", !.step = p]
  <2>1. call' = [call EXCEPT ![c] = k]
    BY <1>6 DEF RecordsStep, Go
  <2>2. p \in SetupSteps /\ h.step[p].intent = 0 /\ p # q
    <3>1. p \in rest
      <4>1. rest \in SUBSET SetupSteps
        BY DEF Missing
      <4> HIDE DEF rest
      <4> QED BY <1>6, <4>1, FirstOfIn
    <3> QED BY <3>1 DEF Missing
  <2> HIDE DEF p
  <2>3. k.job = "tick" /\ k.pc = "list" /\ k.step = p
    BY DEF Idle
  <2> HIDE DEF k
  <2>4. call'[c] = k /\ \A d \in Calls \ {c} : call'[d] = call[d]
    BY <2>1 DEF WalletInv, CallsOK
  <2>5. Cardinality(OfKind(p)) <= Credit
    BY <1>0, <1>6, <2>2, MissingOnCredit
  <2>6. Credit' >= Credit => RequestOK(c)'
    BY <1>0, <2>2, <2>3, <2>4, <2>5, TickProposes
  <2> QED BY <1>0, <1>5, <2>3, <2>4, <2>6, PermissionMove
<1>7. CASE ~(call[c].job = "tick" /\ rest # {})
  <2>1. call' = [call EXCEPT ![c] = Idle] /\ Harmless(Idle)
    BY <1>7 DEF RecordsStep, End, Harmless, Idle, ChoosingLabels
  <2>2. call'[c] = Idle /\ \A d \in Calls \ {c} : call'[d] = call[d]
    BY <2>1 DEF WalletInv, CallsOK
  <2> QED BY <1>0, <1>5, <2>1, <2>2, PermissionHarmless
<1> QED BY <1>6, <1>7

LEMMA StaysChoosing ==
    ASSUME WalletInv, WalletInv', Evolves(intents, intents'), UNCHANGED <<h, chainNonce>>,
           Credit' >= Credit, NEW c \in Calls, RequestOK(c), Choosing(c),
           call'[c].job = call[c].job, call'[c].step = call[c].step,
           call'[c].current = call[c].current, call'[c].pc \in {"nonce", "create"},
           call'[c].pc = "create" /\ call[c].current => call'[c].n = chainNonce
    PROVE  RequestOK(c)'
<1> DEFINE p == call[c].step
<1>1. /\ OfKind(p)' = OfKind(p) /\ Cardinality(OfKind(p)) \in Nat
      /\ Cardinality(LiveOf(p)') <= Cardinality(LiveOf(p))
      /\ Cardinality(LiveOf(p)) \in Nat /\ Cardinality(LiveOf(p)') \in Nat
  <2>1. OfKind(p)' = OfKind(p) /\ LiveOf(p)' \subseteq LiveOf(p)
    BY KindsEvolve
  <2>2. IsFiniteSet(LiveOf(p)) /\ Cardinality(OfKind(p)) \in Nat
    BY KindSets
  <2> QED BY <2>1, <2>2, FS_Subset, FS_CardinalityType
<1>2. Credit \in Int /\ Credit' \in Int
  BY CreditType
<1>3. ProposerOK(c)'
  BY DEF RequestOK, ProposerOK, Choosing
<1>4. TickOK(c)'
  <2> SUFFICES ASSUME call[c].job = "tick" PROVE Cardinality(OfKind(p)') <= Credit'
    BY DEF TickOK, OfKind
  <2>1. Cardinality(OfKind(p)) <= Credit
    BY DEF RequestOK, TickOK
  <2> QED BY <1>1, <1>2, <2>1
<1>5. RetryOK(c)'
  <2> SUFFICES ASSUME call[c].job = "retry" PROVE RetryOK(c)'
    BY DEF RetryOK
  <2>1. /\ p \in SetupSteps /\ h.step[p].intent # 0 /\ call[c].current
        /\ Cardinality(LiveOf(p)) <= Credit
    BY DEF RequestOK, RetryOK
  <2>2. Cardinality(LiveOf(p)') <= Credit'
    BY <1>1, <1>2, <2>1
  <2>3. call'[c].pc \in ChoosingLabels /\ call'[c].pc # "restore"
    BY DEF ChoosingLabels
  <2> QED BY <2>1, <2>2, <2>3 DEF RetryOK, At, LiveOf, OfKind, Live
<1> QED BY <1>3, <1>4, <1>5 DEF RequestOK

LEMMA ListsPermission ==
    ASSUME WalletInv, PermissionInv, NEW c \in Calls, ListsIntents(c) PROVE PermissionInv'
<1> DEFINE nonces == {intents[n].nonce : n \in {m \in Numbers : Reserves(intents[m])}}
           k == [call[c] EXCEPT !.pc = "nonce", !.reserved = nonces]
<1>0. /\ WalletInv' /\ Evolves(intents, intents') /\ call[c] \in CallStates
      /\ UNCHANGED <<chainNonce, orders, faults, h>> /\ call[c].pc = "list"
      /\ orders' >= orders /\ faults' >= faults /\ RecordKept
  <2>1. UNCHANGED <<intents, chainNonce, orders, faults, h>> /\ call[c].pc = "list"
    BY DEF ListsIntents, counts, At
  <2>2. orders \in Nat /\ faults \in Nat /\ call[c] \in CallStates
    BY DEF WalletInv, CountsOK, CallsOK
  <2> QED BY <2>1, <2>2, HandleOK, EvolvesSame DEF Handle, WalletInv, RecordKept
<1>1. k.pc = "nonce" /\ k.job = call[c].job /\ k.step = call[c].step /\ k.current = call[c].current
  BY <1>0 DEF CallStates
<1>2. call' = [call EXCEPT ![c] = k]
  BY DEF ListsIntents, Go
<1> HIDE DEF k
<1>3. call'[c] = k /\ \A d \in Calls \ {c} : call'[d] = call[d]
  BY <1>2 DEF WalletInv, CallsOK
<1>4. Choosing(c) /\ RequestOK(c)
  BY <1>0 DEF Choosing, ChoosingLabels, PermissionInv
<1>5. Credit' >= Credit => RequestOK(c)'
  BY <1>0, <1>1, <1>3, <1>4, StaysChoosing
<1> QED BY <1>0, <1>1, <1>3, <1>4, <1>5, PermissionMove

LEMMA ChoosesPermission ==
    ASSUME WalletInv, PermissionInv, NEW c \in Calls, ChoosesNonce(c) PROVE PermissionInv'
<1>0. /\ WalletInv' /\ Evolves(intents, intents') /\ call[c] \in CallStates
      /\ UNCHANGED <<chainNonce, orders, faults, h>> /\ call[c].pc = "nonce"
      /\ orders' >= orders /\ faults' >= faults /\ RecordKept
  <2>1. UNCHANGED <<intents, chainNonce, orders, faults, h>> /\ call[c].pc = "nonce"
    BY DEF ChoosesNonce, counts, At
  <2>2. orders \in Nat /\ faults \in Nat /\ call[c] \in CallStates
    BY DEF WalletInv, CountsOK, CallsOK
  <2> QED BY <2>1, <2>2, HandleOK, EvolvesSame DEF Handle, WalletInv, RecordKept
<1>1. PICK n : IF call[c].current /\ n # chainNonce THEN End(c)
               ELSE Go(c, [call[c] EXCEPT !.pc = "create", !.n = n]) /\ UNCHANGED busy
  BY DEF ChoosesNonce
<1>2. CASE call[c].current /\ n # chainNonce
  <2>1. call' = [call EXCEPT ![c] = Idle] /\ Harmless(Idle)
    BY <1>1, <1>2 DEF End, Harmless, Idle, ChoosingLabels
  <2>2. call'[c] = Idle /\ \A d \in Calls \ {c} : call'[d] = call[d]
    BY <2>1 DEF WalletInv, CallsOK
  <2> QED BY <1>0, <2>1, <2>2, PermissionHarmless
<1>3. CASE ~(call[c].current /\ n # chainNonce)
  <2> DEFINE k == [call[c] EXCEPT !.pc = "create", !.n = n]
  <2>1. k.pc = "create" /\ k.job = call[c].job /\ k.step = call[c].step
        /\ k.current = call[c].current /\ k.n = n
    BY <1>0 DEF CallStates
  <2>2. call' = [call EXCEPT ![c] = k]
    BY <1>1, <1>3 DEF Go
  <2> HIDE DEF k
  <2>3. call'[c] = k /\ \A d \in Calls \ {c} : call'[d] = call[d]
    BY <2>2 DEF WalletInv, CallsOK
  <2>4. Choosing(c) /\ RequestOK(c)
    BY <1>0 DEF Choosing, ChoosingLabels, PermissionInv
  <2>5. Credit' >= Credit => RequestOK(c)'
    BY <1>0, <1>3, <2>1, <2>3, <2>4, StaysChoosing
  <2> QED BY <1>0, <2>1, <2>3, <2>4, <2>5, PermissionMove
<1> QED BY <1>2, <1>3

-----------------------------------------------------------------------------
(* The retry: what it replaces is dead, and it proposes only when every    *)
(* live intent of the permission waits for a later nonce.                  *)
LEMMA ReviewsPermission ==
    ASSUME WalletInv, PermissionInv, NEW c \in Calls, RetryReviews(c) PROVE PermissionInv'
<1> DEFINE n == call[c].n
           p == call[c].step
<1>0. /\ WalletInv' /\ Evolves(intents, intents') /\ call[c] \in CallStates
      /\ UNCHANGED <<chainNonce, orders, faults, intents>> /\ call[c].pc = "review"
      /\ orders' >= orders /\ faults' >= faults /\ n \in 1..Len(intents) /\ p \in SetupSteps
  <2>1. UNCHANGED <<intents, chainNonce, orders, faults>> /\ call[c].pc = "review"
    BY DEF RetryReviews, counts, At
  <2>2. orders \in Nat /\ faults \in Nat /\ call[c] \in CallStates
    BY DEF WalletInv, CountsOK, CallsOK
  <2>3. n \in 1..Len(intents) /\ p \in SetupSteps
    BY <2>1 DEF WalletInv, CallsOK, CallOK, Asks
  <2> QED BY <2>1, <2>2, <2>3, HandleOK, EvolvesSame DEF Handle, WalletInv
<1>1. call[c].job = "retry" /\ h.step[p].intent # 0
  BY <1>0 DEF PermissionInv, RequestOK, ProposerOK, RetryOK
<1>2. CASE End(c)
  <2>1. call' = [call EXCEPT ![c] = Idle] /\ Harmless(Idle)
    BY <1>2 DEF End, Harmless, Idle, ChoosingLabels
  <2>2. call'[c] = Idle /\ \A d \in Calls \ {c} : call'[d] = call[d]
    BY <2>1 DEF WalletInv, CallsOK
  <2>3. RecordKept
    <3>1. CASE UNCHANGED h
      BY <3>1 DEF RecordKept
    <3>2. CASE h' # h
      <4> DEFINE s == [intent |-> n, tx |-> TRUE, error |-> "none"]
      <4>1. h' = [h EXCEPT !.step[p] = s] /\ s.intent # 0
        BY <1>0, <3>2 DEF RetryReviews
      <4> HIDE DEF s
      <4>2. h'.step = [h.step EXCEPT ![p] = s]
        BY <4>1 DEF WalletInv, RecordOK, Records
      <4> QED BY <1>0, <4>1, <4>2, RecordKeptBy
    <3> QED BY <3>1, <3>2
  <2> QED BY <1>0, <2>1, <2>2, <2>3, PermissionHarmless
<1>3. CASE ~End(c)
  <2> DEFINE replace == RecoveryDecision(intents[n]) = "replace"
             k == [call[c] EXCEPT !.pc = "restore", !.dead = replace]
  <2>1. call' = [call EXCEPT ![c] = k] /\ UNCHANGED h
    BY <1>3 DEF RetryReviews, Go
  <2>2. k.pc = "restore" /\ k.dead = replace /\ k.job = "retry" /\ k.step = p /\ k.n = n
    BY <1>0, <1>1 DEF CallStates
  <2>3. replace => ~Live(n)
    <3>1. intents[n] \in Intents
      BY <1>0, ElementOfSeq DEF WalletInv, IntentsOK
    <3> QED BY <3>1 DEF RecoveryDecision, Live, Reserves, Reserving, Intents
  <2> HIDE DEF k, replace
  <2>4. call'[c] = k /\ \A d \in Calls \ {c} : call'[d] = call[d]
    BY <2>1 DEF WalletInv, CallsOK
  <2>5. RequestOK(c)'
    <3>1. k.pc \notin ChoosingLabels
      BY <2>2 DEF ChoosingLabels
    <3>2. ~Choosing(c)'
      BY <2>4, <3>1 DEF Choosing
    <3>3. RetryOK(c)'
      BY <1>0, <1>1, <2>1, <2>2, <2>3, <2>4, <3>2 DEF RetryOK, At, Live
    <3> QED BY <2>2, <2>4, <3>2, <3>3 DEF RequestOK, ProposerOK, TickOK
  <2>6. RecordKept
    BY <2>1 DEF RecordKept
  <2> QED BY <1>0, <2>2, <2>4, <2>5, <2>6, PermissionMove
<1> QED BY <1>2, <1>3

LEMMA RestoresPermission ==
    ASSUME WalletInv, PermissionInv, NEW c \in Calls, RetryRestores(c) PROVE PermissionInv'
<1>0. /\ WalletInv' /\ Evolves(intents, intents')
      /\ UNCHANGED <<chainNonce, orders, faults>> /\ call[c].pc = "restore"
      /\ faults' >= faults /\ call[c].step \in SetupSteps
  <2>1. UNCHANGED <<chainNonce, orders, faults>> /\ call[c].pc = "restore"
    BY DEF RetryRestores, counts, At
  <2>2. faults \in Nat
    BY DEF WalletInv, CountsOK
  <2>3. call[c].step \in SetupSteps
    BY <2>1 DEF WalletInv, CallsOK, CallOK, Asks
  <2> QED BY <2>1, <2>2, <2>3, HandleOK, RestoreEvolves DEF Handle
<1>1. call' = [call EXCEPT ![c] = Idle] /\ Harmless(Idle)
  BY DEF RetryRestores, End, Harmless, Idle, ChoosingLabels
<1>2. call'[c] = Idle /\ \A d \in Calls \ {c} : call'[d] = call[d]
  BY <1>1 DEF WalletInv, CallsOK
<1>3. RecordKept
  <2>1. PICK n \in Restorable(c) :
          h' = [WithStep(call[c].step, [NoStep EXCEPT !.intent = n,
                                                      !.tx = intents[n].outcome = "ok"])
                  EXCEPT !.history = @ \cup Copies(c, n)]
    BY DEF RetryRestores
  <2> DEFINE s == [NoStep EXCEPT !.intent = n, !.tx = intents[n].outcome = "ok"]
             w == WithStep(call[c].step, s)
  <2>2. n \in 1..Len(intents)
    BY <2>1 DEF Restorable, Numbers
  <2>3. n \in 0..MaxIntents /\ n # 0
    <3>1. Len(intents) \in Nat /\ Len(intents) <= MaxIntents /\ MaxIntents \in Nat
      BY LenProperties, WalletAssumption DEF WalletInv, IntentsOK
    <3> QED BY <2>2, <3>1
  <2>4. s \in DeskSteps /\ s.intent # 0
    BY <2>3 DEF NoStep, DeskSteps
  <2> HIDE DEF s
  <2>5. w \in Records /\ w.step = [h.step EXCEPT ![call[c].step] = s]
    BY <1>0, <2>4, WithStepOK
  <2>6. h' = [w EXCEPT !.history = @ \cup Copies(c, n)]
    BY <2>1 DEF s
  <2> HIDE DEF w
  <2>7. h'.step = [h.step EXCEPT ![call[c].step] = s]
    BY <2>5, <2>6 DEF Records
  <2> QED BY <1>0, <2>4, <2>7, RecordKeptBy
<1> QED BY <1>0, <1>1, <1>2, <1>3, PermissionHarmless

LEMMA ProposesPermission ==
    ASSUME WalletInv, PermissionInv, NEW c \in Calls, RetryProposes(c) PROVE PermissionInv'
<1> PICK p : p = call[c].step
  OBVIOUS
<1> DEFINE n == call[c].n
<1>0. /\ WalletInv' /\ Evolves(intents, intents') /\ call[c] \in CallStates
      /\ UNCHANGED <<chainNonce, orders, faults, intents, h>> /\ call[c].pc = "restore"
      /\ orders' >= orders /\ faults' >= faults /\ Asks(intents, n, p) /\ RecordKept
  <2>1. UNCHANGED <<intents, chainNonce, orders, faults, h>> /\ call[c].pc = "restore"
    BY DEF RetryProposes, counts, At
  <2>2. orders \in Nat /\ faults \in Nat /\ call[c] \in CallStates
    BY DEF WalletInv, CountsOK, CallsOK
  <2>3. Asks(intents, n, p)
    BY <2>1 DEF WalletInv, CallsOK, CallOK
  <2> QED BY <2>1, <2>2, <2>3, HandleOK, EvolvesSame DEF Handle, WalletInv, RecordKept
<1>1. call[c].job = "retry" /\ h.step[p].intent # 0 /\ p \in SetupSteps
      /\ (call[c].dead => ~Live(n))
  BY <1>0 DEF PermissionInv, RequestOK, ProposerOK, RetryOK, At
<1>2. CASE ~call[c].dead
  <2>1. call' = [call EXCEPT ![c] = Idle] /\ Harmless(Idle)
    BY <1>2 DEF RetryProposes, End, Harmless, Idle, ChoosingLabels
  <2>2. call'[c] = Idle /\ \A d \in Calls \ {c} : call'[d] = call[d]
    BY <2>1 DEF WalletInv, CallsOK
  <2> QED BY <1>0, <2>1, <2>2, PermissionHarmless
<1>3. CASE call[c].dead
  <2> DEFINE k == [call[c] EXCEPT !.pc = "list", !.current = TRUE]
  <2>1. call' = [call EXCEPT ![c] = k]
    BY <1>3 DEF RetryProposes, Go
  <2>2. k.pc = "list" /\ k.current /\ k.job = "retry" /\ k.step = p
    BY <1>0, <1>1 DEF CallStates
  <2> HIDE DEF k
  <2>3. call'[c] = k /\ \A d \in Calls \ {c} : call'[d] = call[d]
    BY <2>1 DEF WalletInv, CallsOK
  <2>4. Cardinality(LiveOf(p)) <= Credit
    <3>1. n \in OfKind(p) /\ n \notin LiveOf(p)
      BY <1>0, <1>1, <1>3 DEF OfKind, LiveOf, Asks, Numbers
    <3>2. LiveOf(p) \subseteq Queued(p)
      <4> SUFFICES ASSUME NEW m \in LiveOf(p)
                   PROVE  intents[m].outcome # "ok" /\ intents[m].nonce # chainNonce
        BY DEF Queued
      <4>1. m \in Numbers \ {n} /\ intents[m].kind = p /\ intents[m].status \in Reserving
            /\ intents[m].outcome # "reverted"
        BY <3>1 DEF LiveOf, OfKind, Live, Reserves
      <4>2. m \notin Restorable(c)
        BY DEF RetryProposes
      <4> QED BY <4>1, <4>2 DEF Restorable
    <3>3. Queued(p) = LiveOf(p)
      BY <3>2 DEF Queued
    <3> QED BY <1>1, <3>1, <3>3 DEF PermissionInv, StepOK
  <2>5. ASSUME Credit' >= Credit PROVE RequestOK(c)'
    <3>1. LiveOf(p)' = LiveOf(p)
      BY <1>0 DEF LiveOf, OfKind, Live, Numbers
    <3>2. Cardinality(LiveOf(p)') <= Credit'
      <4>1. Cardinality(LiveOf(p)) \in Nat /\ Credit \in Int /\ Credit' \in Int
        BY <1>0, KindSets, CreditType
      <4> QED BY <2>4, <2>5, <3>1, <4>1
    <3>3. RetryOK(c)'
      BY <1>0, <1>1, <2>2, <2>3, <3>2 DEF RetryOK, At, ChoosingLabels, LiveOf, OfKind, Live
    <3> QED BY <1>1, <2>2, <2>3, <3>3 DEF RequestOK, ProposerOK, TickOK
  <2> QED BY <1>0, <2>2, <2>3, <2>5, PermissionMove
<1> QED BY <1>2, <1>3

-----------------------------------------------------------------------------
LEMMA PlusOne == \A a, x \in Int : a <= x => a + 1 <= x + 1 /\ a + 1 <= 1 + x
OBVIOUS

(* The new intent: a tick's is its permission's first but for the credit,  *)
(* an order's is on the credit of the order, and a retry's is beside live  *)
(* ones that are all on credit.                                            *)
LEMMA CreatesPermission ==
    ASSUME WalletInv, LeaseInv, PermissionInv, NEW c \in Calls, CreatesIntent(c)
    PROVE  PermissionInv'
<1> PICK p : p = call[c].step
  OBVIOUS
<1> DEFINE m == Len(intents) + 1
           j == call[c].job
<1>0. /\ WalletInv' /\ call[c] \in CallStates /\ call[c].pc = "create" /\ Len(intents) \in Nat
      /\ UNCHANGED <<chainNonce, orders, faults, h>> /\ orders \in Nat /\ faults \in Nat
  <2>1. UNCHANGED <<chainNonce, orders, faults, h>> /\ call[c].pc = "create"
    BY DEF CreatesIntent, counts, At
  <2>2. orders \in Nat /\ faults \in Nat /\ call[c] \in CallStates /\ Len(intents) \in Nat
    BY LenProperties DEF WalletInv, CountsOK, CallsOK, IntentsOK
  <2> QED BY <2>1, <2>2, HandleOK DEF Handle
<1>1. /\ Choosing(c) /\ RequestOK(c)
      /\ \/ j = "trade" /\ p = Trade
         \/ j \in {"tick", "retry", "order"} /\ p \in SetupSteps
  BY <1>0 DEF Choosing, ChoosingLabels, PermissionInv, RequestOK, ProposerOK
<1>2. /\ Len(intents') = m /\ \A n \in 1..Len(intents) : intents'[n] = intents[n]
      /\ intents'[m].kind = p /\ intents'[m].nonce = call[c].n
      /\ intents'[m].status = "pending" /\ intents'[m].outcome = "none"
  <2> DEFINE new == [kind |-> p, nonce |-> call[c].n, signed |-> FALSE,
                     status |-> "pending", outcome |-> "none"]
  <2>1. intents' = Append(intents, new) /\ intents \in Seq(Intents)
    BY DEF CreatesIntent, WalletInv, IntentsOK
  <2>2. new \in Intents
    BY <1>0 DEF CallStates, Intents
  <2> HIDE DEF new
  <2>3. /\ Len(intents') = m /\ intents'[m] = new
        /\ \A n \in 1..Len(intents) : intents'[n] = intents[n]
    BY <1>0, <2>1, <2>2, AppendProperties
  <2> QED BY <2>3 DEF new
<1>3. /\ \A d \in Calls \ {c} : call'[d] = call[d]
      /\ \/ j = "trade" /\ call'[c] = Idle
         \/ j # "trade" /\ call'[c].pc = "record" /\ call'[c].job = j /\ call'[c].step = p
  <2> DEFINE k == [call[c] EXCEPT !.pc = "record", !.n = Len(intents) + 1]
  <2>1. k.pc = "record" /\ k.job = j /\ k.step = p
    BY <1>0 DEF CallStates
  <2>2. \/ j = "trade" /\ call' = [call EXCEPT ![c] = Idle]
        \/ j # "trade" /\ call' = [call EXCEPT ![c] = k]
    BY DEF CreatesIntent, Go, End
  <2> HIDE DEF k
  <2> QED BY <2>1, <2>2 DEF WalletInv, CallsOK
<1>4. /\ Credit \in Int /\ Credit' \in Int /\ Credit' >= Credit
      /\ j = "order" => Credit' = Credit + 1
  <2>1. ~(Choosing(c)' /\ call'[c].job = "order")
    BY <1>3 DEF Choosing, ChoosingLabels, Idle
  <2>2. Ordering' => Ordering
    BY <1>3, <2>1 DEF Ordering, Choosing
  <2>3. Credit \in Int /\ Credit' \in Int /\ Credit' >= Credit
    BY <1>0, <2>2, CreditType, CreditGrows
  <2>4. ASSUME j = "order" PROVE Credit' = Credit + 1
    <3>1. Ordering
      BY <1>1, <2>4 DEF Ordering
    <3>2. ~Ordering'
      <4> SUFFICES ASSUME NEW d \in Calls, Choosing(d)', call'[d].job = "order" PROVE FALSE
        BY DEF Ordering
      <4>1. d # c
        BY <2>1
      <4>2. call[d].job = "order"
        BY <1>3, <4>1
      <4>3. busy = c /\ busy = d
        BY <2>4, <4>2 DEF LeaseInv, HolderOK, Leased
      <4> QED BY <4>1, <4>3
    <3>3. Credit = orders + faults - 1 /\ Credit' = orders + faults - 0
      BY <1>0, <3>1, <3>2 DEF Credit
    <3>4. \A a, b \in Nat : a + b - 0 = (a + b - 1) + 1
      OBVIOUS
    <3> QED BY <1>0, <3>3, <3>4
  <2> QED BY <2>3, <2>4
<1>5. \A k : /\ k # p => OfKind(k)' = OfKind(k) /\ LiveOf(k)' = LiveOf(k) /\ Queued(k)' = Queued(k)
             /\ OfKind(p)' = OfKind(p) \cup {m} /\ LiveOf(p)' = LiveOf(p) \cup {m}
             /\ Queued(p)' \subseteq Queued(p) \cup {m}
             /\ call[c].n = chainNonce => Queued(p)' = Queued(p)
             /\ m \notin OfKind(p) /\ m \notin LiveOf(p) /\ m \notin Queued(p)
  <2>1. Numbers' = Numbers \cup {m} /\ m \notin Numbers
    BY <1>0, <1>2 DEF Numbers
  <2>2. \A n \in Numbers : intents'[n] = intents[n]
    BY <1>2 DEF Numbers
  <2>3. Reserves(intents'[m])
    BY <1>2 DEF Reserves, Reserving
  <2> HIDE DEF m
  <2>4. /\ \A k : k # p => OfKind(k)' = OfKind(k)
        /\ OfKind(p)' = OfKind(p) \cup {m} /\ m \notin OfKind(p)
    BY <1>2, <2>1, <2>2 DEF OfKind
  <2>5. \A k : OfKind(k) \subseteq Numbers
    BY DEF OfKind
  <2>6. /\ \A k : k # p => LiveOf(k)' = LiveOf(k)
        /\ LiveOf(p)' = LiveOf(p) \cup {m} /\ m \notin LiveOf(p)
    BY <2>1, <2>2, <2>3, <2>4, <2>5 DEF LiveOf, Live
  <2>7. \A k : LiveOf(k) \subseteq Numbers
    BY <2>5 DEF LiveOf
  <2> QED BY <1>0, <1>2, <2>1, <2>2, <2>4, <2>6, <2>7 DEF Queued
<1>6. \A k : Recording(k) => Recording(k)'
  BY <1>0, <1>3 DEF Recording, At
<1>7. ASSUME NEW k \in SetupSteps, k # p PROVE StepOK(k)'
  <2>1. OfKind(k)' = OfKind(k) /\ LiveOf(k)' = LiveOf(k) /\ Queued(k)' = Queued(k)
    BY <1>5, <1>7
  <2>2. /\ Cardinality(OfKind(k)) \in Nat /\ Cardinality(LiveOf(k)) \in Nat
        /\ Cardinality(Queued(k)) \in Nat
    BY KindSets
  <2>3. /\ Cardinality(LiveOf(k)) <= 1 + Credit
        /\ LiveOf(k) # OfKind(k) => Cardinality(Queued(k)) <= Credit
        /\ h.step[k].intent = 0 =>
              Cardinality(OfKind(k)) <= Credit + (IF Recording(k) THEN 1 ELSE 0)
    BY DEF PermissionInv, StepOK
  <2>4. h.step[k].intent = 0 => Cardinality(OfKind(k)) <= Credit' + (IF Recording(k)' THEN 1 ELSE 0)
    <3> SUFFICES ASSUME h.step[k].intent = 0
                 PROVE  Cardinality(OfKind(k)) <= Credit' + (IF Recording(k)' THEN 1 ELSE 0)
      OBVIOUS
    <3>1. CASE Recording(k)
      BY <1>4, <1>6, <2>2, <2>3, <3>1
    <3>2. CASE ~Recording(k)
      BY <1>4, <2>2, <2>3, <3>2
    <3> QED BY <3>1, <3>2
  <2>5. /\ Cardinality(LiveOf(k)) <= 1 + Credit'
        /\ LiveOf(k) # OfKind(k) => Cardinality(Queued(k)) <= Credit'
    BY <1>4, <2>2, <2>3
  <2> QED BY <1>0, <2>1, <2>4, <2>5 DEF StepOK
<1>8. ASSUME p \in SetupSteps PROVE StepOK(p)'
  <2> DEFINE all == Cardinality(OfKind(p))
             live == Cardinality(LiveOf(p))
             queue == Cardinality(Queued(p))
             allN == Cardinality(OfKind(p)')
             liveN == Cardinality(LiveOf(p)')
             queueN == Cardinality(Queued(p)')
  <2>1. all \in Nat /\ live \in Nat /\ queue \in Nat /\ live <= all
    BY KindSets
  <2>2. allN = all + 1 /\ liveN = live + 1 /\ queueN \in Nat /\ queueN <= queue + 1
        /\ (call[c].n = chainNonce => queueN = queue)
    <3>1. IsFiniteSet(OfKind(p)) /\ IsFiniteSet(LiveOf(p)) /\ IsFiniteSet(Queued(p))
      BY KindSets
    <3>2. allN = all + 1 /\ liveN = live + 1
      <4>1. /\ OfKind(p)' = OfKind(p) \cup {m} /\ m \notin OfKind(p)
            /\ LiveOf(p)' = LiveOf(p) \cup {m} /\ m \notin LiveOf(p)
        BY <1>5
      <4> HIDE DEF m
      <4>2. Cardinality(OfKind(p) \cup {m}) = all + 1
        BY <3>1, <4>1, FS_AddElement
      <4>3. Cardinality(LiveOf(p) \cup {m}) = live + 1
        BY <3>1, <4>1, FS_AddElement
      <4> QED BY <4>1, <4>2, <4>3
    <3>3. Cardinality(Queued(p) \cup {m}) = queue + 1 /\ IsFiniteSet(Queued(p) \cup {m})
      <4> HIDE DEF m
      <4> QED BY <1>5, <3>1, FS_AddElement
    <3>4. queueN \in Nat /\ queueN <= queue + 1
      <4>1. IsFiniteSet(Queued(p)') /\ queueN <= Cardinality(Queued(p) \cup {m})
        BY <1>5, <3>3, FS_Subset
      <4> QED BY <3>3, <4>1, FS_CardinalityType
    <3> QED BY <1>5, <3>2, <3>4
  <2>3. queueN <= liveN /\ (LiveOf(p)' # OfKind(p)' => liveN + 1 <= allN /\ LiveOf(p) # OfKind(p))
    <3>1. /\ Cardinality(Queued(p)') <= Cardinality(LiveOf(p)')
          /\ LiveOf(p)' # OfKind(p)' => Cardinality(LiveOf(p)') + 1 <= Cardinality(OfKind(p)')
      <4>1. /\ IsFiniteSet(OfKind(p)') /\ LiveOf(p)' \subseteq OfKind(p)' /\ Queued(p)' \subseteq LiveOf(p)'
        <5>1. IsFiniteSet(OfKind(p) \cup {m})
          BY KindSets, FS_AddElement
        <5>2. OfKind(p)' = OfKind(p) \cup {m}
          BY <1>5
        <5>3. LiveOf(p)' \subseteq OfKind(p)' /\ Queued(p)' \subseteq LiveOf(p)'
          BY DEF LiveOf, Queued
        <5> QED BY <5>1, <5>2, <5>3
      <4>2. /\ IsFiniteSet(LiveOf(p)') /\ Cardinality(LiveOf(p)') <= Cardinality(OfKind(p)')
            /\ Cardinality(OfKind(p)') = Cardinality(LiveOf(p)') => LiveOf(p)' = OfKind(p)'
        BY <4>1, FS_Subset
      <4>3. Cardinality(Queued(p)') <= Cardinality(LiveOf(p)')
        BY <4>1, <4>2, FS_Subset
      <4> QED BY <2>1, <2>2, <4>2, <4>3
    <3> QED BY <1>5, <3>1
  <2>4. /\ live <= 1 + Credit /\ (LiveOf(p) # OfKind(p) => queue <= Credit)
        /\ h.step[p].intent = 0 => all <= Credit + (IF Recording(p) THEN 1 ELSE 0)
    BY <1>8 DEF PermissionInv, StepOK
  <2> HIDE DEF all, live, queue, allN, liveN, queueN
  <2>5. /\ liveN <= 1 + Credit' /\ (LiveOf(p)' # OfKind(p)' => queueN <= Credit')
        /\ h.step[p].intent = 0 => allN <= Credit' + (IF Recording(p)' THEN 1 ELSE 0)
    <3>1. CASE j = "tick"
      <4>1. all <= Credit
        BY <1>1, <3>1 DEF RequestOK, TickOK, all
      <4>2. Recording(p)'
        BY <1>3, <3>1 DEF Recording, At
      <4>3. all <= Credit' /\ live <= Credit'
        BY <1>4, <2>1, <4>1
      <4>4. allN <= Credit' + 1 /\ liveN <= 1 + Credit'
        <5>1. all \in Int /\ live \in Int /\ Credit' \in Int
          BY <1>4, <2>1
        <5>2. all + 1 <= Credit' + 1 /\ live + 1 <= 1 + Credit'
          BY <4>3, <5>1, PlusOne, Zenon
        <5> QED BY <2>2, <5>2, Zenon
      <4>5. ASSUME LiveOf(p)' # OfKind(p)' PROVE queueN <= Credit'
        <5>1. queueN <= liveN /\ liveN + 1 <= allN
          BY <2>3, <4>5
        <5> QED BY <1>4, <2>1, <2>2, <4>3, <5>1
      <4> QED BY <4>2, <4>4, <4>5
    <3>2. CASE j = "order"
      <4>1. Credit' = Credit + 1
        BY <1>4, <3>2
      <4>2. liveN <= 1 + Credit' /\ (LiveOf(p)' # OfKind(p)' => queueN <= Credit')
        BY <1>4, <2>1, <2>2, <2>3, <2>4, <4>1
      <4>3. ASSUME h.step[p].intent = 0
            PROVE  allN <= Credit' + (IF Recording(p)' THEN 1 ELSE 0)
        <5>1. CASE Recording(p)
          BY <1>4, <1>6, <2>1, <2>2, <2>4, <4>1, <4>3, <5>1
        <5>2. CASE ~Recording(p)
          BY <1>4, <2>1, <2>2, <2>4, <4>1, <4>3, <5>2
        <5> QED BY <5>1, <5>2
      <4> QED BY <4>2, <4>3
    <3>3. CASE j = "retry"
      <4>1. live <= Credit /\ call[c].n = chainNonce /\ h.step[p].intent # 0
        BY <1>0, <1>1, <3>3 DEF RequestOK, RetryOK, At, live
      <4>2. liveN <= 1 + Credit'
        <5>1. live <= Credit' /\ live \in Int /\ Credit' \in Int
          BY <1>4, <2>1, <4>1
        <5>2. live + 1 <= 1 + Credit'
          BY <5>1, PlusOne, Zenon
        <5> QED BY <2>2, <5>2, Zenon
      <4>3. ASSUME LiveOf(p)' # OfKind(p)' PROVE queueN <= Credit'
        <5>1. queue <= Credit /\ queueN = queue
          BY <2>2, <2>3, <2>4, <4>1, <4>3
        <5> QED BY <1>4, <2>1, <5>1
      <4> QED BY <4>1, <4>2, <4>3
    <3>4. j \in {"tick", "order", "retry"}
      BY <1>1, <1>8 DEF SetupSteps, Trade
    <3> QED BY <3>1, <3>2, <3>3, <3>4
  <2> QED BY <1>0, <2>5 DEF StepOK, allN, liveN, queueN
<1>9. ASSUME NEW d \in Calls PROVE RequestOK(d)'
  <2>1. CASE d = c
    <3>1. CASE j # "retry"
      <4>1. Harmless(call'[c])
        BY <1>1, <1>3, <3>1 DEF Harmless, ChoosingLabels, Idle
      <4> QED BY <2>1, <4>1, HarmlessOK
    <3>2. CASE j = "retry"
      <4>1. call'[c].pc = "record" /\ call'[c].job = "retry" /\ call'[c].step = p
        BY <1>3, <3>2
      <4>2. p \in SetupSteps /\ h.step[p].intent # 0
        BY <1>1, <3>2 DEF RequestOK, RetryOK
      <4>3. ~Choosing(c)'
        BY <4>1 DEF Choosing, ChoosingLabels
      <4> QED BY <1>0, <2>1, <4>1, <4>2, <4>3 DEF RequestOK, ProposerOK, TickOK, RetryOK, At
    <3> QED BY <3>1, <3>2
  <2>2. CASE d # c
    <3> PICK q : q = call[d].step
      OBVIOUS
    <3>1. call'[d] = call[d] /\ RequestOK(d) /\ call'[d].step = q
      BY <1>3, <2>2 DEF PermissionInv
    <3>2. ASSUME call[d].job \in {"tick", "retry"}, q \in SetupSteps
          PROVE  q # p
      <4> SUFFICES ASSUME p \in SetupSteps PROVE FALSE
        BY <3>2
      <4>1. j \in Leased /\ call[d].job \in Leased
        BY <1>1, <3>2 DEF Leased, SetupSteps, Trade
      <4>2. busy = c /\ busy = d
        BY <4>1 DEF LeaseInv, HolderOK
      <4> QED BY <2>2, <4>2
    <3>3. ProposerOK(d)'
      BY <3>1 DEF RequestOK, ProposerOK, Choosing
    <3>4. TickOK(d)'
      <4> SUFFICES ASSUME Choosing(d), call[d].job = "tick"
                   PROVE  Cardinality(OfKind(q)') <= Credit'
        BY <3>1 DEF TickOK, Choosing, OfKind
      <4>1. q \in SetupSteps /\ Cardinality(OfKind(q)) <= Credit
        BY <3>1 DEF RequestOK, ProposerOK, TickOK
      <4>2. OfKind(q)' = OfKind(q)
        BY <1>5, <3>2, <4>1
      <4>3. Cardinality(OfKind(q)) \in Nat
        BY KindSets
      <4> QED BY <1>4, <4>1, <4>2, <4>3
    <3>5. RetryOK(d)'
      <4> SUFFICES ASSUME call[d].job = "retry" PROVE RetryOK(d)'
        BY <3>1 DEF RetryOK
      <4>1. /\ call[d].pc \in ChoosingLabels \cup {"review", "restore", "record"}
            /\ q \in SetupSteps /\ h.step[q].intent # 0
            /\ call[d].pc = "create" => call[d].n = chainNonce
        BY <3>1 DEF RequestOK, RetryOK, At
      <4>2. call[d].pc = "restore" /\ call[d].dead => ~Live(call[d].n)'
        <5> SUFFICES ASSUME call[d].pc = "restore", ~Live(call[d].n)
                     PROVE  ~Reserves(intents'[call[d].n])
          BY <3>1 DEF RequestOK, RetryOK, At, Live
        <5>1. call[d].n \in 1..Len(intents)
          BY DEF WalletInv, CallsOK, CallOK, Asks
        <5> QED BY <1>2, <5>1 DEF Live
      <4>3. Choosing(d) => call[d].current /\ Cardinality(LiveOf(q)') <= Credit'
        <5> SUFFICES ASSUME Choosing(d)
                     PROVE  call[d].current /\ Cardinality(LiveOf(q)') <= Credit'
          OBVIOUS
        <5>1. call[d].current /\ Cardinality(LiveOf(q)) <= Credit
          BY <3>1 DEF RequestOK, RetryOK
        <5>2. LiveOf(q)' = LiveOf(q)
          BY <1>5, <3>2, <4>1
        <5>3. Cardinality(LiveOf(q)) \in Nat
          BY KindSets
        <5> QED BY <1>4, <5>1, <5>2, <5>3
      <4> QED BY <1>0, <3>1, <4>1, <4>2, <4>3 DEF RetryOK, At, Choosing, LiveOf, OfKind, Live
    <3> QED BY <3>3, <3>4, <3>5 DEF RequestOK
  <2> QED BY <2>1, <2>2
<1> QED BY <1>7, <1>8, <1>9 DEF PermissionInv

LEMMA HandlePermission ==
    ASSUME WalletInv, LeaseInv, PermissionInv, NEW c \in Calls, Handle(c) PROVE PermissionInv'
BY OperatorPermission, SyncPermission, AfterSyncPermission, RecordsPermission, ListsPermission,
   ChoosesPermission, CreatesPermission, ReviewsPermission, RestoresPermission, ProposesPermission
   DEF Handle

-----------------------------------------------------------------------------
(* The quorum, Hedera and failures *)

(* The transaction that uses up the nonce is live, so no other live intent *)
(* of the wallet waited for that nonce, and no proposal had chosen it.     *)
LEMMA HederaPermission ==
    ASSUME WalletInv, QueueInv, SentInv, PermissionInv, NEW n \in Numbers, HederaStep(n)
    PROVE  PermissionInv'
<1>0. /\ WalletInv' /\ Evolves(intents, intents') /\ faults \in Nat
      /\ UNCHANGED <<call, h, orders>> /\ faults' \in {faults, faults + 1} /\ faults' >= faults
  <2>1. UNCHANGED <<call, h, orders>> /\ faults' \in {faults, faults + 1}
    BY DEF HederaStep, TradeBroadcast, Mines, Drops, counts
  <2>2. faults \in Nat
    BY DEF WalletInv, CountsOK
  <2> QED BY <2>1, <2>2, HederaOK, HederaEvolves
<1>1. CASE UNCHANGED chainNonce
  BY <1>0, <1>1, QueueShrinks, PermissionStill
<1>2. CASE chainNonce' # chainNonce
  <2>1. /\ intents[n].outcome = "sent" /\ intents[n].nonce = chainNonce
        /\ \E o \in {"ok", "reverted"} : intents' = [intents EXCEPT ![n].outcome = o]
    BY <1>2 DEF HederaStep, TradeBroadcast, Mines, Drops
  <2>2. Live(n)
    BY <2>1 DEF SentInv, Live, Reserves, Reserving
  <2>3. /\ \A m \in Numbers \ {n} : intents'[m] = intents[m]
        /\ intents'[n].outcome = "ok" \/ intents'[n].outcome = "reverted"
    BY <1>0, <2>1, OutcomeChanges
  <2>4. ASSUME NEW k \in SetupSteps PROVE Queued(k)' \subseteq Queued(k)
    <3> SUFFICES ASSUME NEW x \in Queued(k)' PROVE x \in Queued(k)
      OBVIOUS
    <3>1. x \in LiveOf(k)' /\ intents'[x].outcome # "ok"
      BY DEF Queued
    <3>2. x \in LiveOf(k) /\ x \in Numbers
      BY <1>0, <3>1, KindsEvolve DEF LiveOf, OfKind
    <3>3. x # n
      BY <2>3, <3>1 DEF LiveOf, Live, Reserves
    <3>4. intents[x].outcome # "ok" /\ Live(x)
      BY <2>3, <3>1, <3>2, <3>3 DEF LiveOf
    <3>5. intents[x].nonce # chainNonce
      BY <2>1, <2>2, <3>2, <3>3, <3>4 DEF QueueInv, NoSharedNonce
    <3> QED BY <3>2, <3>4, <3>5 DEF Queued
  <2>5. ASSUME NEW c \in Calls, call[c].pc = "create", call[c].job = "retry" PROVE FALSE
    <3>1. call[c].n = chainNonce
      BY <2>5 DEF PermissionInv, RequestOK, RetryOK, At
    <3>2. intents[n].nonce # call[c].n
      BY <2>2, <2>5 DEF QueueInv, ViewsOK, NonceFits, Numbers, Live
    <3> QED BY <2>1, <3>1, <3>2
  <2> QED BY <1>0, <2>4, <2>5, PermissionStill
<1> QED BY <1>1, <1>2

LEMMA QuorumPermission ==
    ASSUME WalletInv, PermissionInv, NEW n \in Numbers, QuorumStep(n) PROVE PermissionInv'
<1>1. /\ WalletInv' /\ Evolves(intents, intents')
      /\ UNCHANGED <<chainNonce, call, h, orders, faults>>
  BY QuorumOK, QuorumEvolves DEF QuorumStep, TraderSigns, Cosigns, RejectedOrExpires, counts
<1>2. faults' >= faults
  BY <1>1 DEF WalletInv, CountsOK
<1> QED BY <1>1, <1>2, QueueShrinks, PermissionStill

LEMMA FailsPermission ==
    ASSUME WalletInv, PermissionInv, NEW c \in Calls, Fails(c) PROVE PermissionInv'
<1>1. /\ call' = [call EXCEPT ![c] = Idle] /\ UNCHANGED <<chainNonce, intents, h, orders>>
      /\ faults' = faults + 1 /\ Harmless(Idle) /\ Idle.job = "none"
  BY DEF Fails, End, Harmless, Idle, ChoosingLabels
<1>2. faults' >= faults + 1 /\ faults' >= faults
  BY <1>1 DEF WalletInv, CountsOK
<1>3. call'[c] = Idle /\ \A d \in Calls \ {c} : call'[d] = call[d]
  BY <1>1 DEF WalletInv, CallsOK
<1>4. WalletInv' /\ Evolves(intents, intents') /\ RecordKept
  BY <1>1, FailsOK, EvolvesSame DEF WalletInv, RecordKept
<1> QED BY <1>1, <1>2, <1>3, <1>4, PermissionHarmless

LEMMA PermissionInit == ASSUME Init PROVE SentInv /\ PermissionInv
<1>1. Numbers = {} /\ \A c \in Calls : call[c] = Idle
  BY EmptySeq DEF Init, Numbers
<1>2. Idle.pc = "idle" /\ Idle.job = "none"
  BY DEF Idle
<1>3. SentInv
  BY <1>1, <1>2 DEF SentInv, At
<1>4. \A c \in Calls : Harmless(call[c]) /\ ~Choosing(c)
  BY <1>1, <1>2 DEF Harmless, Choosing, ChoosingLabels
<1>5. \A c \in Calls : RequestOK(c)
  BY <1>4 DEF Harmless, RequestOK, ProposerOK, TickOK, RetryOK, Choosing, At
<1>6. Credit = 0
  <2>1. ~Ordering /\ orders = 0 /\ faults = 0
    BY <1>4 DEF Ordering, Init
  <2>2. Credit = orders + faults - 0
    BY <2>1 DEF Credit
  <2> QED BY <2>1, <2>2
<1>7. ASSUME NEW k \in SetupSteps PROVE StepOK(k)
  <2>1. OfKind(k) = {} /\ LiveOf(k) = {} /\ Queued(k) = {}
    BY <1>1 DEF OfKind, LiveOf, Queued
  <2>2. Cardinality({}) = 0
    BY FS_EmptySet
  <2> QED BY <1>6, <2>1, <2>2 DEF StepOK
<1> QED BY <1>3, <1>5, <1>7 DEF PermissionInv

LEMMA PermissionStep ==
    ASSUME WalletInv, QueueInv, LeaseInv, SentInv, PermissionInv, [Next]_vars
    PROVE  PermissionInv'
<1>1. CASE UNCHANGED vars
  <2>1. /\ WalletInv' /\ Evolves(intents, intents') /\ faults' >= faults
        /\ UNCHANGED <<chainNonce, call, h, orders>>
    BY <1>1, WalletStep, EvolvesSame DEF vars, WalletInv, CountsOK
  <2> QED BY <2>1, QueueShrinks, PermissionStill
<1> QED BY <1>1, BeginsPermission, HandlePermission, FailsPermission, QuorumPermission,
           HederaPermission, NextCases

(* A permission has one live or confirmed intent, and one more for each    *)
(* that an administrator ordered or that a failure kept from the record:   *)
(* for any number of ticks, retries and reconciliations, in any order.     *)
THEOREM WalletPermissionSafety == Spec => []OnePermissionPerStep
<1> DEFINE Inv == WalletInv /\ QueueInv /\ LeaseInv /\ SentInv /\ PermissionInv
<1>1. Init => Inv
  BY InitOK, QueueInit, LeaseInit, PermissionInit
<1>2. Inv /\ [Next]_vars => Inv'
  BY WalletStep, QueueStep, LeaseStep, SentStep, PermissionStep
<1>3. Inv => OnePermissionPerStep
  <2> SUFFICES ASSUME Inv, NEW k \in SetupSteps
               PROVE  Cardinality({n \in Numbers : intents[n].kind = k /\ Live(n)})
                         <= 1 + orders + faults
    BY DEF OnePermissionPerStep
  <2>1. {n \in Numbers : intents[n].kind = k /\ Live(n)} = LiveOf(k)
    BY DEF LiveOf, OfKind
  <2>2. Cardinality(LiveOf(k)) <= 1 + Credit /\ Cardinality(LiveOf(k)) \in Nat
    BY KindSets DEF PermissionInv, StepOK
  <2>3. orders \in Nat /\ faults \in Nat
    BY DEF WalletInv, CountsOK
  <2>4. Credit \in {orders + faults - 1, orders + faults - 0}
    BY DEF Credit
  <2>5. \A a, b \in Nat : /\ a + b - 1 \in Int /\ a + b - 0 \in Int
                          /\ 1 + (a + b - 1) <= 1 + a + b /\ 1 + (a + b - 0) <= 1 + a + b
    OBVIOUS
  <2>6. 1 + Credit <= 1 + orders + faults /\ Credit \in Int
    BY <2>3, <2>4, <2>5
  <2> QED BY <2>1, <2>2, <2>3, <2>6
<1> HIDE DEF Inv
<1> QED BY <1>1, <1>2, <1>3, PTL DEF Spec
=============================================================================
