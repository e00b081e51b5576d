------------------------- MODULE AssignmentsProofs -------------------------
(***************************************************************************)
(* Safety of Assignments, for every value of the constants, with files and *)
(* with Redis.                                                             *)
(*                                                                         *)
(* A record of a trade exists in many copies: the document, what each      *)
(* instance has cached of it, the snapshots on their way to Redis and the  *)
(* answers on their way back, and the copy each request works on.  The     *)
(* invariant says that every one of them is true of what happened outside: *)
(* stale perhaps, but it never names an instruction, a message or an       *)
(* approval that is not there, or is another trade's or the other side's.  *)
(***************************************************************************)
EXTENDS Assignments, SequenceTheorems, FiniteSetTheorems, TLAPS

-----------------------------------------------------------------------------
(* What a copy says, and what there is: the instructions E, the intents I  *)
(* and the anchored instructions A.                                        *)

Instructions == [trade : Trades, state : EngineStates, approved : SUBSET Side]
Approvals == [instr : Nat, side : Side, status : {"pending", "executed"}]
WorldOK ==
    /\ engine \in Seq(Instructions) /\ intents \in Seq(Approvals)
    /\ \A n \in 1..Len(intents) : intents[n].instr \in 1..Len(engine)
    /\ anchored \subseteq 1..Len(engine)

IsOf(n, x, E) == n \in 1..Len(E) /\ E[n].trade = x
AsksFor(k, n, side, I) == k \in 1..Len(I) /\ I[k].instr = n /\ I[k].side = side
TrueRecord(x, t, E, I, A) ==
    /\ t.id # 0 => IsOf(t.id, x, E)
    /\ t.anchored => t.id # 0 /\ t.id \in A
    /\ \A s \in Side : t.intent[s] # 0 => t.anchored /\ AsksFor(t.intent[s], t.id, s, I)
    /\ t.consent = "granted" => \A s \in Side : t.intent[s] # 0
TrueDocs(E, I, A) ==
    {d \in [Trades -> Records] : \A x \in Trades : TrueRecord(x, d[x], E, I, A)}

StoreOK ==
    LET docs == TrueDocs(engine, intents, anchored) IN
    /\ durable \in docs \cup {Unset} /\ (Hosted \/ durable \in docs)
    /\ cache \in [Instances -> docs \cup {Unset}]
    /\ outbox \in [Instances -> Seq(docs)]
    /\ answer \in [Instances -> docs \cup {Unset, NoAnswer}]

(* What the answer to the step under way will add is true as well. *)
TrueAnswer(k, E, I, A) ==
    IF k.t.id = 0 THEN IsOf(k.got, k.trade, E)
    ELSE IF ~k.t.anchored THEN k.t.id \in A
    ELSE Unproposed(k.t) # {} /\ AsksFor(k.got, k.t.id, NextSide(k.t), I)
Granted == {"authorize", "seller", "buyer", "engine", "write"}
CallStates == [job : {"none", "route", "tick", "load"}, inst : Instances \cup {NoInstance},
               trade : Trades \cup {NoTrade}, pc : Labels, t : Records, got : Nat]
CallOK(k, E, I, A) ==
    k.pc # "idle" =>
        /\ k.inst \in Instances /\ k.trade \in Trades
        /\ TrueRecord(k.trade, k.t, E, I, A)
        /\ k.pc = "save" => TrueAnswer(k, E, I, A)
        /\ k.pc \in Granted => k.t.consent = "granted"
CallsOK ==
    /\ call \in [Calls -> CallStates]
    /\ \A c \in Calls : CallOK(call[c], engine, intents, anchored)
(* A request runs on an instance that has read the document. *)
ReadsOK ==
    \A c \in Calls : call[c].pc # "idle" =>
        Read(call[c].inst) \in TrueDocs(engine, intents, anchored)
CountsOK ==
    /\ busy \in Calls \cup {NoInstance} /\ accepted \subseteq Trades
    /\ loads \in 0..MaxPageLoads /\ faults \in 0..MaxFaults
RecordInv == WorldOK /\ StoreOK /\ CallsOK /\ ReadsOK /\ CountsOK

-----------------------------------------------------------------------------
(* The world only grows *)

Grows(E, I, A, E2, I2, A2) ==
    /\ Len(E) <= Len(E2) /\ \A n \in 1..Len(E) : E2[n].trade = E[n].trade
    /\ Len(I) <= Len(I2)
    /\ \A n \in 1..Len(I) : I2[n].instr = I[n].instr /\ I2[n].side = I[n].side
    /\ A \subseteq A2
WorldGrows == WorldOK' /\ Grows(engine, intents, anchored, engine', intents', anchored')

LEMMA Lengths == ASSUME WorldOK PROVE Len(engine) \in Nat /\ Len(intents) \in Nat
BY LenProperties DEF WorldOK
LEMMA LengthsNext == ASSUME WorldOK' PROVE Len(engine') \in Nat /\ Len(intents') \in Nat
BY LenProperties DEF WorldOK

LEMMA SameWorld ==
    ASSUME WorldOK, UNCHANGED <<engine, intents, anchored>> PROVE WorldGrows
BY Lengths DEF WorldGrows, WorldOK, Grows

LEMMA RecordStays ==
    ASSUME WorldOK, WorldGrows, NEW x, NEW t, TrueRecord(x, t, engine, intents, anchored)
    PROVE  TrueRecord(x, t, engine', intents', anchored')
<1>1. /\ Len(engine) \in Nat /\ Len(intents) \in Nat
      /\ Len(engine') \in Nat /\ Len(intents') \in Nat
  BY Lengths, LengthsNext DEF WorldGrows
<1>2. \A n : IsOf(n, x, engine) => IsOf(n, x, engine')
  BY <1>1 DEF IsOf, WorldGrows, Grows
<1>3. \A k, n, s : AsksFor(k, n, s, intents) => AsksFor(k, n, s, intents')
  BY <1>1 DEF AsksFor, WorldGrows, Grows
<1>4. anchored \subseteq anchored'
  BY DEF WorldGrows, Grows
<1> QED BY <1>2, <1>3, <1>4 DEF TrueRecord

LEMMA DocsStay ==
    ASSUME WorldOK, WorldGrows
    PROVE  TrueDocs(engine, intents, anchored) \subseteq TrueDocs(engine', intents', anchored')
BY RecordStays DEF TrueDocs

LEMMA CallStays ==
    ASSUME WorldOK, WorldGrows, NEW k, CallOK(k, engine, intents, anchored)
    PROVE  CallOK(k, engine', intents', anchored')
<1>1. /\ Len(engine) \in Nat /\ Len(intents) \in Nat
      /\ Len(engine') \in Nat /\ Len(intents') \in Nat
  BY Lengths, LengthsNext DEF WorldGrows
<1>2. TrueAnswer(k, engine, intents, anchored) => TrueAnswer(k, engine', intents', anchored')
  BY <1>1 DEF TrueAnswer, IsOf, AsksFor, WorldGrows, Grows
<1> QED BY <1>2, RecordStays DEF CallOK

LEMMA StoreStays ==
    ASSUME WorldOK, WorldGrows, StoreOK, UNCHANGED docVars PROVE StoreOK'
<1> DEFINE old == TrueDocs(engine, intents, anchored)
           new == TrueDocs(engine', intents', anchored')
<1>1. old \subseteq new
  BY DocsStay
<1> HIDE DEF old, new
<1>2. \A i \in Instances : outbox[i] \in Seq(new)
  BY <1>1, SeqMonotonic DEF StoreOK, old
<1>3. outbox \in [Instances -> Seq(new)]
  BY <1>2 DEF StoreOK
<1>4. /\ durable \in new \cup {Unset} /\ (Hosted \/ durable \in new)
      /\ cache \in [Instances -> new \cup {Unset}]
      /\ answer \in [Instances -> new \cup {Unset, NoAnswer}]
  BY <1>1 DEF StoreOK, old
<1> QED BY <1>3, <1>4 DEF StoreOK, docVars, new

(* A step outside the documents: one request may move. *)
LEMMA WorkStep ==
    ASSUME RecordInv, WorldGrows, CountsOK', UNCHANGED docVars, NEW c \in Calls,
           NEW k \in CallStates, CallOK(k, engine', intents', anchored'),
           k.pc # "idle" => Read(k.inst) \in TrueDocs(engine, intents, anchored),
           call' = [call EXCEPT ![c] = k]
    PROVE  RecordInv'
<1>1. call' \in [Calls -> CallStates] /\ call'[c] = k
      /\ \A d \in Calls \ {c} : call'[d] = call[d]
  BY DEF RecordInv, CallsOK
<1>2. ASSUME NEW d \in Calls PROVE CallOK(call'[d], engine', intents', anchored')
  <2>1. CASE d = c
    BY <1>1, <2>1
  <2>2. CASE d # c
    BY <1>1, <2>2, CallStays DEF RecordInv, CallsOK
  <2> QED BY <2>1, <2>2
<1>3. CallsOK'
  BY <1>1, <1>2 DEF CallsOK
<1>4. ReadsOK'
  <2>1. ASSUME NEW d \in Calls, call'[d].pc # "idle"
        PROVE  Read(call'[d].inst) \in TrueDocs(engine, intents, anchored)
    BY <1>1, <2>1 DEF RecordInv, ReadsOK
  <2>2. ASSUME NEW d \in Calls, call'[d].pc # "idle"
        PROVE  Read(call[d].inst)' \in TrueDocs(engine', intents', anchored')
    <3>1. Read(call'[d].inst) \in TrueDocs(engine', intents', anchored')
      BY <2>1, <2>2, DocsStay DEF RecordInv
    <3> QED BY <3>1 DEF Read, docVars
  <2> QED BY <2>2 DEF ReadsOK
<1>5. StoreOK'
  BY StoreStays DEF RecordInv
<1> QED BY <1>3, <1>4, <1>5 DEF RecordInv, WorldGrows

LEMMA OutsideStep ==
    ASSUME RecordInv, WorldGrows, CountsOK', UNCHANGED <<docVars, call>> PROVE RecordInv'
<1>1. CallsOK'
  BY CallStays DEF RecordInv, CallsOK
<1>2. ReadsOK'
  <2>1. ASSUME NEW d \in Calls, call[d].pc # "idle"
        PROVE  Read(call[d].inst)' \in TrueDocs(engine', intents', anchored')
    <3>1. Read(call[d].inst) \in TrueDocs(engine', intents', anchored')
      BY <2>1, DocsStay DEF RecordInv, ReadsOK
    <3> QED BY <3>1 DEF Read, docVars
  <2> QED BY <2>1 DEF ReadsOK
<1>3. StoreOK'
  BY StoreStays DEF RecordInv, docVars
<1> QED BY <1>1, <1>2, <1>3 DEF RecordInv, WorldGrows

-----------------------------------------------------------------------------
(* Writing the document *)

LEMMA Written ==
    ASSUME RecordInv, UNCHANGED <<engine, intents, anchored>>, NEW i \in Instances,
           NEW doc \in TrueDocs(engine, intents, anchored), Write(i, doc)
    PROVE  /\ StoreOK'
           /\ \A j \in Instances : Read(j) \in TrueDocs(engine, intents, anchored)
                 => Read(j)' \in TrueDocs(engine, intents, anchored)
<1> DEFINE docs == TrueDocs(engine, intents, anchored)
<1>1. docs' = docs
  OBVIOUS
<1> HIDE DEF docs
<1>2. /\ durable \in docs \cup {Unset} /\ (Hosted \/ durable \in docs)
      /\ cache \in [Instances -> docs \cup {Unset}] /\ outbox \in [Instances -> Seq(docs)]
      /\ answer \in [Instances -> docs \cup {Unset, NoAnswer}] /\ doc \in docs
  BY DEF RecordInv, StoreOK, docs
<1>3. CASE Hosted
  <2>1. /\ cache' = [cache EXCEPT ![i] = doc] /\ outbox' = [outbox EXCEPT ![i] = Append(@, doc)]
        /\ UNCHANGED <<durable, answer>>
    BY <1>3 DEF Write
  <2>2. Append(outbox[i], doc) \in Seq(docs)
    BY <1>2, AppendProperties
  <2>3. cache' \in [Instances -> docs \cup {Unset}] /\ outbox' \in [Instances -> Seq(docs)]
    BY <1>2, <2>1, <2>2
  <2>4. StoreOK'
    BY <1>1, <1>2, <1>3, <2>1, <2>3 DEF StoreOK, docs
  <2>5. \A j \in Instances : Read(j) \in docs => Read(j)' \in docs
    BY <1>2, <1>3, <2>1 DEF Read
  <2> QED BY <2>4, <2>5 DEF docs
<1>4. CASE ~Hosted
  <2>1. durable' = doc /\ UNCHANGED <<cache, outbox, answer>>
    BY <1>4 DEF Write
  <2>2. StoreOK'
    BY <1>1, <1>2, <2>1 DEF StoreOK, docs
  <2>3. \A j \in Instances : Read(j) \in docs => Read(j)' \in docs
    BY <1>2, <1>4, <2>1 DEF Read
  <2> QED BY <2>2, <2>3 DEF docs
<1> QED BY <1>3, <1>4

(* Requests may move once the documents are seen to stay true. *)
LEMMA DocsStep ==
    ASSUME RecordInv, UNCHANGED <<engine, intents, anchored>>, StoreOK', CountsOK',
           call' \in [Calls -> CallStates],
           \A d \in Calls : call'[d].pc # "idle" =>
               /\ CallOK(call'[d], engine, intents, anchored)
               /\ Read(call[d].inst)' \in TrueDocs(engine, intents, anchored)
    PROVE  RecordInv'
<1>1. WorldOK'
  BY DEF RecordInv, WorldOK
<1>2. ASSUME NEW d \in Calls PROVE CallOK(call'[d], engine, intents, anchored)
  BY DEF CallOK
<1>3. CallsOK'
  BY <1>2 DEF CallsOK
<1>4. ReadsOK'
  BY DEF ReadsOK, Read
<1> QED BY <1>1, <1>3, <1>4 DEF RecordInv

LEMMA WriteStep ==
    ASSUME RecordInv, UNCHANGED <<engine, intents, anchored>>, CountsOK', NEW i \in Instances,
           NEW doc \in TrueDocs(engine, intents, anchored), Write(i, doc),
           Read(i) \in TrueDocs(engine, intents, anchored),
           NEW c \in Calls, NEW k \in CallStates, CallOK(k, engine, intents, anchored),
           k.pc # "idle" => k.inst = i, call' = [call EXCEPT ![c] = k]
    PROVE  RecordInv'
<1>1. call' \in [Calls -> CallStates] /\ call'[c] = k
      /\ \A d \in Calls \ {c} : call'[d] = call[d]
  BY DEF RecordInv, CallsOK
<1>2. ASSUME NEW d \in Calls, call'[d].pc # "idle"
      PROVE  /\ CallOK(call'[d], engine, intents, anchored)
             /\ call'[d].inst \in Instances
             /\ Read(call'[d].inst) \in TrueDocs(engine, intents, anchored)
  <2>1. CASE d = c
    BY <1>1, <1>2, <2>1
  <2>2. CASE d # c
    BY <1>1, <1>2, <2>2 DEF RecordInv, CallsOK, ReadsOK, CallOK
  <2> QED BY <2>1, <2>2
<1>3. ASSUME NEW d \in Calls, call'[d].pc # "idle"
      PROVE  Read(call[d].inst)' \in TrueDocs(engine, intents, anchored)
  <2>1. call'[d].inst \in Instances
        /\ Read(call'[d].inst) \in TrueDocs(engine, intents, anchored)
    BY <1>2, <1>3
  <2>2. \A j \in Instances : Read(j) \in TrueDocs(engine, intents, anchored)
           => Read(j)' \in TrueDocs(engine, intents, anchored)
    BY Written
  <2> QED BY <2>1, <2>2 DEF Read
<1>4. StoreOK'
  BY Written
<1> QED BY <1>1, <1>2, <1>3, <1>4, DocsStep

(* The document with one true record in it. *)
LEMMA OneRecord ==
    ASSUME NEW doc \in TrueDocs(engine, intents, anchored), NEW x \in Trades, NEW t \in Records,
           TrueRecord(x, t, engine, intents, anchored)
    PROVE  [doc EXCEPT ![x] = t] \in TrueDocs(engine, intents, anchored)
BY DEF TrueDocs

LEMMA AbsentOK ==
    \A x, E, I, A : /\ Absent \in Records /\ Accepted \in Records
                    /\ TrueRecord(x, Absent, E, I, A) /\ TrueRecord(x, Accepted, E, I, A)
<1>1. Absent \in Records /\ Accepted \in Records
  BY DEF Absent, Accepted, Records
<1>2. /\ Absent.id = 0 /\ ~Absent.anchored /\ Absent.consent = "none"
      /\ Accepted.id = 0 /\ ~Accepted.anchored /\ Accepted.consent = "pending"
      /\ \A s \in Side : Absent.intent[s] = 0 /\ Accepted.intent[s] = 0
  BY DEF Absent, Accepted
<1> QED BY <1>1, <1>2 DEF TrueRecord

LEMMA IdleOK == \A E, I, A : Idle \in CallStates /\ CallOK(Idle, E, I, A) /\ Idle.pc = "idle"
BY AbsentOK DEF Idle, CallStates, CallOK, Labels

LEMMA WarmReads ==
    ASSUME RecordInv, NEW i \in Instances, Warm(i)
    PROVE  Read(i) \in TrueDocs(engine, intents, anchored)
BY DEF RecordInv, StoreOK, Warm, Read

LEMMA ReadRecord ==
    ASSUME NEW doc \in TrueDocs(engine, intents, anchored), NEW x \in Trades
    PROVE  doc[x] \in Records /\ TrueRecord(x, doc[x], engine, intents, anchored)
BY DEF TrueDocs

(* What a request that is under way knows. *)
LEMMA Working ==
    ASSUME RecordInv, NEW c \in Calls, call[c].pc # "idle"
    PROVE  /\ call[c] \in CallStates /\ CallOK(call[c], engine, intents, anchored)
           /\ call[c].inst \in Instances /\ call[c].trade \in Trades /\ call[c].t \in Records
           /\ TrueRecord(call[c].trade, call[c].t, engine, intents, anchored)
           /\ Read(call[c].inst) \in TrueDocs(engine, intents, anchored)
<1>1. call[c] \in CallStates /\ CallOK(call[c], engine, intents, anchored)
  BY DEF RecordInv, CallsOK
<1> QED BY <1>1 DEF CallOK, RecordInv, ReadsOK, CallStates

-----------------------------------------------------------------------------
(* Consent *)

LEMMA AcceptOK ==
    ASSUME RecordInv, NEW i \in Instances, NEW x \in Trades, Accept(i, x) PROVE RecordInv'
<1> DEFINE doc == [Read(i) EXCEPT ![x] = Accepted]
<1>1. Read(i) \in TrueDocs(engine, intents, anchored)
  BY WarmReads DEF Accept
<1>2. doc \in TrueDocs(engine, intents, anchored)
  BY <1>1, AbsentOK, OneRecord
<1>3. Write(i, doc) /\ UNCHANGED <<engine, intents, anchored, call>>
  BY DEF Accept, chainVars
<1> HIDE DEF doc
<1>4. CountsOK'
  BY DEF RecordInv, CountsOK, Accept
<1>5. ASSUME NEW d \in Calls, call[d].pc # "idle"
      PROVE  Read(call[d].inst)' \in TrueDocs(engine, intents, anchored)
  <2>1. call[d].inst \in Instances /\ Read(call[d].inst) \in TrueDocs(engine, intents, anchored)
    BY <1>5, Working
  <2>2. \A j \in Instances : Read(j) \in TrueDocs(engine, intents, anchored)
           => Read(j)' \in TrueDocs(engine, intents, anchored)
    BY <1>1, <1>2, <1>3, Written
  <2> QED BY <1>3, <2>1, <2>2 DEF Read
<1>6. StoreOK'
  BY <1>2, <1>3, Written
<1> QED BY <1>3, <1>4, <1>5, <1>6, DocsStep DEF RecordInv, CallsOK

LEMMA BeginConsentOK ==
    ASSUME RecordInv, NEW c \in Calls, NEW i \in Instances, NEW x \in Trades,
           NEW job \in {"route", "tick"}, BeginConsent(c, i, x, job)
    PROVE  RecordInv'
<1> DEFINE k == [job |-> job, inst |-> i, trade |-> x, pc |-> "effect", t |-> Read(i)[x], got |-> 0]
<1>1. Read(i) \in TrueDocs(engine, intents, anchored)
  BY WarmReads DEF BeginConsent
<1>2. Read(i)[x] \in Records /\ TrueRecord(x, Read(i)[x], engine, intents, anchored)
  BY <1>1, ReadRecord
<1>3. k \in CallStates /\ CallOK(k, engine, intents, anchored) /\ k.inst = i
  BY <1>2 DEF CallStates, CallOK, Labels, Granted
<1>4. call' = [call EXCEPT ![c] = k] /\ UNCHANGED <<docVars, engine, intents, anchored>>
  BY DEF BeginConsent, chainVars
<1>5. CountsOK'
  BY DEF BeginConsent, RecordInv, CountsOK
<1> HIDE DEF k
<1>6. WorldGrows
  BY <1>4, SameWorld DEF RecordInv
<1>7. CallOK(k, engine', intents', anchored')
  BY <1>3, <1>4
<1> QED BY <1>1, <1>3, <1>4, <1>5, <1>6, <1>7, WorkStep

LEMMA CreateInstructionOK ==
    ASSUME RecordInv, NEW c \in Calls, CreateInstruction(c) PROVE RecordInv'
<1> DEFINE m == Len(engine) + 1
           new == [trade |-> call[c].trade, state |-> "AwaitingApprovals", approved |-> {}]
           k == [call[c] EXCEPT !.pc = "save", !.got = m]
<1>1. /\ call[c] \in CallStates /\ CallOK(call[c], engine, intents, anchored)
      /\ call[c].inst \in Instances /\ call[c].trade \in Trades /\ call[c].t.id = 0
      /\ TrueRecord(call[c].trade, call[c].t, engine, intents, anchored)
      /\ Read(call[c].inst) \in TrueDocs(engine, intents, anchored)
  BY Working DEF CreateInstruction, At, T
<1>2. new \in Instructions /\ engine' = Append(engine, new) /\ UNCHANGED <<intents, anchored>>
  BY <1>1 DEF CreateInstruction, Instructions, EngineStates
<1>3. /\ engine' \in Seq(Instructions) /\ Len(engine') = m /\ engine'[m] = new
      /\ \A n \in 1..Len(engine) : engine'[n] = engine[n]
      /\ Len(engine) \in Nat /\ Len(intents) \in Nat
  BY <1>2, AppendProperties, Lengths DEF RecordInv, WorldOK
<1>4. new.trade = call[c].trade
  OBVIOUS
<1> HIDE DEF new
<1>5. WorldGrows
  BY <1>2, <1>3 DEF WorldGrows, WorldOK, Grows, RecordInv
<1>6. IsOf(m, call[c].trade, engine') /\ m \in Nat
  BY <1>3, <1>4 DEF IsOf
<1> HIDE DEF m
<1>7. /\ k \in CallStates /\ k.pc = "save" /\ k.got = m /\ k.inst = call[c].inst
      /\ k.t = call[c].t /\ k.trade = call[c].trade
  BY <1>1, <1>6 DEF CallStates, Labels
<1>8. CallOK(k, engine', intents', anchored')
  <2>1. TrueRecord(k.trade, k.t, engine', intents', anchored')
    BY <1>1, <1>5, <1>7, RecordStays DEF RecordInv
  <2>2. TrueAnswer(k, engine', intents', anchored')
    BY <1>1, <1>6, <1>7 DEF TrueAnswer
  <2> HIDE DEF k
  <2> QED BY <1>1, <1>7, <2>1, <2>2 DEF CallOK, Granted
<1>9. call' = [call EXCEPT ![c] = k] /\ UNCHANGED docVars
  BY DEF CreateInstruction, m
<1>10. CountsOK'
  BY DEF CreateInstruction, RecordInv, CountsOK
<1> HIDE DEF k
<1> QED BY <1>1, <1>5, <1>7, <1>8, <1>9, <1>10, WorkStep
LEMMA AnchorInstructionOK ==
    ASSUME RecordInv, NEW c \in Calls, AnchorInstruction(c) PROVE RecordInv'
<1> DEFINE k == [call[c] EXCEPT !.pc = "save"]
<1>1. /\ call[c] \in CallStates /\ call[c].t \in Records
      /\ call[c].inst \in Instances /\ call[c].trade \in Trades
      /\ call[c].t.id # 0 /\ ~call[c].t.anchored
      /\ TrueRecord(call[c].trade, call[c].t, engine, intents, anchored)
      /\ Read(call[c].inst) \in TrueDocs(engine, intents, anchored)
  BY Working DEF AnchorInstruction, At, T
<1>2. call[c].t.id \in 1..Len(engine)
  BY <1>1 DEF TrueRecord, IsOf
<1>3. /\ anchored' = anchored \cup {call[c].t.id} /\ UNCHANGED <<engine, intents>>
      /\ call' = [call EXCEPT ![c] = k] /\ UNCHANGED docVars
  BY DEF AnchorInstruction, T, Goto
<1>4. WorldGrows
  BY <1>2, <1>3, Lengths DEF WorldGrows, WorldOK, Grows, RecordInv
<1>5. /\ k \in CallStates /\ k.pc = "save" /\ k.inst = call[c].inst
      /\ k.t = call[c].t /\ k.trade = call[c].trade
  BY <1>1 DEF CallStates, Labels
<1>6. CallOK(k, engine', intents', anchored')
  <2>1. TrueRecord(k.trade, k.t, engine', intents', anchored')
    BY <1>1, <1>4, <1>5, RecordStays DEF RecordInv
  <2>2. TrueAnswer(k, engine', intents', anchored')
    BY <1>1, <1>3, <1>5 DEF TrueAnswer
  <2> HIDE DEF k
  <2> QED BY <1>1, <1>5, <2>1, <2>2 DEF CallOK, Granted
<1>7. CountsOK'
  BY DEF AnchorInstruction, RecordInv, CountsOK
<1> HIDE DEF k
<1> QED BY <1>1, <1>3, <1>4, <1>5, <1>6, <1>7, WorkStep

LEMMA NextSideOK ==
    ASSUME NEW t \in Records, Unproposed(t) # {}
    PROVE  /\ NextSide(t) \in Unproposed(t) /\ NextSide(t) \in Side
           /\ Cardinality(Unproposed(t)) = 1 => Unproposed(t) = {NextSide(t)}
<1>1. NextSide(t) \in Unproposed(t)
  BY DEF NextSide, Unproposed, Side
<1>2. ASSUME Cardinality(Unproposed(t)) = 1 PROVE Unproposed(t) = {NextSide(t)}
  <2>1. Unproposed(t) \subseteq Side /\ IsFiniteSet(Side)
    <3>1. IsFiniteSet({"seller", "buyer"})
      <4>1. {"seller", "buyer"} = {"seller"} \cup {"buyer"}
        OBVIOUS
      <4>2. IsFiniteSet({"seller"}) /\ IsFiniteSet({"buyer"})
        BY FS_Singleton
      <4> QED BY <4>1, <4>2, FS_Union
    <3> QED BY <3>1 DEF Unproposed, Side
  <2>2. IsFiniteSet(Unproposed(t))
    BY <2>1, FS_Subset
  <2>3. \E s : Unproposed(t) = {s}
    BY <1>2, <2>2, FS_Singleton
  <2> QED BY <1>1, <2>3
<1> QED BY <1>1, <1>2 DEF Unproposed

LEMMA ProposeApprovalOK ==
    ASSUME RecordInv, NEW c \in Calls, ProposeApproval(c) PROVE RecordInv'
<1> DEFINE m == Len(intents) + 1
           side == NextSide(call[c].t)
           new == [instr |-> call[c].t.id, side |-> side, status |-> "pending"]
           k == [call[c] EXCEPT !.pc = "save", !.got = m]
<1>1. /\ call[c] \in CallStates /\ call[c].t \in Records
      /\ call[c].inst \in Instances /\ call[c].trade \in Trades
      /\ call[c].t.id # 0 /\ call[c].t.anchored /\ Unproposed(call[c].t) # {}
      /\ TrueRecord(call[c].trade, call[c].t, engine, intents, anchored)
      /\ Read(call[c].inst) \in TrueDocs(engine, intents, anchored)
  BY Working DEF ProposeApproval, At, T
<1>2. side \in Side
  BY <1>1, NextSideOK
<1>3. call[c].t.id \in 1..Len(engine) /\ call[c].t.id \in Nat
  BY <1>1 DEF TrueRecord, IsOf, Records
<1>4. intents' = Append(intents, new) /\ UNCHANGED <<engine, anchored, docVars>>
      /\ call' = [call EXCEPT ![c] = k]
  BY DEF ProposeApproval, T
<1> HIDE DEF side
<1>5. new \in Approvals /\ new.instr = call[c].t.id /\ new.side = side
  BY <1>2, <1>3 DEF Approvals
<1> HIDE DEF new
<1>6. /\ intents' \in Seq(Approvals) /\ Len(intents') = m /\ intents'[m] = new
      /\ \A n \in 1..Len(intents) : intents'[n] = intents[n]
      /\ Len(engine) \in Nat /\ Len(intents) \in Nat
  BY <1>4, <1>5, AppendProperties, Lengths DEF RecordInv, WorldOK
<1>7. \A n \in 1..Len(intents') : intents'[n].instr \in 1..Len(engine')
  BY <1>3, <1>4, <1>5, <1>6 DEF RecordInv, WorldOK
<1>8. WorldGrows
  BY <1>4, <1>6, <1>7 DEF WorldGrows, WorldOK, Grows, RecordInv
<1>9. AsksFor(m, call[c].t.id, side, intents') /\ m \in Nat
  BY <1>5, <1>6 DEF AsksFor
<1> HIDE DEF m
<1>10. /\ k \in CallStates /\ k.pc = "save" /\ k.got = m /\ k.inst = call[c].inst
       /\ k.t = call[c].t /\ k.trade = call[c].trade
  BY <1>1, <1>9 DEF CallStates, Labels
<1>11. CallOK(k, engine', intents', anchored')
  <2>1. TrueRecord(k.trade, k.t, engine', intents', anchored')
    BY <1>1, <1>8, <1>10, RecordStays DEF RecordInv
  <2>2. TrueAnswer(k, engine', intents', anchored')
    BY <1>1, <1>9, <1>10 DEF TrueAnswer, side
  <2> HIDE DEF k
  <2> QED BY <1>1, <1>10, <2>1, <2>2 DEF CallOK, Granted
<1>12. CountsOK'
  BY DEF ProposeApproval, RecordInv, CountsOK
<1> HIDE DEF k
<1> QED BY <1>1, <1>4, <1>8, <1>10, <1>11, <1>12, WorkStep

(* What is saved after a step of the consent is a true record. *)
LEMMA EffectOK ==
    ASSUME NEW x \in Trades, NEW t \in Records, NEW got \in Nat,
           TrueRecord(x, t, engine, intents, anchored),
           TrueAnswer([trade |-> x, t |-> t, got |-> got], engine, intents, anchored)
    PROVE  /\ AfterEffect(t, got) \in Records
           /\ TrueRecord(x, AfterEffect(t, got), engine, intents, anchored)
<1>0. t.id # 0 /\ t.anchored => Unproposed(t) # {}
  BY DEF TrueAnswer
<1>1. CASE t.id = 0
  <2>1. AfterEffect(t, got) = [t EXCEPT !.id = got, !.state = "PreparingApprovals"]
    BY <1>1 DEF AfterEffect
  <2>2. ~t.anchored /\ \A s \in Side : t.intent[s] = 0
    BY <1>1 DEF TrueRecord
  <2>3. got # 0 => IsOf(got, x, engine)
    BY <1>1 DEF TrueAnswer
  <2> QED BY <2>1, <2>2, <2>3 DEF TrueRecord, Records
<1>2. CASE t.id # 0 /\ ~t.anchored
  <2>1. AfterEffect(t, got) = [t EXCEPT !.anchored = TRUE]
    BY <1>2 DEF AfterEffect
  <2>2. t.id \in anchored
    BY <1>2 DEF TrueAnswer
  <2> QED BY <1>2, <2>1, <2>2 DEF TrueRecord, Records
<1>3. CASE t.id # 0 /\ t.anchored
  <2> DEFINE side == NextSide(t)
             u == AfterEffect(t, got)
             last == Cardinality(Unproposed(t)) = 1
  <2>1. side \in Side /\ side \in Unproposed(t) /\ (last => Unproposed(t) = {side})
    BY <1>0, <1>3, NextSideOK
  <2>2. u = [t EXCEPT !.intent[side] = got,
                !.consent = IF last THEN "granted" ELSE @,
                !.state = IF last THEN "AwaitingApprovals" ELSE @]
    BY <1>3 DEF AfterEffect
  <2>3. AsksFor(got, t.id, side, intents)
    BY <1>3 DEF TrueAnswer
  <2>4. got # 0
    BY <2>3 DEF AsksFor
  <2> HIDE DEF side, u, last
  <2>5. /\ t.intent \in [Side -> Nat] /\ u \in Records /\ u.id = t.id /\ u.anchored
        /\ u.intent = [t.intent EXCEPT ![side] = got]
        /\ u.consent = IF last THEN "granted" ELSE t.consent
    BY <1>3, <2>1, <2>2 DEF Records, EngineStates
  <2>6. \A s \in Side : u.intent[s] # 0 => AsksFor(u.intent[s], u.id, s, intents)
    BY <2>1, <2>3, <2>5 DEF TrueRecord
  <2>7. ASSUME u.consent = "granted", NEW s \in Side PROVE u.intent[s] # 0
    <3>1. last
      BY <2>1, <2>5, <2>7 DEF TrueRecord, Unproposed
    <3> QED BY <3>1, <2>1, <2>4, <2>5 DEF Unproposed
  <2>8. TrueRecord(x, u, engine, intents, anchored)
    BY <1>3, <2>5, <2>6, <2>7 DEF TrueRecord
  <2> QED BY <2>5, <2>8 DEF u
<1> QED BY <1>1, <1>2, <1>3

LEMMA SaveConsentOK ==
    ASSUME RecordInv, NEW c \in Calls, SaveConsent(c) PROVE RecordInv'
<1> DEFINE u == AfterEffect(call[c].t, call[c].got)
           next == IF u.consent = "granted" THEN "authorize" ELSE "effect"
           k == [call[c] EXCEPT !.t = u, !.got = 0, !.pc = next]
           doc == [Read(call[c].inst) EXCEPT ![call[c].trade] = u]
<1>1. /\ call[c] \in CallStates /\ CallOK(call[c], engine, intents, anchored)
      /\ call[c].inst \in Instances /\ call[c].trade \in Trades /\ call[c].t \in Records
      /\ TrueRecord(call[c].trade, call[c].t, engine, intents, anchored)
      /\ Read(call[c].inst) \in TrueDocs(engine, intents, anchored)
      /\ call[c].pc = "save" /\ call[c].got \in Nat
  BY Working DEF SaveConsent, At, CallStates
<1>2. TrueAnswer([trade |-> call[c].trade, t |-> call[c].t, got |-> call[c].got],
                 engine, intents, anchored)
  BY <1>1 DEF CallOK, TrueAnswer
<1>3. u \in Records /\ TrueRecord(call[c].trade, u, engine, intents, anchored)
  BY <1>1, <1>2, EffectOK
<1>4. Write(call[c].inst, doc) /\ call' = [call EXCEPT ![c] = k]
      /\ UNCHANGED <<engine, intents, anchored>>
  BY DEF SaveConsent, Saved, Here, T, chainVars
<1> HIDE DEF u
<1>5. doc \in TrueDocs(engine, intents, anchored)
  BY <1>1, <1>3, OneRecord
<1>6. next \in {"authorize", "effect"} /\ (next = "authorize" => u.consent = "granted")
  OBVIOUS
<1> HIDE DEF next, doc
<1>7. /\ k \in CallStates /\ k.inst = call[c].inst /\ k.trade = call[c].trade
      /\ k.t = u /\ k.pc = next
  BY <1>1, <1>3, <1>6 DEF CallStates, Labels
<1> HIDE DEF k
<1>8. CallOK(k, engine, intents, anchored)
  BY <1>1, <1>3, <1>6, <1>7 DEF CallOK, Granted
<1>9. CountsOK'
  BY DEF SaveConsent, RecordInv, CountsOK
<1> QED BY <1>1, <1>4, <1>5, <1>7, <1>8, <1>9, WriteStep

(* A request that moves on with the same copy. *)
LEMMA MovesOn ==
    ASSUME RecordInv, WorldGrows, CountsOK', UNCHANGED docVars, NEW c \in Calls,
           call[c].pc \in Granted, NEW pc \in Granted,
           NEW t \in Records, TrueRecord(call[c].trade, t, engine, intents, anchored),
           t.consent = "granted",
           call' = [call EXCEPT ![c] = [call[c] EXCEPT !.pc = pc, !.t = t]]
    PROVE  RecordInv'
<1> DEFINE k == [call[c] EXCEPT !.pc = pc, !.t = t]
<1>1. /\ call[c] \in CallStates /\ call[c].inst \in Instances /\ call[c].trade \in Trades
      /\ Read(call[c].inst) \in TrueDocs(engine, intents, anchored)
  BY Working DEF Granted
<1>2. pc \in Labels /\ pc # "save"
  BY DEF Labels, Granted
<1>3. /\ k \in CallStates /\ k.pc = pc /\ k.inst = call[c].inst /\ k.t = t
      /\ k.trade = call[c].trade
  BY <1>1, <1>2 DEF CallStates
<1> HIDE DEF k
<1>4. CallOK(k, engine, intents, anchored)
  BY <1>1, <1>2, <1>3 DEF CallOK
<1>5. CallOK(k, engine', intents', anchored')
  BY <1>4, CallStays DEF RecordInv
<1>6. call' = [call EXCEPT ![c] = k]
  BY DEF k
<1> QED BY <1>1, <1>3, <1>5, <1>6, WorkStep

(* What a request that reconciles knows. *)
LEMMA Reconciling ==
    ASSUME RecordInv, NEW c \in Calls, call[c].pc \in Granted
    PROVE  /\ call[c] \in CallStates /\ call[c].t \in Records /\ call[c].trade \in Trades
           /\ TrueRecord(call[c].trade, call[c].t, engine, intents, anchored)
           /\ call[c].t.consent = "granted"
           /\ call[c].t.id \in 1..Len(engine) /\ engine[call[c].t.id].trade = call[c].trade
           /\ \A s \in Side : AsksFor(call[c].t.intent[s], call[c].t.id, s, intents)
           /\ call[c] = [call[c] EXCEPT !.t = call[c].t]
<1>1. /\ call[c] \in CallStates /\ CallOK(call[c], engine, intents, anchored)
      /\ call[c].t \in Records /\ call[c].trade \in Trades
      /\ TrueRecord(call[c].trade, call[c].t, engine, intents, anchored)
  BY Working DEF Granted
<1>2. call[c].t.consent = "granted"
  BY <1>1 DEF CallOK, Granted
<1>3. /\ \A s \in Side : AsksFor(call[c].t.intent[s], call[c].t.id, s, intents)
      /\ call[c].t.anchored
  BY <1>1, <1>2 DEF TrueRecord, Side
<1>4. IsOf(call[c].t.id, call[c].trade, engine)
  BY <1>1, <1>3 DEF TrueRecord
<1>5. call[c] = [call[c] EXCEPT !.t = call[c].t]
  BY <1>1 DEF CallStates
<1> QED BY <1>1, <1>2, <1>3, <1>4, <1>5 DEF IsOf

LEMMA AuthorizeSidesOK ==
    ASSUME RecordInv, NEW c \in Calls, AuthorizeSides(c) PROVE RecordInv'
<1> DEFINE signs(n) == /\ \E s \in Automated \ call[c].t.sent : call[c].t.intent[s] = n
                       /\ intents[n].status = "pending"
           signed(n) == IF signs(n) THEN [intents[n] EXCEPT !.status = "executed"]
                        ELSE intents[n]
<1>1. call[c].pc \in Granted
  BY DEF AuthorizeSides, At, Granted
<1>2. /\ intents' = [n \in 1..Len(intents) |-> signed(n)]
      /\ call' = [call EXCEPT ![c].pc = "seller"] /\ UNCHANGED <<engine, anchored, docVars>>
  BY DEF AuthorizeSides, T, Goto
<1>3. Len(intents) \in Nat /\ intents \in Seq(Approvals)
  BY Lengths DEF RecordInv, WorldOK
<1>4. \A n \in 1..Len(intents) : intents[n] \in Approvals
  BY <1>3, ElementOfSeq
<1>5. \A n \in 1..Len(intents) : /\ signed(n) \in Approvals
                                 /\ signed(n).instr = intents[n].instr
                                 /\ signed(n).side = intents[n].side
  BY <1>4 DEF Approvals
<1> HIDE DEF signed
<1>6. /\ intents' \in Seq(Approvals) /\ Len(intents') = Len(intents)
      /\ \A n \in 1..Len(intents) : intents'[n] = signed(n)
  <2>1. intents' \in [1..Len(intents) -> Approvals]
    BY <1>2, <1>5
  <2>2. intents' \in Seq(Approvals)
    BY <1>3, <2>1, SeqDef
  <2>3. DOMAIN intents' = 1..Len(intents) /\ DOMAIN intents' = 1..Len(intents')
        /\ Len(intents') \in Nat
    BY <2>1, <2>2, LenProperties
  <2> QED BY <1>2, <1>3, <2>2, <2>3
<1>7. WorldGrows
  BY <1>2, <1>3, <1>5, <1>6, Lengths DEF WorldGrows, WorldOK, Grows, RecordInv
<1>8. CountsOK'
  BY DEF AuthorizeSides, RecordInv, CountsOK
<1>9. /\ call[c] \in CallStates /\ call[c].t \in Records /\ call[c].t.consent = "granted"
      /\ TrueRecord(call[c].trade, call[c].t, engine, intents, anchored)
      /\ call[c] = [call[c] EXCEPT !.t = call[c].t]
  BY <1>1, Reconciling
<1>10. call' = [call EXCEPT ![c] = [call[c] EXCEPT !.pc = "seller", !.t = call[c].t]]
  <2>1. [call[c] EXCEPT !.pc = "seller"] = [call[c] EXCEPT !.pc = "seller", !.t = call[c].t]
    BY <1>9 DEF CallStates
  <2> QED BY <1>2, <2>1
<1>11. "seller" \in Granted
  BY DEF Granted
<1> QED BY <1>1, <1>2, <1>7, <1>8, <1>9, <1>10, <1>11, MovesOn

-----------------------------------------------------------------------------
(* Reconciliation *)

LEMMA BeginSyncOK ==
    ASSUME RecordInv, NEW c \in Calls, NEW i \in Instances, NEW x \in Trades,
           NEW job \in {"load", "tick"}, BeginSync(c, i, x, job)
    PROVE  RecordInv'
<1> DEFINE pc == IF job = "tick" THEN "authorize" ELSE "seller"
           k == [job |-> job, inst |-> i, trade |-> x, t |-> Read(i)[x], got |-> 0, pc |-> pc]
<1>1. Read(i) \in TrueDocs(engine, intents, anchored)
  BY WarmReads DEF BeginSync
<1>2. /\ Read(i)[x] \in Records /\ TrueRecord(x, Read(i)[x], engine, intents, anchored)
      /\ Read(i)[x].consent = "granted"
  BY <1>1, ReadRecord DEF BeginSync, Open
<1>3. call' = [call EXCEPT ![c] = k] /\ UNCHANGED <<docVars, engine, intents, anchored>>
  BY DEF BeginSync, chainVars
<1>4. pc \in {"authorize", "seller"}
  OBVIOUS
<1> HIDE DEF pc
<1>5. k \in CallStates /\ CallOK(k, engine, intents, anchored) /\ k.inst = i
  BY <1>2, <1>4 DEF CallStates, CallOK, Labels, Granted
<1>6. CountsOK'
  <2>1. MaxPageLoads \in Nat
    BY AssignmentsAssumption
  <2> QED BY <2>1 DEF BeginSync, RecordInv, CountsOK
<1> HIDE DEF k
<1>7. WorldGrows
  BY <1>3, SameWorld DEF RecordInv
<1>8. CallOK(k, engine', intents', anchored')
  BY <1>3, <1>5
<1> QED BY <1>1, <1>3, <1>5, <1>6, <1>7, <1>8, WorkStep

(* An engine whose instructions are the same but for their state. *)
LEMMA EngineGrows ==
    ASSUME WorldOK, engine' \in Seq(Instructions), Len(engine') = Len(engine),
           \A n \in 1..Len(engine) : engine'[n].trade = engine[n].trade,
           UNCHANGED <<intents, anchored>>
    PROVE  WorldGrows
BY Lengths DEF WorldGrows, WorldOK, Grows

LEMMA ApproveOK ==
    ASSUME WorldOK, NEW n \in 1..Len(engine), NEW side \in Side
    PROVE  /\ Approve(n, side) \in Seq(Instructions)
           /\ Len(Approve(n, side)) = Len(engine)
           /\ \A m \in 1..Len(engine) : Approve(n, side)[m].trade = engine[m].trade
<1> DEFINE done == engine[n].approved \cup {side}
           s == IF done = Side THEN "Scheduled" ELSE engine[n].state
           e == [engine[n] EXCEPT !.approved = done, !.state = s]
<1>2. engine[n] \in Instructions /\ engine \in Seq(Instructions) /\ Len(engine) \in Nat
  BY Lengths, ElementOfSeq DEF WorldOK
<1>1. Approve(n, side) = engine \/ Approve(n, side) = [engine EXCEPT ![n] = e]
  BY Zenon DEF Approve
<1>3. s \in EngineStates /\ done \in SUBSET Side
  BY <1>2 DEF Instructions, EngineStates
<1> HIDE DEF s, done
<1>4. e \in Instructions /\ e.trade = engine[n].trade
  BY <1>2, <1>3 DEF Instructions
<1> HIDE DEF e
<1>5. /\ [engine EXCEPT ![n] = e] \in Seq(Instructions)
      /\ Len([engine EXCEPT ![n] = e]) = Len(engine)
      /\ \A m \in 1..Len(engine) : [engine EXCEPT ![n] = e][m] = IF m = n THEN e ELSE engine[m]
  BY <1>2, <1>4, ExceptSeq
<1> QED BY <1>1, <1>2, <1>4, <1>5

LEMMA SyncSideOK ==
    ASSUME RecordInv, NEW c \in Calls, NEW side \in Side, SyncSide(c, side) PROVE RecordInv'
<1> DEFINE n == call[c].t.intent[side]
           ready == side \notin call[c].t.sent /\ n # 0 /\ intents[n].status = "executed"
           sent == IF ready THEN call[c].t.sent \cup {side} ELSE call[c].t.sent
           pc == IF side = "seller" THEN "buyer" ELSE "engine"
           u == [call[c].t EXCEPT !.sent = sent]
<1>1. call[c].pc \in Granted
  BY DEF SyncSide, At, Granted, Side
<1>2. /\ call[c] \in CallStates /\ call[c].t \in Records /\ call[c].t.consent = "granted"
      /\ TrueRecord(call[c].trade, call[c].t, engine, intents, anchored)
      /\ call[c].t.id \in 1..Len(engine)
  BY <1>1, Reconciling
<1>3. /\ engine' = IF ready THEN Approve(call[c].t.id, side) ELSE engine
      /\ call' = [call EXCEPT ![c].pc = pc, ![c].t.sent = sent]
      /\ UNCHANGED <<intents, anchored, docVars>>
  BY DEF SyncSide, T
<1>4. sent \in SUBSET Side
  BY <1>2 DEF Records
<1>5. WorldGrows
  <2>1. CASE ready
    BY <1>2, <1>3, <2>1, ApproveOK, EngineGrows DEF RecordInv
  <2>2. CASE ~ready
    BY <1>3, <2>2, SameWorld DEF RecordInv
  <2> QED BY <2>1, <2>2
<1>6. pc \in Granted
  BY DEF Granted
<1> HIDE DEF ready, sent, pc
<1>7. /\ u \in Records /\ u.id = call[c].t.id /\ u.anchored = call[c].t.anchored
      /\ u.intent = call[c].t.intent /\ u.consent = call[c].t.consent
  BY <1>2, <1>4 DEF Records
<1> HIDE DEF u
<1>8. TrueRecord(call[c].trade, u, engine, intents, anchored)
  BY <1>2, <1>7 DEF TrueRecord
<1>9. call' = [call EXCEPT ![c] = [call[c] EXCEPT !.pc = pc, !.t = u]]
  BY <1>2, <1>3 DEF u, CallStates, Records, RecordInv, CallsOK
<1>11. u.consent = "granted"
  BY <1>2, <1>7
<1>10. CountsOK'
  BY DEF SyncSide, RecordInv, CountsOK
<1> QED BY <1>1, <1>3, <1>5, <1>6, <1>7, <1>8, <1>9, <1>10, <1>11, MovesOn

LEMMA SyncSideFailsOK ==
    ASSUME RecordInv, NEW c \in Calls, NEW side \in Side, SyncSideFails(c, side)
    PROVE  RecordInv'
<1> DEFINE pc == IF side = "seller" THEN "buyer" ELSE "engine"
<1>1. call[c].pc \in Granted
  BY DEF SyncSideFails, At, Granted, Side
<1>2. /\ call[c] \in CallStates /\ call[c].t \in Records /\ call[c].t.consent = "granted"
      /\ TrueRecord(call[c].trade, call[c].t, engine, intents, anchored)
      /\ call[c].t.id \in 1..Len(engine)
  BY <1>1, Reconciling
<1>3. /\ engine' \in {engine, Approve(call[c].t.id, side)}
      /\ call' = [call EXCEPT ![c].pc = pc] /\ UNCHANGED <<intents, anchored, docVars>>
  BY DEF SyncSideFails, T, Goto
<1>4. WorldGrows
  <2>1. CASE engine' = engine
    BY <1>3, <2>1, SameWorld DEF RecordInv
  <2>2. CASE engine' = Approve(call[c].t.id, side)
    BY <1>2, <1>3, <2>2, ApproveOK, EngineGrows DEF RecordInv
  <2> QED BY <1>3, <2>1, <2>2
<1>5. pc \in Granted
  BY DEF Granted
<1>6. call' = [call EXCEPT ![c] = [call[c] EXCEPT !.pc = pc, !.t = call[c].t]]
  BY <1>2, <1>3 DEF CallStates
<1>7. CountsOK'
  <2>1. MaxFaults \in Nat
    BY AssignmentsAssumption
  <2> QED BY <2>1 DEF SyncSideFails, RecordInv, CountsOK
<1> HIDE DEF pc
<1> QED BY <1>1, <1>2, <1>3, <1>4, <1>5, <1>6, <1>7, MovesOn

LEMMA SyncEngineOK ==
    ASSUME RecordInv, NEW c \in Calls, SyncEngine(c) PROVE RecordInv'
<1> DEFINE s == engine[call[c].t.id].state
           u == [call[c].t EXCEPT !.state = s]
<1>1. call[c].pc \in Granted
  BY DEF SyncEngine, At, Granted
<1>2. /\ call[c] \in CallStates /\ call[c].t \in Records /\ call[c].t.consent = "granted"
      /\ TrueRecord(call[c].trade, call[c].t, engine, intents, anchored)
      /\ call[c].t.id \in 1..Len(engine)
  BY <1>1, Reconciling
<1>3. /\ call' = [call EXCEPT ![c].t.state = s, ![c].pc = "write"]
      /\ UNCHANGED <<engine, intents, anchored, docVars>>
  BY DEF SyncEngine, T, chainVars
<1>4. s \in EngineStates
  <2>1. engine[call[c].t.id] \in Instructions
    BY <1>2, ElementOfSeq DEF RecordInv, WorldOK
  <2> QED BY <2>1 DEF Instructions
<1> HIDE DEF s
<1>5. /\ u \in Records /\ u.id = call[c].t.id /\ u.anchored = call[c].t.anchored
      /\ u.intent = call[c].t.intent /\ u.consent = call[c].t.consent
  BY <1>2, <1>4 DEF Records
<1> HIDE DEF u
<1>6. TrueRecord(call[c].trade, u, engine, intents, anchored)
  BY <1>2, <1>5 DEF TrueRecord
<1>7. call' = [call EXCEPT ![c] = [call[c] EXCEPT !.pc = "write", !.t = u]]
  BY <1>2, <1>3 DEF u, CallStates, Records, RecordInv, CallsOK
<1>8. WorldGrows
  BY <1>3, SameWorld DEF RecordInv
<1>11. u.consent = "granted"
  BY <1>2, <1>5
<1>9. CountsOK'
  BY DEF SyncEngine, RecordInv, CountsOK
<1>10. "write" \in Granted
  BY DEF Granted
<1> QED BY <1>1, <1>3, <1>5, <1>6, <1>7, <1>8, <1>9, <1>10, <1>11, MovesOn

LEMMA SyncEngineFailsOK ==
    ASSUME RecordInv, NEW c \in Calls, SyncEngineFails(c) PROVE RecordInv'
<1>1. call[c].pc \in Granted
  BY DEF SyncEngineFails, At, Granted
<1>2. /\ call[c] \in CallStates /\ call[c].t \in Records /\ call[c].t.consent = "granted"
      /\ TrueRecord(call[c].trade, call[c].t, engine, intents, anchored)
  BY <1>1, Reconciling
<1>3. /\ call' = [call EXCEPT ![c].pc = "write"]
      /\ UNCHANGED <<engine, intents, anchored, docVars>>
  BY DEF SyncEngineFails, Goto, chainVars
<1>4. call' = [call EXCEPT ![c] = [call[c] EXCEPT !.pc = "write", !.t = call[c].t]]
  BY <1>2, <1>3 DEF CallStates
<1>5. WorldGrows
  BY <1>3, SameWorld DEF RecordInv
<1>6. CountsOK'
  <2>1. MaxFaults \in Nat
    BY AssignmentsAssumption
  <2> QED BY <2>1 DEF SyncEngineFails, RecordInv, CountsOK
<1>7. "write" \in Granted
  BY DEF Granted
<1> QED BY <1>1, <1>2, <1>3, <1>4, <1>5, <1>6, <1>7, MovesOn

(* A request that ends. *)
LEMMA EndsOK ==
    ASSUME RecordInv, UNCHANGED <<docVars, engine, intents, anchored>>, CountsOK',
           NEW c \in Calls, call' = [call EXCEPT ![c] = Idle]
    PROVE  RecordInv'
<1>1. Idle \in CallStates /\ CallOK(Idle, engine', intents', anchored') /\ Idle.pc = "idle"
  BY IdleOK
<1>2. WorldGrows
  BY SameWorld DEF RecordInv
<1> QED BY <1>1, <1>2, WorkStep

LEMMA SyncWriteOK ==
    ASSUME RecordInv, NEW c \in Calls, SyncWrite(c) PROVE RecordInv'
<1> DEFINE doc == [Read(call[c].inst) EXCEPT ![call[c].trade] = call[c].t]
<1>1. /\ UNCHANGED <<engine, intents, anchored>> /\ call' = [call EXCEPT ![c] = Idle]
      /\ Write(call[c].inst, doc) \/ UNCHANGED docVars
  BY DEF SyncWrite, Saved, Here, T, chainVars
<1>2. CountsOK'
  BY DEF SyncWrite, Release, RecordInv, CountsOK
<1>3. /\ call[c].inst \in Instances /\ Read(call[c].inst) \in TrueDocs(engine, intents, anchored)
      /\ call[c].trade \in Trades /\ call[c].t \in Records
      /\ TrueRecord(call[c].trade, call[c].t, engine, intents, anchored)
  BY Working DEF SyncWrite, At
<1>4. doc \in TrueDocs(engine, intents, anchored)
  BY <1>3, OneRecord
<1> HIDE DEF doc
<1>5. CASE Write(call[c].inst, doc)
  <2>1. Idle \in CallStates /\ CallOK(Idle, engine, intents, anchored) /\ Idle.pc = "idle"
    BY IdleOK
  <2> QED BY <1>1, <1>2, <1>3, <1>4, <1>5, <2>1, WriteStep
<1>6. CASE UNCHANGED docVars
  BY <1>1, <1>2, <1>6, EndsOK
<1> QED BY <1>1, <1>5, <1>6

-----------------------------------------------------------------------------
(* Signatures, settlement, failures *)

LEMMA HumanSignsOK ==
    ASSUME RecordInv, NEW n \in 1..Len(intents), HumanSigns(n) PROVE RecordInv'
<1> DEFINE k == [intents[n] EXCEPT !.status = "executed"]
<1>1. intents[n] \in Approvals /\ intents \in Seq(Approvals) /\ Len(intents) \in Nat
  BY Lengths, ElementOfSeq DEF RecordInv, WorldOK
<1>2. /\ intents' = [intents EXCEPT ![n].status = "executed"]
      /\ UNCHANGED <<docVars, call, engine, anchored>>
  BY DEF HumanSigns
<1>3. k \in Approvals /\ k.instr = intents[n].instr /\ k.side = intents[n].side
  BY <1>1 DEF Approvals
<1>4. intents' = [intents EXCEPT ![n] = k]
  BY <1>1, <1>2
<1> HIDE DEF k
<1>5. /\ intents' \in Seq(Approvals) /\ Len(intents') = Len(intents)
      /\ \A m \in 1..Len(intents) : intents'[m] = IF m = n THEN k ELSE intents[m]
  BY <1>1, <1>3, <1>4, ExceptSeq
<1>6. WorldGrows
  BY <1>1, <1>2, <1>3, <1>5, Lengths DEF WorldGrows, WorldOK, Grows, RecordInv
<1>7. CountsOK'
  BY DEF HumanSigns, RecordInv, CountsOK
<1> QED BY <1>2, <1>6, <1>7, OutsideStep

LEMMA EngineMovesOK ==
    ASSUME RecordInv, NEW n \in 1..Len(engine), NEW s \in EngineStates, EngineMoves(n, s)
    PROVE  RecordInv'
<1> DEFINE e == [engine[n] EXCEPT !.state = s]
<1>1. engine[n] \in Instructions /\ engine \in Seq(Instructions)
  BY ElementOfSeq DEF RecordInv, WorldOK
<1>2. /\ engine' = [engine EXCEPT ![n].state = s]
      /\ UNCHANGED <<docVars, call, intents, anchored>>
  BY DEF EngineMoves
<1>3. e \in Instructions /\ e.trade = engine[n].trade
  BY <1>1 DEF Instructions
<1>4. engine' = [engine EXCEPT ![n] = e]
  BY <1>1, <1>2
<1> HIDE DEF e
<1>5. /\ engine' \in Seq(Instructions) /\ Len(engine') = Len(engine)
      /\ \A m \in 1..Len(engine) : engine'[m] = IF m = n THEN e ELSE engine[m]
  BY <1>1, <1>3, <1>4, ExceptSeq
<1>6. WorldGrows
  BY <1>2, <1>3, <1>5, EngineGrows DEF RecordInv
<1>7. CountsOK'
  BY DEF EngineMoves, RecordInv, CountsOK
<1> QED BY <1>2, <1>6, <1>7, OutsideStep

LEMMA ThrowOK == ASSUME RecordInv, NEW c \in Calls, Throw(c) PROVE RecordInv'
<1>1. MaxFaults \in Nat
  BY AssignmentsAssumption
<1>2. CountsOK'
  BY <1>1 DEF Throw, Release, RecordInv, CountsOK
<1> QED BY <1>2, EndsOK DEF Throw, chainVars

LEMMA LeaseExpiresOK == ASSUME RecordInv, LeaseExpires PROVE RecordInv'
<1>1. CountsOK'
  BY DEF LeaseExpires, RecordInv, CountsOK
<1>2. UNCHANGED <<docVars, call, engine, intents, anchored>>
  BY DEF LeaseExpires, chainVars
<1>3. WorldGrows
  BY <1>2, SameWorld DEF RecordInv
<1> QED BY <1>1, <1>2, <1>3, OutsideStep

(* The instance that dies forgets its copies, and its requests are gone. *)
LEMMA CrashOK == ASSUME RecordInv, NEW i \in Instances, Crash(i) PROVE RecordInv'
<1> DEFINE docs == TrueDocs(engine, intents, anchored)
<1>1. /\ UNCHANGED <<engine, intents, anchored, durable>> /\ call \in [Calls -> CallStates]
      /\ call' = [d \in Calls |-> IF call[d].inst = i THEN Idle ELSE call[d]]
  BY DEF Crash, ColdStart, chainVars, Here, RecordInv, CallsOK
<1>2. /\ cache' = [cache EXCEPT ![i] = Unset] /\ outbox' = [outbox EXCEPT ![i] = <<>>]
      /\ answer' = [answer EXCEPT ![i] = NoAnswer]
  BY DEF Crash, ColdStart
<1>3. docs' = docs
  BY <1>1
<1> HIDE DEF docs
<1>4. <<>> \in Seq(docs)
  BY EmptySeq
<1>5. StoreOK'
  BY <1>1, <1>2, <1>3, <1>4 DEF RecordInv, StoreOK, docs
<1>6. CountsOK'
  <2>1. MaxFaults \in Nat
    BY AssignmentsAssumption
  <2> QED BY <2>1 DEF Crash, RecordInv, CountsOK
<1>7. call' \in [Calls -> CallStates]
  BY <1>1, IdleOK
<1>8. ASSUME NEW d \in Calls, call'[d].pc # "idle"
      PROVE  /\ CallOK(call'[d], engine, intents, anchored)
             /\ Read(call[d].inst)' \in docs
  <2>1. call[d].inst # i /\ call'[d] = call[d] /\ call[d].pc # "idle"
    BY <1>1, <1>8, IdleOK
  <2>2. /\ CallOK(call[d], engine, intents, anchored) /\ call[d].inst \in Instances
        /\ Read(call[d].inst) \in docs
    BY <2>1, Working DEF docs
  <2>3. cache'[call[d].inst] = cache[call[d].inst]
    BY <1>2, <2>1, <2>2 DEF RecordInv, StoreOK
  <2>4. Read(call[d].inst)' = IF Hosted THEN cache'[call'[d].inst] ELSE durable'
    BY DEF Read
  <2>5. Read(call[d].inst) = IF Hosted THEN cache[call[d].inst] ELSE durable
    BY DEF Read
  <2> QED BY <1>1, <2>1, <2>2, <2>3, <2>4, <2>5
<1> QED BY <1>1, <1>5, <1>6, <1>7, <1>8, DocsStep DEF docs

-----------------------------------------------------------------------------
(* Redis *)

(* A step of the store after which every instance reads a true document. *)
LEMMA StoreStep ==
    ASSUME RecordInv, UNCHANGED <<chainVars, busy, call, loads, faults, accepted>>, StoreOK',
           \A i \in Instances : Read(i) \in TrueDocs(engine, intents, anchored)
              => Read(i)' \in TrueDocs(engine, intents, anchored)
    PROVE  RecordInv'
<1>1. UNCHANGED <<engine, intents, anchored>> /\ CountsOK'
  BY DEF chainVars, RecordInv, CountsOK
<1>2. ASSUME NEW d \in Calls, call[d].pc # "idle"
      PROVE  Read(call[d].inst)' \in TrueDocs(engine, intents, anchored)
  <2>1. call[d].inst \in Instances /\ Read(call[d].inst) \in TrueDocs(engine, intents, anchored)
    BY <1>2, Working
  <2> QED BY <2>1 DEF Read
<1> QED BY <1>1, <1>2, DocsStep DEF RecordInv, CallsOK

LEMMA SetsOK ==
    ASSUME RecordInv, UNCHANGED <<chainVars, busy, call, loads, faults, accepted>>,
           NEW i \in Instances, SetLands(i) \/ SetFails(i)
    PROVE  RecordInv'
<1> DEFINE docs == TrueDocs(engine, intents, anchored)
<1>1. docs' = docs
  BY DEF chainVars
<1> HIDE DEF docs
<1>2. /\ durable \in docs \cup {Unset} /\ (Hosted \/ durable \in docs)
      /\ cache \in [Instances -> docs \cup {Unset}] /\ outbox \in [Instances -> Seq(docs)]
      /\ answer \in [Instances -> docs \cup {Unset, NoAnswer}]
  BY DEF RecordInv, StoreOK, docs
<1>3. /\ UNCHANGED <<cache, answer>> /\ outbox' = [outbox EXCEPT ![i] = Tail(outbox[i])]
      /\ outbox[i] # <<>> /\ durable' \in {durable, Head(outbox[i])}
  BY DEF SetLands, SetFails
<1>4. Head(outbox[i]) \in docs /\ Tail(outbox[i]) \in Seq(docs)
  BY <1>2, <1>3, HeadTailProperties
<1>5. outbox' \in [Instances -> Seq(docs)]
  BY <1>2, <1>3, <1>4
<1>6. durable' \in docs \cup {Unset} /\ (Hosted \/ durable' \in docs)
  BY <1>2, <1>3, <1>4
<1>7. StoreOK'
  BY <1>1, <1>2, <1>3, <1>5, <1>6 DEF StoreOK, docs
<1>8. \A j \in Instances : Read(j) \in docs => Read(j)' \in docs
  BY <1>3, <1>6 DEF Read
<1> QED BY <1>7, <1>8, StoreStep DEF docs

LEMMA HydrationOK ==
    ASSUME RecordInv, UNCHANGED <<chainVars, busy, call, loads, faults, accepted>>,
           NEW i \in Instances, HydrateAsks(i) \/ HydrateStores(i)
    PROVE  RecordInv'
<1> DEFINE docs == TrueDocs(engine, intents, anchored)
<1>1. docs' = docs
  BY DEF chainVars
<1>2. Empty \in docs
  BY DefaultAssumption, AbsentOK DEF TrueDocs, NoTrades
<1> HIDE DEF docs
<1>3. /\ durable \in docs \cup {Unset} /\ (Hosted \/ durable \in docs)
      /\ cache \in [Instances -> docs \cup {Unset}] /\ outbox \in [Instances -> Seq(docs)]
      /\ answer \in [Instances -> docs \cup {Unset, NoAnswer}]
  BY DEF RecordInv, StoreOK, docs
<1>4. CASE HydrateAsks(i)
  <2>1. UNCHANGED <<durable, cache, outbox>> /\ answer' = [answer EXCEPT ![i] = durable]
    BY <1>4 DEF HydrateAsks
  <2>2. StoreOK'
    BY <1>1, <1>3, <2>1 DEF StoreOK, docs
  <2>3. \A j \in Instances : Read(j) \in docs => Read(j)' \in docs
    BY <2>1 DEF Read
  <2> QED BY <2>2, <2>3, StoreStep DEF docs
<1>5. CASE HydrateStores(i)
  <2> DEFINE new == Hydrated(cache[i], answer[i])
  <2>1. /\ UNCHANGED <<durable, outbox>> /\ cache' = [cache EXCEPT ![i] = new]
        /\ answer' = [answer EXCEPT ![i] = NoAnswer] /\ answer[i] # NoAnswer
    BY <1>5 DEF HydrateStores
  <2>2. new \in docs
    BY <1>2, <1>3, <2>1 DEF Hydrated
  <2> HIDE DEF new
  <2>3. StoreOK'
    BY <1>1, <1>3, <2>1, <2>2 DEF StoreOK, docs
  <2>4. \A j \in Instances : Read(j) \in docs => Read(j)' \in docs
    BY <1>3, <2>1, <2>2 DEF Read
  <2> QED BY <2>3, <2>4, StoreStep DEF docs
<1> QED BY <1>4, <1>5

-----------------------------------------------------------------------------
(* The invariant *)

LEMMA RecordInit == Init => RecordInv
<1> SUFFICES ASSUME Init PROVE RecordInv
  OBVIOUS
<1> DEFINE docs == TrueDocs(engine, intents, anchored)
<1>1. Empty \in docs
  BY DefaultAssumption, AbsentOK DEF TrueDocs, NoTrades
<1>2. WorldOK
  <2>1. engine = <<>> /\ intents = <<>> /\ anchored = {}
    BY DEF Init
  <2>2. engine \in Seq(Instructions) /\ intents \in Seq(Approvals) /\ Len(intents) = 0
    BY <2>1, EmptySeq
  <2> QED BY <2>1, <2>2 DEF WorldOK
<1> HIDE DEF docs
<1>3. StoreOK
  <2>1. <<>> \in Seq(docs)
    BY EmptySeq
  <2> QED BY <1>1, <2>1 DEF Init, InitStore, StoreOK, docs
<1>4. \A c \in Calls : call[c] = Idle
  BY DEF Init
<1>5. call \in [Calls -> CallStates]
  BY IdleOK DEF Init
<1>6. CallsOK /\ ReadsOK
  BY <1>4, <1>5, IdleOK DEF CallsOK, ReadsOK
<1>7. CountsOK
  BY AssignmentsAssumption DEF Init, CountsOK
<1> QED BY <1>2, <1>3, <1>6, <1>7 DEF RecordInv

LEMMA StepOK == ASSUME RecordInv, NEW c \in Calls, Step(c) PROVE RecordInv'
<1>1. "seller" \in Side /\ "buyer" \in Side
  BY DEF Side
<1> QED BY <1>1, CreateInstructionOK, AnchorInstructionOK, ProposeApprovalOK, SaveConsentOK,
           AuthorizeSidesOK, SyncSideOK, SyncEngineOK, SyncWriteOK DEF Step

LEMMA RecordStep == RecordInv /\ [HostedNext]_vars => RecordInv'
<1> SUFFICES ASSUME RecordInv, [HostedNext]_vars PROVE RecordInv'
  OBVIOUS
<1>1. CASE \E i \in Instances, x \in Trades : Accept(i, x)
  BY <1>1, AcceptOK
<1>2. CASE \E c \in Calls, i \in Instances, x \in Trades :
             ConsentRoute(c, i, x) \/ TickConsents(c, i, x)
  BY <1>2, BeginConsentOK DEF ConsentRoute, TickConsents
<1>3. CASE \E c \in Calls, i \in Instances, x \in Trades : TradesPage(c, i, x) \/ TickSyncs(c, i, x)
  BY <1>3, BeginSyncOK DEF TradesPage, TickSyncs
<1>4. CASE \E c \in Calls : Step(c)
  BY <1>4, StepOK
<1>5. CASE \E c \in Calls : Throw(c) \/ SyncEngineFails(c) \/ \E side \in Side : SyncSideFails(c, side)
  BY <1>5, ThrowOK, SyncEngineFailsOK, SyncSideFailsOK
<1>6. CASE (\E i \in Instances : Crash(i)) \/ LeaseExpires
  BY <1>6, CrashOK, LeaseExpiresOK
<1>7. CASE \E n \in 1..Len(intents) : HumanSigns(n)
  BY <1>7, HumanSignsOK
<1>8. CASE \E n \in 1..Len(engine), s \in EngineStates : EngineMoves(n, s)
  BY <1>8, EngineMovesOK
<1>9. CASE /\ \E i \in Instances : SetLands(i) \/ SetFails(i) \/ HydrateAsks(i) \/ HydrateStores(i)
           /\ UNCHANGED <<chainVars, busy, call, loads, faults, accepted>>
  BY <1>9, SetsOK, HydrationOK
<1>10. CASE UNCHANGED vars
  <2>1. /\ UNCHANGED <<docVars, call>> /\ UNCHANGED <<engine, intents, anchored>>
        /\ UNCHANGED <<busy, accepted, loads, faults>>
    BY <1>10 DEF vars, chainVars
  <2>2. CountsOK'
    BY <2>1 DEF RecordInv, CountsOK
  <2>3. WorldGrows
    BY <2>1, SameWorld DEF RecordInv
  <2> QED BY <2>1, <2>2, <2>3, OutsideStep
<1> QED BY <1>1, <1>2, <1>3, <1>4, <1>5, <1>6, <1>7, <1>8, <1>9, <1>10
        DEF HostedNext, Next, Ticks

LEMMA RecordImplies == RecordInv => TypeOK /\ GrantedIsComplete
<1> SUFFICES ASSUME RecordInv PROVE TypeOK /\ GrantedIsComplete
  OBVIOUS
<1>1. TypeOK
  <2>1. durable = Unset \/ durable \in [Trades -> Records]
    BY DEF RecordInv, StoreOK, TrueDocs
  <2>2. \A n \in 1..Len(engine) : engine[n] \in Instructions
    BY ElementOfSeq DEF RecordInv, WorldOK
  <2>3. \A n \in 1..Len(intents) :
          intents[n] \in [instr : 1..Len(engine), side : Side, status : {"pending", "executed"}]
    <3>1. \A n \in 1..Len(intents) : intents[n] \in Approvals /\ intents[n].instr \in 1..Len(engine)
      BY ElementOfSeq DEF RecordInv, WorldOK
    <3> QED BY <3>1 DEF Approvals
  <2>4. \A c \in Calls : call[c].pc \in Labels /\ call[c].inst \in Instances \cup {NoInstance}
    BY DEF RecordInv, CallsOK, CallStates
  <2>5. anchored \subseteq 1..Len(engine) /\ CountsOK
    BY DEF RecordInv, WorldOK
  <2> QED BY <2>1, <2>2, <2>3, <2>4, <2>5 DEF TypeOK, Instructions, CountsOK
<1>2. GrantedIsComplete
  <2> SUFFICES ASSUME durable # Unset, NEW x \in Trades, durable[x].consent = "granted"
               PROVE  /\ durable[x].id \in anchored
                      /\ engine[durable[x].id].trade = x
                      /\ \A s \in Side : /\ durable[x].intent[s] # 0
                                         /\ intents[durable[x].intent[s]].instr = durable[x].id
                                         /\ intents[durable[x].intent[s]].side = s
    BY DEF GrantedIsComplete
  <2>1. TrueRecord(x, durable[x], engine, intents, anchored)
    BY DEF RecordInv, StoreOK, TrueDocs
  <2>2. durable[x].anchored /\ durable[x].id # 0 /\ durable[x].id \in anchored
    BY <2>1 DEF TrueRecord, Side
  <2> QED BY <2>1, <2>2 DEF TrueRecord, IsOf, AsksFor
<1> QED BY <1>1, <1>2

(* The variables keep their types whatever is retried, thrown or lost on   *)
(* the way of a consent (rfq.ts 118-229), on files.                        *)
THEOREM AssignmentTypeCorrect == Spec => []TypeOK
<1>1. RecordInv /\ [Next]_vars => RecordInv'
  BY RecordStep DEF HostedNext
<1> QED BY RecordInit, <1>1, RecordImplies, PTL DEF Spec

(* A record whose consent is granted names an instruction of its own trade *)
(* that is on the topic, and for each desk that desk's approval of it: on  *)
(* files, with any number of desks' requests, throws and deaths between an *)
(* external step and its save (rfq.ts 130-186).                            *)
THEOREM GrantSafety == Spec => []GrantedIsComplete
<1>1. RecordInv /\ [Next]_vars => RecordInv'
  BY RecordStep DEF HostedNext
<1> QED BY RecordInit, <1>1, RecordImplies, PTL DEF Spec

(* The same with Redis: a snapshot that lands late, an answer that         *)
(* overwrites a newer copy or a queue lost with its instance may put an    *)
(* older record back, and still never one that says granted of another     *)
(* instruction or without an approval (store.ts 30-120, rfq.ts 130-186).   *)
THEOREM HostedGrantSafety == HostedSpec => []GrantedIsComplete
BY RecordInit, RecordStep, RecordImplies, PTL DEF HostedSpec

-----------------------------------------------------------------------------
(***************************************************************************)
(* Consent on files                                                        *)
(*                                                                         *)
(* On files, where a write replaces the document at once, what a consent   *)
(* has done is never lost, replaced or done for a second instruction.      *)
(* operator-transactions keeps consents apart, so the copy a consent works *)
(* on IS the record; a reconciliation, which may hold no lease, works on a *)
(* copy that can only be stale in what it may overwrite.                   *)
(***************************************************************************)

Pending == {"effect", "save"}
SameGrant(t, r) == r.consent = "granted" /\ r.id = t.id /\ r.intent = t.intent
CopyOf(k, doc) ==
    /\ k.pc \in Pending => k.t = doc[k.trade] /\ k.t.consent = "pending"
    /\ k.pc \in Granted => SameGrant(k.t, doc[k.trade])

CopiesKept == \A c \in Calls : CopyOf(call[c], durable)
LeaseKept == \A c \in Calls : call[c].pc \in Pending => busy = c
AcceptedKept == \A x \in Trades : x \notin accepted => durable[x] = Absent
(* The desks have been asked about the instruction of the record only. *)
AskedKept ==
    \A k \in 1..Len(intents) :
        intents[k].instr = durable[engine[intents[k].instr].trade].id
KeptInv == RecordInv /\ CopiesKept /\ LeaseKept /\ AcceptedKept /\ AskedKept

(* ConsentIsKept, of one step. *)
Keeps ==
    \A x \in Trades :
        /\ durable[x].id # 0 => durable'[x].id = durable[x].id
        /\ \A s \in Side : durable[x].intent[s] # 0
              => durable'[x].intent[s] = durable[x].intent[s]
        /\ durable[x].consent = "granted" => durable'[x].consent = "granted"
KeptStep == CopiesKept' /\ LeaseKept' /\ AcceptedKept' /\ AskedKept' /\ Keeps

LEMMA OnFiles ==
    ASSUME ~Hosted, RecordInv
    PROVE  /\ durable \in [Trades -> Records]
           /\ \A x \in Trades : TrueRecord(x, durable[x], engine, intents, anchored)
           /\ \A i : Read(i) = durable
BY DEF RecordInv, StoreOK, TrueDocs, Read

(* Steps that ask the desks nothing and leave every record its id. *)
LEMMA AskedStays ==
    ASSUME WorldOK, AskedKept, Len(intents') = Len(intents),
           \A n \in 1..Len(intents) : intents'[n].instr = intents[n].instr,
           \A n \in 1..Len(engine) : engine'[n].trade = engine[n].trade,
           \A x \in Trades : durable'[x].id = durable[x].id
    PROVE  AskedKept'
<1> SUFFICES ASSUME NEW k \in 1..Len(intents)
             PROVE  intents'[k].instr = durable'[engine'[intents'[k].instr].trade].id
  BY DEF AskedKept
<1>1. intents[k].instr \in 1..Len(engine)
  BY DEF WorldOK
<1>2. engine[intents[k].instr] \in Instructions
  BY <1>1, ElementOfSeq DEF WorldOK
<1>3. engine[intents[k].instr].trade \in Trades
  BY <1>2 DEF Instructions
<1> DEFINE m == intents[k].instr
           x == engine[m].trade
<1>4. intents'[k].instr = m /\ engine'[m].trade = x /\ durable'[x].id = durable[x].id
  BY <1>1, <1>3
<1>5. m = durable[x].id
  BY DEF AskedKept
<1> HIDE DEF m, x
<1> QED BY <1>4, <1>5

(* A step without a write: the request c becomes k. *)
LEMMA WorkKeeps ==
    ASSUME KeptInv, UNCHANGED <<durable, accepted>>, AskedKept',
           NEW c \in Calls, NEW k, call' = [call EXCEPT ![c] = k],
           CopyOf(k, durable), k.pc \in Pending => busy' = c,
           \A d \in Calls \ {c} : busy = d => busy' = d
    PROVE  KeptStep
<1>1. /\ call'[c] = k /\ \A d \in Calls \ {c} : call'[d] = call[d]
  BY DEF KeptInv, RecordInv, CallsOK
<1>2. CopiesKept'
  BY <1>1 DEF KeptInv, CopiesKept, CopyOf, SameGrant
<1>3. LeaseKept'
  BY <1>1 DEF KeptInv, LeaseKept
<1>4. AcceptedKept' /\ Keeps
  BY DEF KeptInv, AcceptedKept, Keeps
<1> QED BY <1>2, <1>3, <1>4 DEF KeptStep

(* A step outside the requests. *)
LEMMA OutsideKeeps ==
    ASSUME KeptInv, UNCHANGED <<durable, accepted, call, busy>>, AskedKept' PROVE KeptStep
BY DEF KeptStep, KeptInv, CopiesKept, LeaseKept, AcceptedKept, Keeps, CopyOf, SameGrant

LEMMA SameAsked ==
    ASSUME KeptInv, UNCHANGED <<durable, engine, intents>> PROVE AskedKept'
BY DEF KeptInv, AskedKept

-----------------------------------------------------------------------------
(* Consent *)

LEMMA AcceptKeeps ==
    ASSUME ~Hosted, KeptInv, NEW i \in Instances, NEW x \in Trades, Accept(i, x)
    PROVE  KeptStep
<1>1. /\ durable' = [durable EXCEPT ![x] = Accepted] /\ x \notin accepted
      /\ accepted' = accepted \cup {x} /\ UNCHANGED <<engine, intents, call, busy>>
  BY OnFiles DEF Accept, Write, Read, KeptInv, chainVars
<1>2. /\ durable \in [Trades -> Records] /\ durable[x] = Absent
  BY <1>1, OnFiles DEF KeptInv, AcceptedKept
<1>3. /\ Absent.id = 0 /\ Absent.consent = "none" /\ Accepted.id = 0
      /\ \A s \in Side : Absent.intent[s] = 0
  BY DEF Absent, Accepted
<1>4. CopiesKept'
  <2> SUFFICES ASSUME NEW c \in Calls PROVE CopyOf(call[c], durable')
    BY <1>1 DEF CopiesKept
  <2>1. CopyOf(call[c], durable)
    BY DEF KeptInv, CopiesKept
  <2>2. call[c].pc # "idle" => call[c].trade \in Trades
    BY Working DEF KeptInv
  <2>3. call[c].pc \in Pending \cup Granted => call[c].pc # "idle"
    BY DEF Pending, Granted
  <2> QED BY <1>1, <1>2, <1>3, <2>1, <2>2, <2>3 DEF CopyOf, SameGrant
<1>5. LeaseKept'
  BY <1>1 DEF KeptInv, LeaseKept
<1>6. AcceptedKept' /\ Keeps
  BY <1>1, <1>2, <1>3 DEF KeptInv, AcceptedKept, Keeps
<1>7. AskedKept'
  <2>1. \A y \in Trades : durable'[y].id = durable[y].id
    BY <1>1, <1>2, <1>3
  <2> QED BY <1>1, <2>1, AskedStays DEF KeptInv, RecordInv
<1> QED BY <1>4, <1>5, <1>6, <1>7 DEF KeptStep

LEMMA BeginConsentKeeps ==
    ASSUME ~Hosted, KeptInv, NEW c \in Calls, NEW i \in Instances, NEW x \in Trades, NEW job,
           BeginConsent(c, i, x, job)
    PROVE  KeptStep
<1> DEFINE k == [job |-> job, inst |-> i, trade |-> x, pc |-> "effect", t |-> Read(i)[x], got |-> 0]
<1>1. /\ call' = [call EXCEPT ![c] = k] /\ busy = NoInstance /\ busy' = c
      /\ UNCHANGED <<durable, accepted, engine, intents>>
  BY DEF BeginConsent, chainVars, docVars
<1>2. durable[x].consent = "pending"
  BY OnFiles DEF BeginConsent, MayConsent, KeptInv
<1>3. CopyOf(k, durable)
  BY <1>2, OnFiles DEF CopyOf, KeptInv, Pending, Granted
<1>4. \A d \in Calls : busy # d
  BY <1>1, AssignmentsAssumption
<1> HIDE DEF k
<1> QED BY <1>1, <1>3, <1>4, SameAsked, WorkKeeps

(* A step of a consent before its save. *)
LEMMA EffectKeeps ==
    ASSUME ~Hosted, KeptInv, NEW c \in Calls, call[c].pc = "effect", NEW got,
           call' = [call EXCEPT ![c] = [call[c] EXCEPT !.pc = "save", !.got = got]],
           UNCHANGED <<durable, accepted, busy>>, AskedKept'
    PROVE  KeptStep
<1> DEFINE k == [call[c] EXCEPT !.pc = "save", !.got = got]
<1>1. call[c] \in CallStates
  BY DEF KeptInv, RecordInv, CallsOK
<1>2. k.pc = "save" /\ k.t = call[c].t /\ k.trade = call[c].trade
  BY <1>1 DEF CallStates
<1>3. CopyOf(call[c], durable) /\ busy = c
  BY DEF KeptInv, CopiesKept, LeaseKept, Pending
<1> HIDE DEF k
<1>4. CopyOf(k, durable)
  BY <1>2, <1>3 DEF CopyOf, Pending, Granted
<1>5. call' = [call EXCEPT ![c] = k]
  BY DEF k
<1> QED BY <1>3, <1>4, <1>5, WorkKeeps

LEMMA CreateKeeps ==
    ASSUME ~Hosted, KeptInv, NEW c \in Calls, CreateInstruction(c) PROVE KeptStep
<1> DEFINE new == [trade |-> call[c].trade, state |-> "AwaitingApprovals", approved |-> {}]
<1>1. /\ call[c].pc = "effect" /\ engine' = Append(engine, new)
      /\ call' = [call EXCEPT ![c] = [call[c] EXCEPT !.pc = "save", !.got = Len(engine) + 1]]
      /\ UNCHANGED <<durable, accepted, busy, intents>>
  BY DEF CreateInstruction, At, docVars
<1>2. call[c].trade \in Trades
  BY <1>1, Working DEF KeptInv
<1>3. new \in Instructions
  BY <1>2 DEF Instructions, EngineStates
<1> HIDE DEF new
<1>4. \A n \in 1..Len(engine) : engine'[n] = engine[n]
  BY <1>1, <1>3, AppendProperties DEF KeptInv, RecordInv, WorldOK
<1>5. AskedKept'
  BY <1>1, <1>4, AskedStays DEF KeptInv, RecordInv
<1> QED BY <1>1, <1>5, EffectKeeps

LEMMA AnchorKeeps ==
    ASSUME ~Hosted, KeptInv, NEW c \in Calls, AnchorInstruction(c) PROVE KeptStep
<1>1. /\ call[c].pc = "effect" /\ call' = [call EXCEPT ![c].pc = "save"]
      /\ UNCHANGED <<durable, accepted, busy, engine, intents>>
  BY DEF AnchorInstruction, At, Goto, docVars
<1>2. call[c] \in CallStates
  BY DEF KeptInv, RecordInv, CallsOK
<1>3. call' = [call EXCEPT ![c] = [call[c] EXCEPT !.pc = "save", !.got = call[c].got]]
  BY <1>1, <1>2 DEF CallStates
<1> QED BY <1>1, <1>3, SameAsked, EffectKeeps

LEMMA ProposeKeeps ==
    ASSUME ~Hosted, KeptInv, NEW c \in Calls, ProposeApproval(c) PROVE KeptStep
<1> DEFINE m == Len(intents) + 1
           n == call[c].t.id
           new == [instr |-> n, side |-> NextSide(call[c].t), status |-> "pending"]
<1>1. /\ call[c].pc = "effect" /\ intents' = Append(intents, new)
      /\ call' = [call EXCEPT ![c] = [call[c] EXCEPT !.pc = "save", !.got = m]]
      /\ UNCHANGED <<durable, accepted, busy, engine>>
      /\ n # 0 /\ Unproposed(call[c].t) # {}
  BY DEF ProposeApproval, At, T, docVars
<1>2. /\ call[c].t \in Records /\ call[c].trade \in Trades
      /\ TrueRecord(call[c].trade, call[c].t, engine, intents, anchored)
  BY <1>1, Working DEF KeptInv
<1>3. engine[n].trade = call[c].trade /\ durable[call[c].trade].id = n /\ n \in Nat
  <2>1. CopyOf(call[c], durable)
    BY DEF KeptInv, CopiesKept
  <2>2. durable[call[c].trade] = call[c].t
    BY <1>1, <2>1 DEF CopyOf, Pending
  <2> QED BY <1>1, <1>2, <2>2 DEF TrueRecord, IsOf, Records
<1>4. new \in Approvals /\ new.instr = n
  BY <1>1, <1>2, <1>3, NextSideOK DEF Approvals
<1> HIDE DEF new, n
<1>5. /\ Len(intents') = Len(intents) + 1 /\ intents'[Len(intents) + 1] = new
      /\ \A k \in 1..Len(intents) : intents'[k] = intents[k]
      /\ Len(intents) \in Nat
  BY <1>1, <1>4, AppendProperties, Lengths DEF KeptInv, RecordInv, WorldOK
<1>6. AskedKept'
  <2> SUFFICES ASSUME NEW k \in 1..Len(intents')
               PROVE  intents'[k].instr = durable[engine[intents'[k].instr].trade].id
    BY <1>1 DEF AskedKept
  <2>1. CASE k \in 1..Len(intents)
    BY <1>5, <2>1 DEF KeptInv, AskedKept
  <2>2. CASE k = Len(intents) + 1
    BY <1>3, <1>4, <1>5, <2>2
  <2> QED BY <1>5, <2>1, <2>2
<1> QED BY <1>1, <1>6, EffectKeeps

LEMMA SaveKeeps ==
    ASSUME ~Hosted, KeptInv, NEW c \in Calls, SaveConsent(c) PROVE KeptStep
<1> DEFINE t == call[c].t
           x == call[c].trade
           u == AfterEffect(t, call[c].got)
           next == IF u.consent = "granted" THEN "authorize" ELSE "effect"
           k == [call[c] EXCEPT !.t = u, !.got = 0, !.pc = next]
<1>1. /\ call[c].pc = "save" /\ durable' = [durable EXCEPT ![x] = u]
      /\ call' = [call EXCEPT ![c] = k] /\ UNCHANGED <<accepted, busy, engine, intents>>
  BY OnFiles DEF SaveConsent, At, Write, Saved, Here, T, KeptInv, chainVars
<1>2. /\ call[c] \in CallStates /\ CallOK(call[c], engine, intents, anchored)
      /\ t \in Records /\ x \in Trades /\ TrueRecord(x, t, engine, intents, anchored)
  BY <1>1, Working DEF KeptInv
<1>3. /\ busy = c /\ t = durable[x] /\ t.consent = "pending" /\ durable \in [Trades -> Records]
  <2>1. CopyOf(call[c], durable) /\ busy = c
    BY <1>1 DEF KeptInv, CopiesKept, LeaseKept, Pending
  <2> QED BY <1>1, <2>1, OnFiles DEF CopyOf, KeptInv, Pending
<1>4. t.id # 0 /\ t.anchored => NextSide(t) \in Unproposed(t) /\ NextSide(t) \in Side
  BY <1>1, <1>2, NextSideOK DEF CallOK, TrueAnswer
(* The answer adds to the record and changes nothing it has. *)
<1>5. /\ t.id # 0 => u.id = t.id
      /\ \A s \in Side : t.intent[s] # 0 => u.intent[s] = t.intent[s]
      /\ u.consent \in {"pending", "granted"}
  <2>1. CASE t.id = 0
    <3>1. u = [t EXCEPT !.id = call[c].got, !.state = "PreparingApprovals"]
      BY <2>1 DEF AfterEffect
    <3> QED BY <1>2, <1>3, <2>1, <3>1 DEF Records
  <2>2. CASE t.id # 0 /\ ~t.anchored
    <3>1. u = [t EXCEPT !.anchored = TRUE]
      BY <2>2 DEF AfterEffect
    <3> QED BY <1>2, <1>3, <3>1 DEF Records
  <2>3. CASE t.id # 0 /\ t.anchored
    <3> DEFINE side == NextSide(t)
               last == Cardinality(Unproposed(t)) = 1
    <3>1. side \in Side /\ t.intent[side] = 0
      BY <1>4, <2>3 DEF Unproposed
    <3>2. u = [t EXCEPT !.intent[side] = call[c].got,
                  !.consent = IF last THEN "granted" ELSE @,
                  !.state = IF last THEN "AwaitingApprovals" ELSE @]
      BY <2>3 DEF AfterEffect
    <3> HIDE DEF side, u, last
    <3> QED BY <1>2, <1>3, <3>1, <3>2 DEF Records
  <2> QED BY <2>1, <2>2, <2>3
<1> HIDE DEF u
<1>6. next \in {"authorize", "effect"} /\ (next = "authorize" <=> u.consent = "granted")
  OBVIOUS
<1> HIDE DEF next
<1>7. k.pc = next /\ k.t = u /\ k.trade = x
  BY <1>2 DEF CallStates
<1> HIDE DEF k, t, x
<1>8. durable'[x] = u /\ \A y \in Trades \ {x} : durable'[y] = durable[y]
  BY <1>1, <1>2, <1>3
<1>9. call'[c] = k /\ \A d \in Calls \ {c} : call'[d] = call[d]
  BY <1>1 DEF KeptInv, RecordInv, CallsOK
<1>10. CopiesKept'
  <2>1. CopyOf(k, durable')
    BY <1>5, <1>6, <1>7, <1>8 DEF CopyOf, SameGrant, Pending, Granted
  <2>2. ASSUME NEW d \in Calls \ {c} PROVE CopyOf(call[d], durable')
    <3>1. call[d].pc \notin Pending
      BY <1>3 DEF KeptInv, LeaseKept
    <3>2. CopyOf(call[d], durable)
      BY DEF KeptInv, CopiesKept
    <3>3. ASSUME call[d].pc \in Granted PROVE SameGrant(call[d].t, durable'[call[d].trade])
      <4>1. SameGrant(call[d].t, durable[call[d].trade])
        BY <3>2, <3>3 DEF CopyOf
      <4>2. call[d].trade # x
        BY <1>3, <4>1 DEF SameGrant
      <4>3. call[d].trade \in Trades
        BY <3>3, Reconciling DEF KeptInv
      <4> QED BY <1>8, <4>1, <4>2, <4>3
    <3> QED BY <3>1, <3>3 DEF CopyOf
  <2> QED BY <1>9, <2>1, <2>2 DEF CopiesKept
<1>11. LeaseKept'
  BY <1>1, <1>3, <1>9 DEF KeptInv, LeaseKept
<1>12. AcceptedKept'
  <2>1. x \in accepted
    BY <1>2, <1>3 DEF KeptInv, AcceptedKept, Absent
  <2> QED BY <1>1, <1>8, <2>1 DEF KeptInv, AcceptedKept
<1>13. AskedKept'
  <2> SUFFICES ASSUME NEW j \in 1..Len(intents)
               PROVE  intents[j].instr = durable'[engine[intents[j].instr].trade].id
    BY <1>1 DEF AskedKept
  <2> DEFINE n == intents[j].instr
  <2>1. n \in 1..Len(engine) /\ n = durable[engine[n].trade].id
    BY DEF KeptInv, RecordInv, WorldOK, AskedKept
  <2>2. engine[n] \in Instructions
    BY <2>1, ElementOfSeq DEF KeptInv, RecordInv, WorldOK
  <2>3. engine[n].trade \in Trades
    BY <2>2 DEF Instructions
  <2> HIDE DEF n
  <2>4. n # 0
    BY <2>1
  <2>5. n = durable'[engine[n].trade].id
    BY <1>3, <1>5, <1>8, <2>1, <2>3, <2>4
  <2> QED BY <2>5 DEF n
<1>14. Keeps
  BY <1>3, <1>5, <1>8 DEF Keeps
<1> QED BY <1>10, <1>11, <1>12, <1>13, <1>14 DEF KeptStep

-----------------------------------------------------------------------------
(* Reconciliation *)

LEMMA BeginSyncKeeps ==
    ASSUME ~Hosted, KeptInv, NEW c \in Calls, NEW i \in Instances, NEW x \in Trades, NEW job,
           BeginSync(c, i, x, job)
    PROVE  KeptStep
<1> DEFINE pc == IF job = "tick" THEN "authorize" ELSE "seller"
           k == [job |-> job, inst |-> i, trade |-> x, t |-> Read(i)[x], got |-> 0, pc |-> pc]
<1>1. /\ call' = [call EXCEPT ![c] = k] /\ UNCHANGED <<durable, accepted, engine, intents>>
      /\ busy' = busy \/ busy = NoInstance
  BY DEF BeginSync, chainVars, docVars
<1>2. durable[x].consent = "granted" /\ Read(i) = durable
  BY OnFiles DEF BeginSync, Open, KeptInv
<1>3. pc \in Granted /\ pc \notin Pending
  BY DEF Granted, Pending
<1> HIDE DEF pc
<1>4. CopyOf(k, durable) /\ k.pc \notin Pending
  BY <1>2, <1>3 DEF CopyOf, SameGrant
<1>5. \A d \in Calls : busy = d => busy' = d
  BY <1>1, AssignmentsAssumption
<1> HIDE DEF k
<1> QED BY <1>1, <1>4, <1>5, SameAsked, WorkKeeps

(* A request that reconciles changes of its copy what a grant is not about.*)
LEMMA GrantedKeeps ==
    ASSUME KeptInv, NEW c \in Calls, call[c].pc \in Granted, NEW pc \in Granted, NEW t,
           t.consent = "granted", t.id = call[c].t.id, t.intent = call[c].t.intent,
           call' = [call EXCEPT ![c] = [call[c] EXCEPT !.pc = pc, !.t = t]],
           UNCHANGED <<durable, accepted, busy>>, AskedKept'
    PROVE  KeptStep
<1> DEFINE k == [call[c] EXCEPT !.pc = pc, !.t = t]
<1>1. call[c] \in CallStates
  BY DEF KeptInv, RecordInv, CallsOK
<1>2. k.pc = pc /\ k.t = t /\ k.trade = call[c].trade
  BY <1>1 DEF CallStates
<1>3. SameGrant(call[c].t, durable[call[c].trade])
  BY DEF KeptInv, CopiesKept, CopyOf
<1>4. pc \notin Pending
  BY DEF Pending, Granted
<1> HIDE DEF k
<1>5. CopyOf(k, durable)
  BY <1>2, <1>3, <1>4 DEF CopyOf, SameGrant
<1>6. call' = [call EXCEPT ![c] = k]
  BY DEF k
<1> QED BY <1>2, <1>4, <1>5, <1>6, WorkKeeps

LEMMA AuthorizeKeeps ==
    ASSUME ~Hosted, KeptInv, NEW c \in Calls, AuthorizeSides(c) PROVE KeptStep
<1> DEFINE signs(n) == /\ \E s \in Automated \ call[c].t.sent : call[c].t.intent[s] = n
                       /\ intents[n].status = "pending"
           signed(n) == IF signs(n) THEN [intents[n] EXCEPT !.status = "executed"]
                        ELSE intents[n]
<1>1. /\ call[c].pc \in Granted /\ call' = [call EXCEPT ![c].pc = "seller"]
      /\ intents' = [n \in 1..Len(intents) |-> signed(n)]
      /\ UNCHANGED <<durable, accepted, busy, engine>>
  BY DEF AuthorizeSides, At, Goto, T, Granted, docVars
<1>2. /\ call[c] \in CallStates /\ call[c].t.consent = "granted"
  BY <1>1, Reconciling DEF KeptInv
<1>3. call' = [call EXCEPT ![c] = [call[c] EXCEPT !.pc = "seller", !.t = call[c].t]]
  BY <1>1, <1>2 DEF CallStates
<1>4. \A n \in 1..Len(intents) : intents[n] \in Approvals
  BY ElementOfSeq DEF KeptInv, RecordInv, WorldOK
<1>5. \A n \in 1..Len(intents) : signed(n) \in Approvals /\ signed(n).instr = intents[n].instr
  BY <1>4 DEF Approvals
<1> HIDE DEF signed
<1>6. Len(intents) \in Nat
  BY Lengths DEF KeptInv, RecordInv
<1>7. /\ Len(intents') = Len(intents)
      /\ \A n \in 1..Len(intents) : intents'[n].instr = intents[n].instr
  <2>1. intents' \in [1..Len(intents) -> Approvals]
    BY <1>1, <1>5
  <2>2. intents' \in Seq(Approvals)
    BY <1>6, <2>1, SeqDef
  <2>3. DOMAIN intents' = 1..Len(intents) /\ DOMAIN intents' = 1..Len(intents')
        /\ Len(intents') \in Nat
    BY <2>1, <2>2, LenProperties
  <2> QED BY <1>1, <1>5, <1>6, <2>3
<1>8. AskedKept'
  BY <1>1, <1>7, AskedStays DEF KeptInv, RecordInv
<1>9. "seller" \in Granted
  BY DEF Granted
<1> QED BY <1>1, <1>2, <1>3, <1>8, <1>9, GrantedKeeps

LEMMA ApprovedKeeps ==
    ASSUME KeptInv, NEW n \in 1..Len(engine), NEW side \in Side, UNCHANGED <<durable, intents>>,
           engine' = Approve(n, side) \/ engine' = engine
    PROVE  AskedKept'
<1>1. \A m \in 1..Len(engine) : engine'[m].trade = engine[m].trade
  BY ApproveOK DEF KeptInv, RecordInv
<1> QED BY <1>1, AskedStays DEF KeptInv, RecordInv

LEMMA SyncSideKeeps ==
    ASSUME ~Hosted, KeptInv, NEW c \in Calls, NEW side \in Side, SyncSide(c, side)
    PROVE  KeptStep
<1> DEFINE n == call[c].t.intent[side]
           ready == side \notin call[c].t.sent /\ n # 0 /\ intents[n].status = "executed"
           sent == IF ready THEN call[c].t.sent \cup {side} ELSE call[c].t.sent
           pc == IF side = "seller" THEN "buyer" ELSE "engine"
           u == [call[c].t EXCEPT !.sent = sent]
<1>1. call[c].pc \in Granted /\ pc \in Granted
  BY DEF SyncSide, At, Granted, Side
<1>2. /\ call[c] \in CallStates /\ call[c].t \in Records /\ call[c].t.consent = "granted"
      /\ call[c].t.id \in 1..Len(engine)
  BY <1>1, Reconciling DEF KeptInv
<1>3. /\ engine' = IF ready THEN Approve(call[c].t.id, side) ELSE engine
      /\ call' = [call EXCEPT ![c].pc = pc, ![c].t.sent = sent]
      /\ UNCHANGED <<durable, accepted, busy, intents>>
  BY DEF SyncSide, T, docVars
<1>4. AskedKept'
  BY <1>2, <1>3, ApprovedKeeps
<1> HIDE DEF ready, sent, pc
<1>5. u.id = call[c].t.id /\ u.intent = call[c].t.intent /\ u.consent = "granted"
  BY <1>2 DEF Records
<1>6. call' = [call EXCEPT ![c] = [call[c] EXCEPT !.pc = pc, !.t = u]]
  BY <1>2, <1>3 DEF CallStates, Records, KeptInv, RecordInv, CallsOK
<1> HIDE DEF u
<1> QED BY <1>1, <1>3, <1>4, <1>5, <1>6, GrantedKeeps

LEMMA SyncSideFailsKeeps ==
    ASSUME ~Hosted, KeptInv, NEW c \in Calls, NEW side \in Side, SyncSideFails(c, side)
    PROVE  KeptStep
<1> DEFINE pc == IF side = "seller" THEN "buyer" ELSE "engine"
<1>1. call[c].pc \in Granted /\ pc \in Granted
  BY DEF SyncSideFails, At, Granted, Side
<1>2. /\ call[c] \in CallStates /\ call[c].t.consent = "granted"
      /\ call[c].t.id \in 1..Len(engine)
  BY <1>1, Reconciling DEF KeptInv
<1>3. /\ engine' \in {engine, Approve(call[c].t.id, side)}
      /\ call' = [call EXCEPT ![c].pc = pc]
      /\ UNCHANGED <<durable, accepted, busy, intents>>
  BY DEF SyncSideFails, T, Goto, docVars
<1>4. AskedKept'
  BY <1>2, <1>3, ApprovedKeeps
<1>5. call' = [call EXCEPT ![c] = [call[c] EXCEPT !.pc = pc, !.t = call[c].t]]
  BY <1>2, <1>3 DEF CallStates
<1> HIDE DEF pc
<1> QED BY <1>1, <1>2, <1>3, <1>4, <1>5, GrantedKeeps

LEMMA SyncEngineKeeps ==
    ASSUME ~Hosted, KeptInv, NEW c \in Calls, SyncEngine(c) \/ SyncEngineFails(c)
    PROVE  KeptStep
<1> DEFINE u == [call[c].t EXCEPT !.state = engine[call[c].t.id].state]
<1>1. call[c].pc \in Granted /\ "write" \in Granted
  BY DEF SyncEngine, SyncEngineFails, At, Granted
<1>2. call[c] \in CallStates /\ call[c].t \in Records /\ call[c].t.consent = "granted"
  BY <1>1, Reconciling DEF KeptInv
<1>3. UNCHANGED <<durable, accepted, busy, engine, intents>>
  BY DEF SyncEngine, SyncEngineFails, docVars, chainVars
<1>4. AskedKept'
  BY <1>3, SameAsked
<1>5. u.id = call[c].t.id /\ u.intent = call[c].t.intent /\ u.consent = "granted"
  BY <1>2 DEF Records
<1>6. CASE SyncEngine(c)
  <2>1. call' = [call EXCEPT ![c].t.state = engine[call[c].t.id].state, ![c].pc = "write"]
    BY <1>6 DEF SyncEngine, T
  <2>2. call' = [call EXCEPT ![c] = [call[c] EXCEPT !.pc = "write", !.t = u]]
    BY <1>2, <2>1 DEF CallStates, Records, KeptInv, RecordInv, CallsOK
  <2> HIDE DEF u
  <2> QED BY <1>1, <1>3, <1>4, <1>5, <2>2, GrantedKeeps
<1>7. CASE SyncEngineFails(c)
  <2>1. call' = [call EXCEPT ![c].pc = "write"]
    BY <1>7 DEF SyncEngineFails, Goto
  <2>2. call' = [call EXCEPT ![c] = [call[c] EXCEPT !.pc = "write", !.t = call[c].t]]
    BY <1>2, <2>1 DEF CallStates
  <2> QED BY <1>1, <1>2, <1>3, <1>4, <2>2, GrantedKeeps
<1> QED BY <1>6, <1>7

(* A request that ends, with or without the lease. *)
LEMMA EndKeeps ==
    ASSUME KeptInv, NEW c \in Calls, call' = [call EXCEPT ![c] = Idle], Release(c),
           UNCHANGED <<durable, accepted, engine, intents>>
    PROVE  KeptStep
<1>1. CopyOf(Idle, durable) /\ Idle.pc \notin Pending
  BY DEF CopyOf, Idle, Pending, Granted
<1>2. \A d \in Calls \ {c} : busy = d => busy' = d
  BY DEF Release
<1>3. AskedKept'
  BY SameAsked
<1> HIDE DEF Idle
<1> QED BY <1>1, <1>2, <1>3, WorkKeeps

LEMMA SyncWriteKeeps ==
    ASSUME ~Hosted, KeptInv, NEW c \in Calls, SyncWrite(c) PROVE KeptStep
<1> DEFINE x == call[c].trade
           t == call[c].t
<1>1. /\ call[c].pc \in Granted /\ call' = [call EXCEPT ![c] = Idle] /\ Release(c)
      /\ UNCHANGED <<accepted, engine, intents>>
      /\ durable' = [durable EXCEPT ![x] = t] \/ durable' = durable
  BY OnFiles DEF SyncWrite, At, Granted, Write, Saved, Here, T, KeptInv, chainVars, docVars
<1>2. t \in Records /\ x \in Trades /\ t.consent = "granted"
  BY <1>1, Reconciling DEF KeptInv
<1>3. SameGrant(t, durable[x]) /\ durable \in [Trades -> Records]
  BY <1>1, OnFiles DEF KeptInv, CopiesKept, CopyOf
<1>4. CASE durable' = durable
  BY <1>1, <1>4, EndKeeps
<1>5. CASE durable' = [durable EXCEPT ![x] = t]
  <2> HIDE DEF x, t
  <2>1. durable'[x] = t /\ \A y \in Trades \ {x} : durable'[y] = durable[y]
    BY <1>2, <1>3, <1>5
  <2>2. call'[c] = Idle /\ \A d \in Calls \ {c} : call'[d] = call[d]
    BY <1>1 DEF KeptInv, RecordInv, CallsOK
  <2>3. CopyOf(Idle, durable') /\ Idle.pc \notin Pending
    BY DEF CopyOf, Idle, Pending, Granted
  <2>4. ASSUME NEW d \in Calls \ {c} PROVE CopyOf(call[d], durable')
    <3>1. CopyOf(call[d], durable)
      BY DEF KeptInv, CopiesKept
    <3>2. call[d].pc \in Pending \cup Granted => call[d].trade \in Trades
      BY Working DEF KeptInv, Pending, Granted
    <3>3. call[d].pc \in Pending => call[d].trade # x
      BY <1>3, <3>1 DEF CopyOf, SameGrant
    <3>4. CASE call[d].trade = x
      BY <1>2, <1>3, <2>1, <3>1, <3>3, <3>4 DEF CopyOf, SameGrant
    <3>5. CASE call[d].trade # x
      BY <2>1, <3>1, <3>2, <3>5 DEF CopyOf
    <3> QED BY <3>4, <3>5
  <2>5. CopiesKept'
    BY <2>2, <2>3, <2>4 DEF CopiesKept
  <2>6. LeaseKept'
    <3>1. \A d \in Calls \ {c} : busy = d => busy' = d
      BY <1>1 DEF Release
    <3> QED BY <2>2, <2>3, <3>1 DEF KeptInv, LeaseKept
  <2>7. AcceptedKept'
    <3>1. x \in accepted
      BY <1>2, <1>3 DEF KeptInv, AcceptedKept, SameGrant, Absent
    <3> QED BY <1>1, <2>1, <3>1 DEF KeptInv, AcceptedKept
  <2>8. AskedKept'
    <3>1. \A y \in Trades : durable'[y].id = durable[y].id
      BY <1>3, <2>1 DEF SameGrant
    <3> QED BY <1>1, <3>1, AskedStays DEF KeptInv, RecordInv
  <2>9. Keeps
    BY <1>2, <1>3, <2>1 DEF Keeps, SameGrant
  <2> QED BY <2>5, <2>6, <2>7, <2>8, <2>9 DEF KeptStep
<1> QED BY <1>1, <1>4, <1>5

-----------------------------------------------------------------------------
(* Signatures, settlement, failures *)

LEMMA HumanSignsKeeps ==
    ASSUME KeptInv, NEW n \in 1..Len(intents), HumanSigns(n) PROVE KeptStep
<1> DEFINE k == [intents[n] EXCEPT !.status = "executed"]
<1>1. intents[n] \in Approvals /\ intents \in Seq(Approvals)
  BY ElementOfSeq DEF KeptInv, RecordInv, WorldOK
<1>2. intents' = [intents EXCEPT ![n] = k] /\ UNCHANGED <<durable, accepted, call, busy, engine>>
  BY <1>1 DEF HumanSigns, docVars
<1>3. k \in Approvals /\ k.instr = intents[n].instr
  BY <1>1 DEF Approvals
<1> HIDE DEF k
<1>4. /\ Len(intents') = Len(intents)
      /\ \A m \in 1..Len(intents) : intents'[m] = IF m = n THEN k ELSE intents[m]
  BY <1>1, <1>2, <1>3, ExceptSeq
<1>5. AskedKept'
  BY <1>2, <1>3, <1>4, AskedStays DEF KeptInv, RecordInv
<1> QED BY <1>2, <1>5, OutsideKeeps

LEMMA EngineMovesKeeps ==
    ASSUME KeptInv, NEW n \in 1..Len(engine), NEW s \in EngineStates, EngineMoves(n, s)
    PROVE  KeptStep
<1> DEFINE e == [engine[n] EXCEPT !.state = s]
<1>1. engine[n] \in Instructions /\ engine \in Seq(Instructions)
  BY ElementOfSeq DEF KeptInv, RecordInv, WorldOK
<1>2. engine' = [engine EXCEPT ![n] = e] /\ UNCHANGED <<durable, accepted, call, busy, intents>>
  BY <1>1 DEF EngineMoves, docVars
<1>3. e \in Instructions /\ e.trade = engine[n].trade
  BY <1>1 DEF Instructions
<1> HIDE DEF e
<1>4. \A m \in 1..Len(engine) : engine'[m].trade = engine[m].trade
  BY <1>1, <1>2, <1>3, ExceptSeq
<1>5. AskedKept'
  BY <1>2, <1>4, AskedStays DEF KeptInv, RecordInv
<1> QED BY <1>2, <1>5, OutsideKeeps

LEMMA ThrowKeeps == ASSUME KeptInv, NEW c \in Calls, Throw(c) PROVE KeptStep
<1>1. /\ call' = [call EXCEPT ![c] = Idle] /\ Release(c)
      /\ UNCHANGED <<durable, accepted, engine, intents>>
  BY DEF Throw, docVars, chainVars
<1> QED BY <1>1, EndKeeps

LEMMA CrashKeeps == ASSUME KeptInv, NEW i \in Instances, Crash(i) PROVE KeptStep
<1>1. /\ call' = [c \in Calls |-> IF call[c].inst = i THEN Idle ELSE call[c]]
      /\ UNCHANGED <<durable, accepted, busy, engine, intents>>
  BY DEF Crash, ColdStart, chainVars, Here
<1>2. CopyOf(Idle, durable) /\ Idle.pc \notin Pending
  BY DEF CopyOf, Idle, Pending, Granted
<1> HIDE DEF Idle
<1>3. CopiesKept' /\ LeaseKept'
  BY <1>1, <1>2 DEF KeptInv, CopiesKept, LeaseKept, CopyOf, SameGrant
<1>4. AcceptedKept' /\ Keeps /\ AskedKept'
  BY <1>1, SameAsked DEF KeptInv, AcceptedKept, Keeps
<1> QED BY <1>3, <1>4 DEF KeptStep

LEMMA LeaseExpiresKeeps == ASSUME KeptInv, LeaseExpires PROVE KeptStep
<1>1. /\ call[busy].pc = "idle" /\ UNCHANGED <<durable, accepted, call, engine, intents>>
  BY DEF LeaseExpires, At, docVars, chainVars
<1>2. LeaseKept'
  BY <1>1 DEF KeptInv, LeaseKept, Pending
<1>3. CopiesKept' /\ AcceptedKept' /\ Keeps /\ AskedKept'
  BY <1>1, SameAsked DEF KeptInv, CopiesKept, AcceptedKept, Keeps, CopyOf, SameGrant
<1> QED BY <1>2, <1>3 DEF KeptStep

-----------------------------------------------------------------------------
(* The invariant *)

LEMMA KeptInit == ASSUME ~Hosted PROVE Init => KeptInv
<1> SUFFICES ASSUME Init PROVE KeptInv
  OBVIOUS
<1>1. RecordInv
  BY RecordInit
<1>2. \A x \in Trades : durable[x] = Absent
  BY DefaultAssumption DEF Init, InitStore, NoTrades
<1>3. \A c \in Calls : call[c].pc = "idle"
  BY DEF Init, Idle
<1>4. Len(intents) = 0
  BY DEF Init
<1> QED BY <1>1, <1>2, <1>3, <1>4
        DEF KeptInv, CopiesKept, LeaseKept, AcceptedKept, AskedKept, CopyOf, Pending, Granted

LEMMA KeptNext == ASSUME ~Hosted, KeptInv, [Next]_vars PROVE KeptStep
<1>1. CASE \E i \in Instances, x \in Trades : Accept(i, x)
  BY <1>1, AcceptKeeps
<1>2. CASE \E c \in Calls, i \in Instances, x \in Trades :
             ConsentRoute(c, i, x) \/ TickConsents(c, i, x)
  BY <1>2, BeginConsentKeeps DEF ConsentRoute, TickConsents
<1>3. CASE \E c \in Calls, i \in Instances, x \in Trades : TradesPage(c, i, x) \/ TickSyncs(c, i, x)
  BY <1>3, BeginSyncKeeps DEF TradesPage, TickSyncs
<1>4. CASE \E c \in Calls : Step(c)
  <2>1. "seller" \in Side /\ "buyer" \in Side
    BY DEF Side
  <2> QED BY <1>4, <2>1, CreateKeeps, AnchorKeeps, ProposeKeeps, SaveKeeps, AuthorizeKeeps,
             SyncSideKeeps, SyncEngineKeeps, SyncWriteKeeps DEF Step
<1>5. CASE \E c \in Calls : Throw(c) \/ SyncEngineFails(c) \/ \E side \in Side : SyncSideFails(c, side)
  BY <1>5, ThrowKeeps, SyncEngineKeeps, SyncSideFailsKeeps
<1>6. CASE (\E i \in Instances : Crash(i)) \/ LeaseExpires
  BY <1>6, CrashKeeps, LeaseExpiresKeeps
<1>7. CASE \E n \in 1..Len(intents) : HumanSigns(n)
  BY <1>7, HumanSignsKeeps
<1>8. CASE \E n \in 1..Len(engine), s \in EngineStates : EngineMoves(n, s)
  BY <1>8, EngineMovesKeeps
<1>9. CASE UNCHANGED vars
  <2>1. UNCHANGED <<durable, accepted, call, busy, engine, intents>>
    BY <1>9 DEF vars, docVars, chainVars
  <2> QED BY <2>1, SameAsked, OutsideKeeps
<1> QED BY <1>1, <1>2, <1>3, <1>4, <1>5, <1>6, <1>7, <1>8, <1>9 DEF Next, Ticks

LEMMA KeptNextInv == ASSUME ~Hosted, KeptInv, [Next]_vars PROVE KeptInv'
<1>1. RecordInv'
  BY RecordStep DEF KeptInv, HostedNext
<1> QED BY <1>1, KeptNext DEF KeptInv, KeptStep

LEMMA KeptImplies == ASSUME KeptInv PROVE OneLiveInstruction
<1> SUFFICES ASSUME NEW x \in Trades PROVE Cardinality(AskedToSign(x)) <= 1
  BY DEF OneLiveInstruction
<1>1. AskedToSign(x) \subseteq {durable[x].id}
  BY DEF AskedToSign, KeptInv, AskedKept
<1>2. AskedToSign(x) = {} \/ AskedToSign(x) = {durable[x].id}
  BY <1>1
<1>3. Cardinality({}) = 0 /\ Cardinality({durable[x].id}) = 1
  BY FS_EmptySet, FS_Singleton
<1> HIDE DEF AskedToSign
<1>4. Cardinality(AskedToSign(x)) \in {0, 1}
  BY <1>2, <1>3
<1> QED BY <1>4

(* On files, the instruction and the intents a record has got are never    *)
(* lost or replaced by a reconciliation that writes an older copy back,    *)
(* and a consent given is never taken back (rfq.ts 130-229).               *)
THEOREM ConsentSafety == ASSUME ~Hosted PROVE Spec => ConsentIsKept
<1>1. KeptInv /\ [Next]_vars => KeptInv'
  BY KeptNextInv
<1>2. KeptInv /\ [Next]_vars => [Keeps]_vars
  BY KeptNext DEF KeptStep
<1>3. Init => KeptInv
  BY KeptInit
<1>4. Spec => [][Keeps]_vars
  BY <1>1, <1>2, <1>3, PTL DEF Spec
<1> QED BY <1>4 DEF ConsentIsKept, Keeps

(* On files, however often a consent throws, dies and is retried, the desks*)
(* of a trade are asked to sign one instruction only (rfq.ts 118-119).     *)
THEOREM OneInstructionSafety == ASSUME ~Hosted PROVE Spec => []OneLiveInstruction
<1>1. KeptInv /\ [Next]_vars => KeptInv'
  BY KeptNextInv
<1>2. KeptInv => OneLiveInstruction
  BY KeptImplies
<1>3. Init => KeptInv
  BY KeptInit
<1> QED BY <1>1, <1>2, <1>3, PTL DEF Spec
=============================================================================
