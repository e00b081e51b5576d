-------------------------- MODULE IssuanceProofs --------------------------
(***************************************************************************)
(* Proofs about Issuance, for every value of the constants: any number of  *)
(* requests, users, records, chain steps and faults, with handlers that    *)
(* outlive their lease, resets and other users of the signing account.     *)
(*   1. Type correctness                                                   *)
(*   2. The lease: every write is a legal change of one record             *)
(*   3. The chain: what the store calls confirmed was executed, once       *)
(*   4. What a step does to the record a request has in memory             *)
(*   5. Without resets no record is dropped                                *)
(*   6. The rate of a completed asset is the rate of its notice            *)
(*   7. Signed transactions stay minable                                   *)
(*   8. The refinement of SerialIssuance                                   *)
(***************************************************************************)
EXTENDS Issuance, FiniteSetTheorems, WellFoundedInduction, TLAPS

---------------------------------------------------------------------------
(***************************************************************************)
(* 1. Type correctness                                                     *)
(*                                                                         *)
(* The type invariant alone is not inductive: signing needs a step that is *)
(* on the chain, counting an attempt needs one that is left, and a nonce   *)
(* needs a finite pool.  TypeInv adds what a request knows of its record   *)
(* at each label (LocalOK); the safety proofs build on it.                 *)
(***************************************************************************)

(* Labels at which a request works on a record it has in memory. *)
DocLabels == {"beginWrite", "reserveRead", "reserveWrite", "step", "reviewWrite",
              "sign", "persist", "attempt", "assertOwned", "broadcast", "poll",
              "publish", "record", "save"}
ChainLabels == {"sign", "persist", "attempt", "assertOwned", "broadcast", "poll"}
SentLabels == {"attempt", "assertOwned", "broadcast", "poll"}

(* A record's transaction is its own and its current step's. *)
WellFormed(rec, id) == rec.present =>
    /\ rec.terms \in Terms
    /\ rec.tx # NoTx => rec.tx.rec = id /\ rec.tx.step = rec.step
                        /\ rec.step <= ChainSteps
    /\ rec.state = "pending" => rec.tx # NoTx
WellFormedDoc(doc) == \A id \in RecordIds : WellFormed(doc[id], id)

(* What a request knows of the record it works on, label by label. *)
LocalOK(q, drawn) ==
    /\ WellFormedDoc(q.doc)
    /\ \A id \in RecordIds : q.doc[id].present => id <= drawn
    /\ q.pc = "advanceRead" => q.id \in RecordIds
    /\ q.pc \in DocLabels => q.id \in 1..drawn /\ q.doc[q.id].present
    /\ q.pc \in ChainLabels => q.doc[q.id].step <= ChainSteps
    /\ q.pc \in {"publish", "record"} => q.doc[q.id].step = NoticeStep
    /\ q.pc \in {"sign", "persist", "attempt"} =>
          q.doc[q.id].attempts < MAX_BROADCASTS
    /\ q.pc = "sign" => q.doc[q.id].tx = NoTx
    /\ q.pc \in SentLabels \cup {"persist"} => q.doc[q.id].tx # NoTx

(* The type invariant, part by part, with what makes it inductive. *)
StoreOK ==
    /\ lease \in Requests \cup {Nobody}
    /\ records \in [RecordIds -> Issuances]
    /\ marker \in 0..MaxRecords
    /\ begun \in 0..MaxRecords
    /\ WellFormedDoc(records)
    /\ \A id \in RecordIds : records[id].present => id <= begun
ReqOK ==
    /\ req \in [Requests -> RequestStates]
    /\ \A r \in Requests : LocalOK(req[r], begun)
ChainOK ==
    /\ chainNonce \in Nat
    /\ pool \subseteq Txs /\ IsFiniteSet(pool)
    /\ receipts \subseteq [tx : Txs, outcome : {"ok", "reverted", "eventless"}]
    /\ broadcast \subseteq Txs
NoticeOK == committed \subseteq [rec : RecordIds, by : Requests] /\ notices \subseteq Terms
CountOK == sent \in 0..MaxOthers /\ faults \in 0..MaxFaults
TypeInv == StoreOK /\ ReqOK /\ ChainOK /\ NoticeOK /\ CountOK

(* A non-empty set of naturals has a least element. *)
LEMMA MinNat ==
    ASSUME NEW U, U \subseteq Nat, U # {}
    PROVE  \E x \in U : \A y \in U : x <= y
<1> DEFINE R == OpToRel(<, Nat)
<1>1. IsWellFoundedOn(R, Nat)
  BY NatLessThanWellFounded, Zenon
<1>2. PICK x \in U : \A y \in U : <<y, x>> \notin R
  <2> HIDE DEF R
  <2> QED BY <1>1, WFMin
<1>3. \A y \in U : ~(y < x)
  BY <1>2, Zenon DEF OpToRel
<1> QED BY <1>3

(* The nonce the relay reports exists: the pool cannot hold every nonce of *)
(* an interval longer than itself.                                         *)
LEMMA PendingNonceType == ChainOK => PendingNonce \in Nat /\ PendingNonce >= chainNonce
<1> SUFFICES ASSUME ChainOK PROVE PendingNonce \in Nat /\ PendingNonce >= chainNonce
  OBVIOUS
<1> DEFINE c == Cardinality(pool)
           I == chainNonce..(chainNonce + c)
           U == {n \in I : \A t \in pool : t.nonce # n}
<1>1. c \in Nat /\ chainNonce \in Nat
  BY FS_CardinalityType DEF ChainOK
<1>2. IsFiniteSet(I) /\ Cardinality(I) = c + 1
  BY <1>1, FS_Interval
<1>3. U # {}
  <2> SUFFICES ASSUME U = {} PROVE FALSE
    OBVIOUS
  <2> DEFINE f == [n \in I |-> CHOOSE t \in pool : t.nonce = n]
  <2>1. \A n \in I : \E t \in pool : t.nonce = n
    OBVIOUS
  <2>2. \A n \in I : f[n] \in pool /\ f[n].nonce = n
    BY <2>1
  <2>3. f \in [I -> pool]
    BY <2>2
  <2>4. c < Cardinality(I)
    BY <1>1, <1>2
  <2> HIDE DEF f, I
  <2>5. \E x, y \in I : x # y /\ f[x] = f[y]
    BY <1>2, <2>3, <2>4, FS_PigeonHole DEF ChainOK
  <2> QED BY <2>2, <2>5
<1>4. PICK n \in U : \A k \in U : n <= k
  <2>1. U \subseteq Nat
    BY <1>1
  <2> QED BY <1>3, <2>1, MinNat
<1>5. \A k \in chainNonce..(n - 1) : \E t \in pool : t.nonce = k
  <2> SUFFICES ASSUME NEW k \in chainNonce..(n - 1), \A t \in pool : t.nonce # k
               PROVE  FALSE
    OBVIOUS
  <2>1. k \in U
    BY <1>1
  <2> QED BY <1>1, <1>4, <2>1
<1>6. \E m \in I : /\ \A t \in pool : t.nonce # m
                  /\ \A k \in chainNonce..(m - 1) : \E t \in pool : t.nonce = k
  BY <1>4, <1>5
<1>7. PendingNonce \in I
  BY <1>6 DEF PendingNonce
<1> QED BY <1>1, <1>7

(* The two states a request has no document in. *)
LEMMA IdleOK ==
    ASSUME NEW drawn
    PROVE  /\ Idle \in RequestStates /\ LocalOK(Idle, drawn)
           /\ [Idle EXCEPT !.pc = "done"] \in RequestStates
           /\ LocalOK([Idle EXCEPT !.pc = "done"], drawn)
<1>1. NoTx \in Txs /\ Absent \in Issuances
  BY IssuanceAssumption DEF NoTx, Txs, Absent, Issuances, NoticeStep, StepStates
<1>2. /\ NoDoc \in [RecordIds -> Issuances] /\ WellFormedDoc(NoDoc)
      /\ \A id \in RecordIds : ~NoDoc[id].present
  BY <1>1 DEF NoDoc, WellFormedDoc, WellFormed, Absent
<1>3. Idle \in RequestStates /\ [Idle EXCEPT !.pc = "done"] \in RequestStates
  BY <1>2, IssuanceAssumption DEF Idle, RequestStates, Labels
<1> QED
  BY <1>2, <1>3 DEF LocalOK, Idle, DocLabels, ChainLabels, SentLabels

(* A step that changes one request, to a state that is in order. *)
LEMMA OneRequest ==
    ASSUME ReqOK, NEW r \in Requests, NEW q \in RequestStates,
           begun \in Nat, begun' \in Nat, begun <= begun',
           LocalOK(q, begun'), req' = [req EXCEPT ![r] = q]
    PROVE  ReqOK'
<1>1. req' \in [Requests -> RequestStates]
  BY DEF ReqOK
<1>2. ASSUME NEW s \in Requests PROVE LocalOK(req'[s], begun')
  <2>1. CASE s = r
    BY <2>1 DEF ReqOK
  <2>2. CASE s # r
    <3>1. req'[s] = req[s] /\ LocalOK(req[s], begun)
      BY <2>2 DEF ReqOK
    <3>2. req[s].id \in 1..begun => req[s].id \in 1..begun'
      OBVIOUS
    <3>3. \A id \in RecordIds : id <= begun => id <= begun'
      BY IssuanceAssumption DEF RecordIds
    <3> QED BY <3>1, <3>2, <3>3 DEF LocalOK
  <2> QED BY <2>1, <2>2
<1> QED BY <1>1, <1>2 DEF ReqOK

(* A request that is done forgets its document. *)
LEMMA DoneOK ==
    ASSUME ReqOK, NEW r \in Requests, begun \in Nat, UNCHANGED begun, Done(r)
    PROVE  ReqOK'
<1>1. begun' \in Nat /\ begun <= begun'
  OBVIOUS
<1> DEFINE q == [Idle EXCEPT !.pc = "done"]
<1>2. q \in RequestStates /\ LocalOK(q, begun')
  BY IdleOK
<1>3. req' = [req EXCEPT ![r] = q]
  BY DEF Done
<1> HIDE DEF q
<1> QED BY <1>1, <1>2, <1>3, OneRequest

(* The record a request works on. *)
LEMMA RecOK ==
    ASSUME ReqOK, begun \in 0..MaxRecords, NEW r \in Requests, req[r].pc \in DocLabels
    PROVE  /\ req[r].id \in RecordIds /\ req[r].id \in 1..begun
           /\ req[r].doc \in [RecordIds -> Issuances]
           /\ Rec(r) \in Issuances /\ Rec(r).present
           /\ WellFormed(Rec(r), req[r].id)
BY IssuanceAssumption DEF ReqOK, RequestStates, LocalOK, Rec, RecordIds, WellFormedDoc

(* A request that only moves on must know what its new label promises. *)
LEMMA GotoOK ==
    ASSUME ReqOK, begun \in 0..MaxRecords, UNCHANGED begun, NEW r \in Requests,
           NEW label \in Labels \ {"advanceRead"}, Goto(r, label),
           label \in DocLabels => req[r].pc \in DocLabels,
           label \in ChainLabels => Rec(r).step <= ChainSteps,
           label \in {"publish", "record"} => Rec(r).step = NoticeStep,
           label \in {"sign", "persist", "attempt"} => Rec(r).attempts < MAX_BROADCASTS,
           label = "sign" => Rec(r).tx = NoTx,
           label \in SentLabels \cup {"persist"} => Rec(r).tx # NoTx
    PROVE  ReqOK'
<1> DEFINE q == [req[r] EXCEPT !.pc = label]
<1>1. req[r] \in RequestStates /\ LocalOK(req[r], begun)
  BY DEF ReqOK
<1>2. q \in RequestStates
  BY <1>1 DEF RequestStates
<1>3. req' = [req EXCEPT ![r] = q]
  BY DEF Goto, ReqOK
<1>4. begun' \in Nat /\ begun \in Nat /\ begun <= begun'
  BY IssuanceAssumption
<1>5. q.pc = label /\ q.id = req[r].id /\ q.doc = req[r].doc /\ q.doc[q.id] = Rec(r)
  BY <1>1 DEF RequestStates, Rec
<1> HIDE DEF q
<1>6. LocalOK(q, begun')
  BY <1>1, <1>5 DEF LocalOK
<1> QED BY <1>2, <1>3, <1>4, <1>6, OneRequest

(* A request that changes its record and moves on. *)
LEMMA UpdateOK ==
    ASSUME ReqOK, begun \in 0..MaxRecords, UNCHANGED begun,
           NEW r \in Requests, req[r].pc \in DocLabels,
           NEW rec \in Issuances, rec.present, WellFormed(rec, req[r].id),
           NEW label \in {"save", "reviewWrite", "persist"}, Update(r, rec, label),
           label = "persist" => /\ rec.step <= ChainSteps
                                /\ rec.attempts < MAX_BROADCASTS
                                /\ rec.tx # NoTx
    PROVE  ReqOK'
<1> DEFINE q == [req[r] EXCEPT !.doc[req[r].id] = rec, !.pc = label]
<1>1. req[r] \in RequestStates /\ LocalOK(req[r], begun)
  BY DEF ReqOK
<1>2. /\ req[r].id \in RecordIds /\ req[r].id \in 1..begun
      /\ req[r].doc \in [RecordIds -> Issuances]
  BY RecOK
<1>3. label \in Labels
  BY DEF Labels
<1>4. q \in RequestStates
  BY <1>1, <1>2, <1>3 DEF RequestStates
<1>5. q.id = req[r].id /\ q.pc = label
      /\ q.doc = [req[r].doc EXCEPT ![req[r].id] = rec] /\ q.doc[q.id] = rec
  BY <1>1, <1>2 DEF RequestStates
<1>6. WellFormedDoc(q.doc)
  BY <1>1, <1>2, <1>5 DEF LocalOK, WellFormedDoc
<1>7. LocalOK(q, begun')
  <2> HIDE DEF q
  <2>1. \A id \in RecordIds : req[r].doc[id].present => id <= begun'
    BY <1>1 DEF LocalOK
  <2>2. \A id \in RecordIds : q.doc[id].present => id <= begun'
    BY <1>2, <1>5, <2>1
  <2>3. rec.present /\ q.id \in 1..begun'
    BY <1>2, <1>5
  <2> QED
    BY <1>5, <1>6, <2>2, <2>3 DEF LocalOK, DocLabels, ChainLabels, SentLabels
<1>8. req' = [req EXCEPT ![r] = q]
  BY <1>1 DEF Update, ReqOK
<1>9. begun \in Nat /\ begun' \in Nat /\ begun <= begun'
  BY IssuanceAssumption
<1> HIDE DEF q
<1> QED BY <1>4, <1>7, <1>8, <1>9, OneRequest

(* A step that leaves everything but the requests alone. *)
LEMMA OnlyRequests ==
    ASSUME TypeInv, ReqOK',
           UNCHANGED <<storeVars, chainVars, noticeVars, broadcast, countVars>>
    PROVE  TypeInv'
BY DEF TypeInv, StoreOK, ChainOK, NoticeOK, CountOK, storeVars, chainVars,
       noticeVars, countVars

(* The next step of a record is queued, with nothing signed. *)
LEMMA NextStepOK ==
    ASSUME NEW rec \in Issuances, NEW id, rec.present, WellFormed(rec, id),
           rec.step <= NoticeStep
    PROVE  /\ NextStep(rec) \in Issuances /\ NextStep(rec).present
           /\ WellFormed(NextStep(rec), id)
<1>1. NoTx \in Txs
  BY IssuanceAssumption DEF NoTx, Txs
<1>2. rec.step + 1 \in 1..(NoticeStep + 1)
  BY IssuanceAssumption DEF Issuances, NoticeStep
<1>3. 0 \in 0..MAX_BROADCASTS
  BY IssuanceAssumption
<1>4. NextStep(rec) \in Issuances
  BY <1>1, <1>2, <1>3 DEF NextStep, Issuances, StepStates
<1>5. NextStep(rec).present /\ NextStep(rec).tx = NoTx
      /\ NextStep(rec).terms = rec.terms /\ NextStep(rec).state = "queued"
  BY DEF NextStep, Issuances
<1> QED BY <1>4, <1>5 DEF WellFormed

(* A decided receipt leaves a record in order. *)
LEMMA ConfirmedOK ==
    ASSUME NEW rec \in Issuances, NEW id, rec.present, WellFormed(rec, id),
           rec.step <= ChainSteps, NEW outcome \in {"ok", "reverted", "eventless"}
    PROVE  /\ Confirmed(rec, outcome) \in Issuances
           /\ Confirmed(rec, outcome).present
           /\ WellFormed(Confirmed(rec, outcome), id)
<1>1. CASE outcome = "ok"
  <2>1. rec.step <= NoticeStep
    BY IssuanceAssumption DEF NoticeStep, Issuances
  <2> QED BY <1>1, <2>1, NextStepOK DEF Confirmed
<1>2. CASE outcome = "reverted"
  BY <1>2 DEF Confirmed, Issuances, WellFormed, StepStates
<1>3. CASE outcome = "eventless"
  BY <1>3 DEF Confirmed, Issuances, WellFormed, StepStates
<1> QED BY <1>1, <1>2, <1>3

(* A request that takes the lease starts with nothing in memory. *)
LEMMA StartType ==
    ASSUME TypeInv, NEW r \in Requests,
           NEW job \in {"begin", "advance", "reset", "consent"},
           NEW label \in {"beginRead", "advanceRead", "resetRead", "send"},
           NEW u \in Users \cup {NoUser}, NEW id \in 0..MaxRecords,
           label = "advanceRead" => id \in RecordIds,
           Start(r, job, label, u, id)
    PROVE  TypeInv'
<1> DEFINE q == [Idle EXCEPT !.pc = label, !.job = job, !.user = u, !.id = id]
<1>1. Idle \in RequestStates /\ LocalOK(Idle, begun)
  BY IdleOK
<1>2. q \in RequestStates
  BY <1>1 DEF RequestStates, Labels
<1>3. q.pc = label /\ q.id = id /\ q.doc = Idle.doc
  BY DEF Idle
<1>4. req' = [req EXCEPT ![r] = q] /\ lease' = r /\ UNCHANGED <<records, marker>>
      /\ UNCHANGED <<chainVars, noticeVars, broadcast, countVars>>
  BY DEF Start, Claim
<1> HIDE DEF q
<1>5. LocalOK(q, begun') /\ begun' \in Nat /\ begun \in Nat /\ begun <= begun'
  <2>1. begun' = begun /\ begun \in Nat
    BY <1>4, IssuanceAssumption DEF countVars, TypeInv, StoreOK
  <2> QED
    BY <1>1, <2>1, <1>3, <1>4 DEF LocalOK, DocLabels, ChainLabels, SentLabels
<1>6. ReqOK'
  BY <1>2, <1>4, <1>5, OneRequest DEF TypeInv
<1> QED
  BY <1>4, <1>6 DEF TypeInv, StoreOK, ChainOK, NoticeOK, CountOK, chainVars,
     noticeVars, countVars

(* beginIssuance. *)
LEMMA BeginType ==
    ASSUME TypeInv, NEW r \in Requests, BeginRead(r)
    PROVE  TypeInv'
<1>1. CASE Done(r) /\ UNCHANGED begun
  <2>1. UNCHANGED <<storeVars, chainVars, noticeVars, broadcast, countVars>>
    BY <1>1 DEF BeginRead, countVars
  <2>2. ReqOK'
    BY <1>1, IssuanceAssumption, DoneOK DEF TypeInv, StoreOK
  <2> QED BY <2>1, <2>2, OnlyRequests
<1>2. ASSUME NEW t \in Terms, ComposeRecord(r, t)
      PROVE  TypeInv'
  <2> DEFINE new == NewRecord(req[r].user, t)
             doc == [records EXCEPT ![begun + 1] = new]
             q == [req[r] EXCEPT !.doc = doc, !.id = begun + 1, !.pc = "beginWrite"]
  <2>1. begun + 1 \in RecordIds /\ begun' = begun + 1 /\ begun \in Nat
        /\ begun' \in 0..MaxRecords
    BY <1>2, IssuanceAssumption DEF ComposeRecord, TypeInv, StoreOK, RecordIds
  <2>2. req[r] \in RequestStates /\ LocalOK(req[r], begun)
    BY DEF TypeInv, ReqOK
  <2>3. new \in Issuances /\ new.present /\ WellFormed(new, begun + 1)
    <3>1. NoTx \in Txs
      BY IssuanceAssumption DEF NoTx, Txs
    <3>2. 1 \in 1..(NoticeStep + 1) /\ 0 \in 0..MAX_BROADCASTS
      BY IssuanceAssumption DEF NoticeStep
    <3> QED
      BY <2>2, <3>1, <3>2 DEF NewRecord, Absent, Issuances, StepStates, WellFormed,
         RequestStates
  <2>4. doc \in [RecordIds -> Issuances] /\ doc[begun + 1] = new
        /\ WellFormedDoc(doc)
    BY <2>1, <2>3 DEF TypeInv, StoreOK, WellFormedDoc
  <2>5. q \in RequestStates
    BY <2>1, <2>2, <2>4 DEF RequestStates, Labels, RecordIds
  <2>51. \A id \in RecordIds : doc[id].present => id <= begun + 1
    BY <2>1, IssuanceAssumption DEF TypeInv, StoreOK, RecordIds
  <2>6. q.pc = "beginWrite" /\ q.id = begun + 1 /\ q.doc = doc
    BY <2>2 DEF RequestStates
  <2>7. req' = [req EXCEPT ![r] = q]
    BY <1>2 DEF ComposeRecord, TypeInv, ReqOK
  <2> HIDE DEF q, doc, new
  <2>8. LocalOK(q, begun') /\ begun <= begun' /\ begun' \in Nat
    BY <2>1, <2>3, <2>4, <2>51, <2>6 DEF LocalOK, DocLabels, ChainLabels, SentLabels
  <2>9. ReqOK'
    BY <2>1, <2>5, <2>7, <2>8, OneRequest DEF TypeInv
  <2>10. UNCHANGED <<storeVars, chainVars, noticeVars, broadcast, sent, faults>>
    BY DEF BeginRead
  <2>11. StoreOK'
    <3>1. \A id \in RecordIds : id <= begun => id <= begun + 1
      BY <2>1 DEF RecordIds
    <3> QED BY <2>1, <2>10, <3>1 DEF TypeInv, StoreOK, storeVars
  <2> QED
    BY <2>9, <2>10, <2>11 DEF TypeInv, ChainOK, NoticeOK, CountOK, chainVars,
       noticeVars
<1> QED BY <1>1, <1>2 DEF BeginRead

(* Whatever document the owner writes is one it has in memory, or a part   *)
(* of it.                                                                  *)
LEMMA WriteType ==
    ASSUME TypeInv, NEW r \in Requests, NEW doc \in [RecordIds -> Issuances],
           WellFormedDoc(doc), \A id \in RecordIds : doc[id].present => id <= begun,
           HostedWriteRecords(r, doc), ReqOK',
           UNCHANGED <<chainVars, noticeVars, broadcast, countVars>>
    PROVE  TypeInv'
BY DEF HostedWriteRecords, TypeInv, StoreOK, ChainOK, NoticeOK, CountOK, chainVars,
       noticeVars, countVars

(* The frame of a step that changes one record in memory, or none. *)
LEMMA UpdateType ==
    ASSUME TypeInv, NEW r \in Requests, req[r].pc \in DocLabels,
           NEW rec \in Issuances, rec.present, WellFormed(rec, req[r].id),
           NEW label \in {"save", "reviewWrite", "persist"}, Update(r, rec, label),
           label = "persist" => /\ rec.step <= ChainSteps
                                /\ rec.attempts < MAX_BROADCASTS
                                /\ rec.tx # NoTx,
           UNCHANGED <<storeVars, chainVars, noticeVars, broadcast, countVars>>
    PROVE  TypeInv'
BY UpdateOK, OnlyRequests DEF TypeInv, StoreOK, countVars

(* A request that only moves on. *)
LEMMA GotoType ==
    ASSUME TypeInv, NEW r \in Requests,
           NEW label \in Labels \ {"advanceRead"}, Goto(r, label),
           label \in DocLabels => req[r].pc \in DocLabels,
           label \in ChainLabels => Rec(r).step <= ChainSteps,
           label \in {"publish", "record"} => Rec(r).step = NoticeStep,
           label \in {"sign", "persist", "attempt"} => Rec(r).attempts < MAX_BROADCASTS,
           label = "sign" => Rec(r).tx = NoTx,
           label \in SentLabels \cup {"persist"} => Rec(r).tx # NoTx,
           UNCHANGED <<storeVars, chainVars, noticeVars, broadcast, countVars>>
    PROVE  TypeInv'
BY GotoOK, OnlyRequests DEF TypeInv, StoreOK, countVars

(* A request that returns or throws. *)
LEMMA DoneType ==
    ASSUME TypeInv, NEW r \in Requests, Done(r),
           UNCHANGED <<storeVars, chainVars, noticeVars, broadcast, countVars>>
    PROVE  TypeInv'
BY DoneOK, OnlyRequests, IssuanceAssumption DEF TypeInv, StoreOK, countVars

(* A write that saves the document in memory, or finds the lease lost. *)
LEMMA SaveType ==
    ASSUME TypeInv, NEW r \in Requests, NEW label \in Labels \ {"advanceRead"},
           SaveRecords(r, label),
           label \in DocLabels => req[r].pc \in DocLabels,
           label \in ChainLabels => Rec(r).step <= ChainSteps,
           label \notin {"publish", "record", "sign"},
           label \in {"persist", "attempt"} => Rec(r).attempts < MAX_BROADCASTS,
           label \in SentLabels \cup {"persist"} => Rec(r).tx # NoTx
    PROVE  TypeInv'
<1>1. begun \in 0..MaxRecords /\ UNCHANGED begun
      /\ UNCHANGED <<chainVars, noticeVars, broadcast, countVars>>
  BY DEF SaveRecords, countVars, TypeInv, StoreOK
<1>2. CASE HostedWriteRecords(r, req[r].doc) /\ Goto(r, label)
  <2>1. ReqOK'
    BY <1>1, <1>2, GotoOK DEF TypeInv
  <2>2. /\ req[r].doc \in [RecordIds -> Issuances] /\ WellFormedDoc(req[r].doc)
        /\ \A id \in RecordIds : req[r].doc[id].present => id <= begun
    BY DEF TypeInv, ReqOK, RequestStates, LocalOK
  <2> QED BY <1>1, <1>2, <2>1, <2>2, WriteType
<1>3. CASE Done(r) /\ UNCHANGED storeVars
  BY <1>1, <1>3, DoneType
<1> QED BY <1>2, <1>3 DEF SaveRecords

(* Reserving ends beginIssuance and starts a step. *)
LEMMA ReservedType ==
    ASSUME TypeInv, NEW r \in Requests, req[r].pc \in DocLabels, Reserved(r),
           UNCHANGED <<storeVars, chainVars, noticeVars, broadcast, countVars>>
    PROVE  TypeInv'
<1>1. "step" \in Labels \ {"advanceRead"}
  BY DEF Labels
<1>2. CASE Done(r)
  BY <1>2, DoneType
<1>3. CASE Goto(r, "step")
  BY <1>1, <1>3, GotoType DEF DocLabels, ChainLabels, SentLabels
<1> QED BY <1>2, <1>3 DEF Reserved

---------------------------------------------------------------------------
(* The steps, one by one *)

(* reserveOperator's marker write. *)
LEMMA ReserveWriteType ==
    ASSUME TypeInv, NEW r \in Requests, ReserveWrite(r)
    PROVE  TypeInv'
<1>1. req[r].pc = "reserveWrite" /\ UNCHANGED <<chainVars, noticeVars, broadcast, countVars>>
  BY DEF ReserveWrite, At
<1>2. CASE HostedWriteMarker(r, req[r].id) /\ Reserved(r)
  <2>1. req[r].pc \in DocLabels /\ req[r].id \in 0..MaxRecords
    BY <1>1 DEF DocLabels, TypeInv, ReqOK, RequestStates
  <2>2. begun \in 0..MaxRecords /\ UNCHANGED begun
    BY <1>1 DEF TypeInv, StoreOK, countVars
  <2>3. ReqOK'
    <3>1. CASE Done(r)
      BY <2>2, <3>1, DoneOK, IssuanceAssumption DEF TypeInv
    <3>2. CASE Goto(r, "step")
      <4>1. "step" \in Labels \ {"advanceRead"}
        BY DEF Labels
      <4> QED
        BY <2>1, <2>2, <3>2, <4>1, GotoOK DEF TypeInv, DocLabels, ChainLabels, SentLabels
    <3> QED BY <1>2, <3>1, <3>2 DEF Reserved
  <2> QED
    BY <1>1, <1>2, <2>1, <2>3 DEF HostedWriteMarker, TypeInv, StoreOK, ChainOK,
       NoticeOK, CountOK, chainVars, noticeVars, countVars
<1>3. CASE Done(r) /\ UNCHANGED storeVars
  BY <1>1, <1>3, DoneType
<1> QED BY <1>2, <1>3 DEF ReserveWrite

(* A request that reads the whole document to work on it. *)
LEMMA ReadType ==
    ASSUME TypeInv, NEW r \in Requests,
           NEW label \in {"reserveRead", "resetWrite"},
           label = "reserveRead" => req[r].id \in RecordIds /\ records[req[r].id].present,
           req' = [req EXCEPT ![r].doc = records, ![r].pc = label],
           UNCHANGED <<storeVars, chainVars, noticeVars, broadcast, countVars>>
    PROVE  TypeInv'
<1> DEFINE q == [req[r] EXCEPT !.doc = records, !.pc = label]
<1>1. req[r] \in RequestStates
  BY DEF TypeInv, ReqOK
<1>2. q \in RequestStates /\ req' = [req EXCEPT ![r] = q]
  BY <1>1 DEF TypeInv, StoreOK, ReqOK, RequestStates, Labels
<1>3. q.pc = label /\ q.id = req[r].id /\ q.doc = records
  BY <1>1 DEF RequestStates
<1> HIDE DEF q
<1>4. begun \in Nat /\ begun' \in Nat /\ begun <= begun' /\ begun' = begun
  BY IssuanceAssumption DEF TypeInv, StoreOK, countVars
<1>5. label = "reserveRead" => q.id \in 1..begun' /\ q.doc[q.id].present
  BY <1>3, <1>4 DEF TypeInv, StoreOK, RecordIds
<1>6. LocalOK(q, begun')
  BY <1>3, <1>4, <1>5
     DEF TypeInv, StoreOK, LocalOK, DocLabels, ChainLabels, SentLabels
<1>7. ReqOK'
  BY <1>2, <1>4, <1>6, OneRequest DEF TypeInv
<1> QED BY <1>7, OnlyRequests

(* advanceIssuance reads the document and works on an active record. *)
LEMMA AdvanceReadType ==
    ASSUME TypeInv, NEW r \in Requests, AdvanceRead(r)
    PROVE  TypeInv'
<1>1. CASE Done(r)
  BY <1>1, DoneType DEF AdvanceRead
<1>2. CASE /\ Active(records[req[r].id])
           /\ req' = [req EXCEPT ![r].doc = records, ![r].pc = "reserveRead"]
  <2>1. req[r].id \in RecordIds
    BY DEF AdvanceRead, At, TypeInv, ReqOK, LocalOK
  <2> QED BY <1>2, <2>1, ReadType DEF AdvanceRead, Active
<1> QED BY <1>1, <1>2 DEF AdvanceRead

(* The steps of advanceIssuance that change the record in memory. *)
LEMMA VerifyType ==
    ASSUME TypeInv, NEW r \in Requests, Verify(r)
    PROVE  TypeInv'
<1>1. req[r].pc \in DocLabels
  BY DEF Verify, At, DocLabels
<1>2. CASE Done(r)
  BY <1>2, DoneType DEF Verify
<1>3. CASE Update(r, [Rec(r) EXCEPT !.completed = TRUE], "save")
  <2> DEFINE new == [Rec(r) EXCEPT !.completed = TRUE]
  <2>1. /\ Rec(r) \in Issuances /\ Rec(r).present
        /\ WellFormed(Rec(r), req[r].id)
    BY <1>1, RecOK DEF TypeInv, StoreOK
  <2>2. new \in Issuances /\ new.present /\ WellFormed(new, req[r].id)
    BY <2>1 DEF Issuances, WellFormed
  <2> QED BY <1>1, <1>3, <2>2, UpdateType DEF Verify
<1> QED BY <1>2, <1>3 DEF Verify

(* commitNotice's search moves the record past the notice, or goes on. *)
LEMMA FindNoticeType ==
    ASSUME TypeInv, NEW r \in Requests, FindNotice(r)
    PROVE  TypeInv'
<1>1. req[r].pc \in DocLabels /\ Rec(r).step = NoticeStep
  BY DEF FindNotice, At, DocLabels
<1>2. CASE Update(r, NextStep(Rec(r)), "save")
  <2>1. /\ Rec(r) \in Issuances /\ Rec(r).present
        /\ WellFormed(Rec(r), req[r].id)
    BY <1>1, RecOK DEF TypeInv, StoreOK
  <2>2. Rec(r).step <= NoticeStep
    BY <1>1, <2>1 DEF Issuances
  <2> QED BY <1>1, <1>2, <2>1, <2>2, NextStepOK, UpdateType DEF FindNotice
<1>3. CASE Goto(r, "publish")
  <2>1. "publish" \in Labels \ {"advanceRead"}
    BY DEF Labels
  <2> QED
    BY <1>1, <1>3, <2>1, GotoType DEF FindNotice, ChainLabels, SentLabels
<1> QED BY <1>2, <1>3 DEF FindNotice

(* createAndCommit's publication. *)
LEMMA PublishNoticeType ==
    ASSUME TypeInv, NEW r \in Requests, PublishNotice(r)
    PROVE  TypeInv'
<1>1. req[r].pc = "publish" /\ req[r].pc \in DocLabels
  BY DEF PublishNotice, At, DocLabels
<1>2. req[r].id \in RecordIds /\ Rec(r).step = NoticeStep
  BY <1>1, RecOK DEF TypeInv, StoreOK, ReqOK, LocalOK, Rec
<1>3. begun \in 0..MaxRecords /\ UNCHANGED begun
  BY DEF PublishNotice, TypeInv, StoreOK, countVars
<1>4. "record" \in Labels \ {"advanceRead"}
  BY DEF Labels
<1>5. ReqOK'
  BY <1>1, <1>2, <1>3, <1>4, GotoOK
     DEF PublishNotice, TypeInv, ChainLabels, SentLabels
<1> QED
  BY <1>2, <1>5 DEF PublishNotice, TypeInv, StoreOK, ChainOK, NoticeOK, CountOK,
     storeVars, chainVars, countVars

(* createAndCommit's write of the notices document. *)
LEMMA RecordNoticeType ==
    ASSUME TypeInv, NEW r \in Requests, RecordNotice(r)
    PROVE  TypeInv'
<1>1. req[r].pc = "record" /\ req[r].pc \in DocLabels
  BY DEF RecordNotice, At, DocLabels
<1>2. /\ Rec(r) \in Issuances /\ Rec(r).present
      /\ WellFormed(Rec(r), req[r].id) /\ Rec(r).step = NoticeStep
  BY <1>1, RecOK DEF TypeInv, StoreOK, ReqOK, LocalOK, Rec
<1>3. Rec(r).step <= NoticeStep /\ Rec(r).terms \in Terms
  BY <1>2 DEF Issuances, WellFormed
<1>4. begun \in 0..MaxRecords /\ UNCHANGED begun
  BY DEF RecordNotice, TypeInv, StoreOK, countVars
<1>5. ReqOK'
  BY <1>1, <1>2, <1>3, <1>4, NextStepOK, UpdateOK DEF RecordNotice, TypeInv
<1> QED
  BY <1>3, <1>5 DEF RecordNotice, TypeInv, StoreOK, ChainOK, NoticeOK, CountOK,
     storeVars, chainVars, countVars

(* A receipt decides a step, at its start or after its broadcast. *)
LEMMA ReceiptType ==
    ASSUME TypeInv, NEW r \in Requests, req[r].pc \in DocLabels,
           Rec(r).step <= ChainSteps, NEW x \in receipts,
           Update(r, Confirmed(Rec(r), x.outcome), "save"),
           UNCHANGED <<storeVars, chainVars, noticeVars, broadcast, countVars>>
    PROVE  TypeInv'
<1>1. x.outcome \in {"ok", "reverted", "eventless"}
  BY DEF TypeInv, ChainOK
<1>2. /\ Rec(r) \in Issuances /\ Rec(r).present
      /\ WellFormed(Rec(r), req[r].id)
  BY RecOK DEF TypeInv, StoreOK
<1>3. LET new == Confirmed(Rec(r), x.outcome)
      IN  new \in Issuances /\ new.present /\ WellFormed(new, req[r].id)
  BY <1>1, <1>2, ConfirmedOK
<1> QED BY <1>3, UpdateType

(* The receipt of an earlier broadcast. *)
LEMMA CheckReceiptType ==
    ASSUME TypeInv, NEW r \in Requests, CheckReceipt(r)
    PROVE  TypeInv'
<1>1. req[r].pc \in DocLabels /\ Rec(r).step <= ChainSteps
  BY DEF CheckReceipt, OnChainStep, At, DocLabels
<1> QED BY <1>1, ReceiptType DEF CheckReceipt

(* Polling for a receipt after a broadcast. *)
LEMMA PollType ==
    ASSUME TypeInv, NEW r \in Requests, Poll(r)
    PROVE  TypeInv'
<1>1. req[r].pc \in DocLabels /\ Rec(r).step <= ChainSteps
  BY DEF Poll, At, DocLabels, ChainLabels, TypeInv, ReqOK, LocalOK, Rec
<1>2. CASE Goto(r, "save")
  <2>1. "save" \in Labels \ {"advanceRead"}
    BY DEF Labels
  <2> QED BY <1>1, <1>2, <2>1, GotoType DEF Poll, ChainLabels, SentLabels
<1>3. CASE \E x \in receipts : Update(r, Confirmed(Rec(r), x.outcome), "save")
  BY <1>1, <1>3, ReceiptType DEF Poll
<1> QED BY <1>2, <1>3 DEF Poll

(* Giving up, signing, or sending the stored bytes again. *)
LEMMA ChooseAttemptType ==
    ASSUME TypeInv, NEW r \in Requests, ChooseAttempt(r)
    PROVE  TypeInv'
<1>1. req[r].pc \in DocLabels /\ Rec(r).step <= ChainSteps
  BY DEF ChooseAttempt, OnChainStep, At, DocLabels
<1>2. /\ Rec(r) \in Issuances /\ Rec(r).present
      /\ WellFormed(Rec(r), req[r].id)
  BY <1>1, RecOK DEF TypeInv, StoreOK
<1>3. CASE /\ Rec(r).attempts >= MAX_BROADCASTS
           /\ Update(r, [Rec(r) EXCEPT !.state = "review"], "reviewWrite")
  <2> DEFINE new == [Rec(r) EXCEPT !.state = "review"]
  <2>1. new \in Issuances /\ new.present /\ WellFormed(new, req[r].id)
    BY <1>2 DEF Issuances, WellFormed, StepStates
  <2> QED BY <1>1, <1>3, <2>1, UpdateType DEF ChooseAttempt
<1>4. CASE /\ Rec(r).attempts < MAX_BROADCASTS
           /\ Goto(r, IF Rec(r).tx = NoTx THEN "sign" ELSE "attempt")
  <2>1. {"sign", "attempt"} \subseteq Labels \ {"advanceRead"}
    BY DEF Labels
  <2>2. CASE Rec(r).tx = NoTx /\ Goto(r, "sign")
    BY <1>1, <1>4, <2>1, <2>2, GotoType DEF ChooseAttempt, SentLabels
  <2>3. CASE Rec(r).tx # NoTx /\ Goto(r, "attempt")
    BY <1>1, <1>4, <2>1, <2>3, GotoType DEF ChooseAttempt
  <2> QED BY <1>4, <2>2, <2>3
<1> QED BY <1>3, <1>4 DEF ChooseAttempt

(* A signature gives the record its own step's transaction. *)
LEMMA SignType ==
    ASSUME TypeInv, NEW r \in Requests, Sign(r)
    PROVE  TypeInv'
<1> DEFINE tx == [rec |-> req[r].id, step |-> Rec(r).step,
                  nonce |-> PendingNonce, by |-> r]
           new == [Rec(r) EXCEPT !.tx = tx, !.state = "pending"]
<1>1. req[r].pc = "sign" /\ req[r].pc \in DocLabels
  BY DEF Sign, At, DocLabels
<1>2. /\ Rec(r) \in Issuances /\ Rec(r).present /\ req[r].id \in RecordIds
      /\ WellFormed(Rec(r), req[r].id)
  BY <1>1, RecOK DEF TypeInv, StoreOK
<1>3. Rec(r).step <= ChainSteps /\ Rec(r).attempts < MAX_BROADCASTS
  BY <1>1 DEF TypeInv, ReqOK, LocalOK, Rec, ChainLabels
<1>4. tx \in Txs /\ tx # NoTx
  <2>1. PendingNonce \in Nat
    BY PendingNonceType DEF TypeInv
  <2>2. Rec(r).step \in 0..ChainSteps
    BY <1>2, <1>3, IssuanceAssumption DEF Issuances, NoticeStep
  <2>3. req[r].id \in 0..MaxRecords /\ r # Nobody
    BY <1>2, IssuanceAssumption DEF RecordIds
  <2> QED BY <2>1, <2>2, <2>3 DEF Txs, NoTx
<1>5. /\ new.present /\ new.tx = tx /\ new.step = Rec(r).step
      /\ new.terms = Rec(r).terms /\ new.attempts = Rec(r).attempts
  BY <1>2 DEF Issuances
<1>6. new \in Issuances /\ WellFormed(new, req[r].id)
  <2>1. new \in Issuances
    BY <1>2, <1>4 DEF Issuances, StepStates
  <2>2. tx.rec = req[r].id /\ tx.step = Rec(r).step
    OBVIOUS
  <2> HIDE DEF tx, new
  <2> QED BY <1>2, <1>3, <1>4, <1>5, <2>1, <2>2 DEF WellFormed
<1>7. Update(r, new, "persist")
  BY DEF Sign
<1> HIDE DEF tx, new
<1> QED BY <1>1, <1>3, <1>4, <1>5, <1>6, <1>7, UpdateType DEF Sign

(* Counting an attempt stores the record with one more. *)
LEMMA AttemptType ==
    ASSUME TypeInv, NEW r \in Requests, Attempt(r)
    PROVE  TypeInv'
<1> DEFINE new == [Rec(r) EXCEPT !.attempts = Rec(r).attempts + 1]
           doc == [req[r].doc EXCEPT ![req[r].id] = new]
           q == [req[r] EXCEPT !.doc = doc, !.pc = "assertOwned"]
<1>1. req[r].pc = "attempt" /\ req[r].pc \in DocLabels
  BY DEF Attempt, At, DocLabels
<1>2. /\ Rec(r) \in Issuances /\ Rec(r).present /\ req[r].id \in RecordIds
      /\ WellFormed(Rec(r), req[r].id) /\ req[r].id \in 1..begun
      /\ req[r].doc \in [RecordIds -> Issuances]
  BY <1>1, RecOK DEF TypeInv, StoreOK
<1>3. /\ req[r] \in RequestStates /\ LocalOK(req[r], begun)
      /\ Rec(r).step <= ChainSteps /\ Rec(r).attempts < MAX_BROADCASTS
      /\ Rec(r).tx # NoTx
  BY <1>1 DEF TypeInv, ReqOK, LocalOK, Rec, ChainLabels, SentLabels
<1>4. begun \in Nat /\ begun' \in Nat /\ begun <= begun' /\ begun' = begun
  BY IssuanceAssumption DEF TypeInv, StoreOK, countVars, Attempt
<1>5. CASE Done(r) /\ UNCHANGED storeVars
  BY <1>5, DoneType DEF Attempt
<1>6. CASE HostedWriteRecords(r, doc) /\ req' = [req EXCEPT ![r].doc = doc,
                                                           ![r].pc = "assertOwned"]
  <2>1. /\ new \in Issuances /\ new.present /\ WellFormed(new, req[r].id)
        /\ new.step = Rec(r).step /\ new.tx = Rec(r).tx
    <3>1. Rec(r).attempts + 1 \in 0..MAX_BROADCASTS
      BY <1>2, <1>3, IssuanceAssumption DEF Issuances
    <3> QED BY <1>2, <3>1 DEF Issuances, WellFormed
  <2>2. doc \in [RecordIds -> Issuances] /\ doc[req[r].id] = new
    BY <1>2, <2>1
  <2>3. WellFormedDoc(doc)
    BY <1>2, <1>3, <2>1 DEF LocalOK, WellFormedDoc
  <2>4. \A id \in RecordIds : doc[id].present => id <= begun
    <3>1. \A id \in RecordIds : req[r].doc[id].present => id <= begun
      BY <1>3 DEF LocalOK
    <3> QED BY <1>2, <3>1
  <2>5. q \in RequestStates /\ req' = [req EXCEPT ![r] = q]
    BY <1>3, <1>6, <2>2 DEF TypeInv, ReqOK, RequestStates, Labels
  <2>6. q.pc = "assertOwned" /\ q.id = req[r].id /\ q.doc = doc
    BY <1>3 DEF RequestStates
  <2> HIDE DEF q, doc, new
  <2>7. LocalOK(q, begun')
    BY <1>2, <1>3, <1>4, <2>1, <2>2, <2>3, <2>4, <2>6
       DEF LocalOK, DocLabels, ChainLabels, SentLabels
  <2>8. ReqOK'
    BY <1>4, <2>5, <2>7, OneRequest DEF TypeInv
  <2> QED BY <1>6, <2>2, <2>3, <2>4, <2>8, WriteType DEF Attempt
<1>7. [req[r].doc EXCEPT ![req[r].id].attempts = Rec(r).attempts + 1] = doc
  BY DEF Rec
<1>8. Attempt(r) => \/ Done(r) /\ UNCHANGED storeVars
                    \/ /\ HostedWriteRecords(r, doc)
                       /\ req' = [req EXCEPT ![r].doc = doc, ![r].pc = "assertOwned"]
  <2> HIDE DEF doc
  <2> QED BY <1>7 DEF Attempt
<1> QED BY <1>5, <1>6, <1>8

(* A broadcast sends the transaction of the record in memory. *)
LEMMA BroadcastType ==
    ASSUME TypeInv, NEW r \in Requests, Broadcast(r)
    PROVE  TypeInv'
<1>1. req[r].pc = "broadcast" /\ req[r].pc \in DocLabels
  BY DEF Broadcast, At, DocLabels
<1>2. /\ Rec(r) \in Issuances /\ Rec(r).step <= ChainSteps /\ Rec(r).tx # NoTx
  BY <1>1, RecOK DEF TypeInv, StoreOK, ReqOK, LocalOK, Rec, ChainLabels, SentLabels
<1>3. begun \in 0..MaxRecords /\ UNCHANGED begun
  BY DEF Broadcast, TypeInv, StoreOK, countVars
<1>4. "poll" \in Labels \ {"advanceRead"}
  BY DEF Labels
<1>5. ReqOK'
  BY <1>1, <1>2, <1>3, <1>4, GotoOK DEF Broadcast, TypeInv
<1>6. Rec(r).tx \in Txs
  BY <1>2 DEF Issuances
<1>7. ChainOK'
  BY <1>6, FS_AddElement DEF Broadcast, Send, TypeInv, ChainOK
<1> QED
  BY <1>5, <1>7 DEF Broadcast, TypeInv, StoreOK, NoticeOK, CountOK, storeVars,
     noticeVars, countVars

(* saveProgress stores the record, and may clear the marker. *)
LEMMA SaveProgressType ==
    ASSUME TypeInv, NEW r \in Requests, SaveProgress(r)
    PROVE  TypeInv'
<1>1. Done(r) /\ UNCHANGED <<chainVars, noticeVars, broadcast, countVars>>
  BY DEF SaveProgress
<1>2. begun \in Nat /\ UNCHANGED begun
  BY <1>1, IssuanceAssumption DEF TypeInv, StoreOK, countVars
<1>3. ReqOK'
  BY <1>1, <1>2, DoneOK DEF TypeInv
<1>4. /\ req[r].doc \in [RecordIds -> Issuances] /\ WellFormedDoc(req[r].doc)
      /\ \A id \in RecordIds : req[r].doc[id].present => id <= begun
  BY DEF TypeInv, ReqOK, RequestStates, LocalOK
<1>5. CASE HostedWriteAndReleaseOperator(r, req[r].doc, req[r].id)
  <2>1. StoreOK'
    BY <1>2, <1>4, <1>5, IssuanceAssumption
       DEF HostedWriteAndReleaseOperator, TypeInv, StoreOK
  <2> QED
    BY <1>1, <1>3, <2>1 DEF TypeInv, ChainOK, NoticeOK, CountOK, chainVars,
       noticeVars, countVars
<1>6. CASE HostedWriteRecords(r, req[r].doc)
  BY <1>1, <1>3, <1>4, <1>6, WriteType
<1>7. CASE UNCHANGED storeVars
  BY <1>1, <1>7, DoneType
<1> QED BY <1>5, <1>6, <1>7 DEF SaveProgress

(* The steps of advanceIssuance and beginIssuance together. *)
LEMMA IssuanceStepType ==
    ASSUME TypeInv, NEW r \in Requests, IssuanceStep(r)
    PROVE  TypeInv'
<1>1. CASE BeginWrite(r)
  <2>1. req[r].pc \in DocLabels /\ "reserveRead" \in Labels \ {"advanceRead"}
    BY <1>1 DEF BeginWrite, At, DocLabels, Labels
  <2> QED BY <1>1, <2>1, SaveType DEF BeginWrite, ChainLabels, SentLabels
<1>2. CASE ReserveRead(r)
  <2>1. req[r].pc \in DocLabels /\ "reserveWrite" \in Labels \ {"advanceRead"}
    BY <1>2 DEF ReserveRead, At, DocLabels, Labels
  <2>2. CASE Done(r)
    BY <1>2, <2>2, DoneType DEF ReserveRead
  <2>3. CASE Reserved(r)
    BY <1>2, <2>1, <2>3, ReservedType DEF ReserveRead
  <2>4. CASE Goto(r, "reserveWrite")
    BY <1>2, <2>1, <2>4, GotoType DEF ReserveRead, ChainLabels, SentLabels
  <2> QED BY <1>2, <2>2, <2>3, <2>4 DEF ReserveRead
<1>3. CASE ReviewWrite(r)
  <2>1. "done" \in Labels \ {"advanceRead"}
    BY DEF Labels
  <2> QED BY <1>3, <2>1, SaveType DEF ReviewWrite, DocLabels, ChainLabels, SentLabels
<1>4. CASE Persist(r)
  <2>1. req[r].pc = "persist" /\ req[r].pc \in DocLabels
        /\ "attempt" \in Labels \ {"advanceRead"}
    BY <1>4 DEF Persist, At, DocLabels, Labels
  <2>2. /\ Rec(r).step <= ChainSteps /\ Rec(r).attempts < MAX_BROADCASTS
        /\ Rec(r).tx # NoTx
    BY <2>1 DEF TypeInv, ReqOK, LocalOK, Rec, ChainLabels
  <2> QED BY <1>4, <2>1, <2>2, SaveType DEF Persist
<1>5. CASE AssertOwned(r)
  <2>1. req[r].pc = "assertOwned" /\ req[r].pc \in DocLabels
        /\ "broadcast" \in Labels \ {"advanceRead"}
    BY <1>5 DEF AssertOwned, At, DocLabels, Labels
  <2>2. Rec(r).step <= ChainSteps /\ Rec(r).tx # NoTx
    BY <2>1 DEF TypeInv, ReqOK, LocalOK, Rec, ChainLabels, SentLabels
  <2>3. CASE Done(r)
    BY <1>5, <2>3, DoneType DEF AssertOwned
  <2>4. CASE Goto(r, "broadcast")
    <3>1. UNCHANGED <<storeVars, chainVars, noticeVars, broadcast, countVars>>
      BY <1>5 DEF AssertOwned
    <3>2. "broadcast" \notin {"publish", "record"} /\ "broadcast" \notin {"sign", "persist", "attempt"}
      OBVIOUS
    <3> QED BY <2>1, <2>2, <2>4, <3>1, <3>2, GotoType
  <2> QED BY <1>5, <2>3, <2>4 DEF AssertOwned
<1> QED
  BY <1>1, <1>2, <1>3, <1>4, <1>5, BeginType, ReserveWriteType, AdvanceReadType,
     VerifyType, FindNoticeType, PublishNoticeType, RecordNoticeType,
     CheckReceiptType, ChooseAttemptType, SignType, AttemptType, BroadcastType,
     PollType, SaveProgressType DEF IssuanceStep

(* resetDesk. *)
LEMMA ResetStepType ==
    ASSUME TypeInv, NEW r \in Requests, ResetStep(r)
    PROVE  TypeInv'
<1>1. CASE ResetRead(r)
  <2>1. CASE Done(r)
    BY <1>1, <2>1, DoneType DEF ResetRead
  <2>2. CASE req' = [req EXCEPT ![r].doc = records, ![r].pc = "resetWrite"]
    BY <1>1, <2>2, ReadType DEF ResetRead
  <2> QED BY <1>1, <2>1, <2>2 DEF ResetRead
<1>2. CASE ResetWrite(r)
  <2>1. CASE Done(r) /\ UNCHANGED storeVars
    BY <1>2, <2>1, DoneType DEF ResetWrite
  <2>2. CASE HostedWriteRecords(r, Kept(r)) /\ Goto(r, "resetFree")
    <3>1. /\ Kept(r) \in [RecordIds -> Issuances] /\ WellFormedDoc(Kept(r))
          /\ \A id \in RecordIds : Kept(r)[id].present => id <= begun
      <4>1. Absent \in Issuances /\ Absent.present = FALSE
        BY IssuanceAssumption
           DEF Absent, Issuances, NoTx, Txs, StepStates, NoticeStep
      <4> QED
        BY <4>1 DEF Kept, TypeInv, ReqOK, RequestStates, LocalOK, WellFormedDoc,
           WellFormed
    <3>2. "resetFree" \in Labels \ {"advanceRead"}
      BY DEF Labels
    <3>3. ReqOK'
      BY <1>2, <2>2, <3>2, GotoOK
         DEF ResetWrite, TypeInv, StoreOK, countVars, DocLabels, ChainLabels, SentLabels
    <3> QED BY <1>2, <2>2, <3>1, <3>3, WriteType DEF ResetWrite
  <2> QED BY <1>2, <2>1, <2>2 DEF ResetWrite
<1>3. CASE ResetFree(r)
  <2>1. Done(r) /\ UNCHANGED <<chainVars, noticeVars, broadcast, countVars>>
    BY <1>3 DEF ResetFree
  <2>2. ReqOK'
    BY <2>1, DoneOK, IssuanceAssumption DEF TypeInv, StoreOK, countVars
  <2>3. StoreOK'
    BY <1>3, <2>1, IssuanceAssumption
       DEF ResetFree, HostedWriteMarker, TypeInv, StoreOK, storeVars, countVars
  <2> QED
    BY <2>1, <2>2, <2>3 DEF TypeInv, ChainOK, NoticeOK, CountOK, chainVars,
       noticeVars, countVars
<1> QED BY <1>1, <1>2, <1>3 DEF ResetStep

(* A tick about to take the lease has nothing in memory. *)
LEMMA TickLookOK ==
    ASSUME TypeInv, NEW r \in Requests, UNCHANGED begun,
           req' = [req EXCEPT ![r] = [Idle EXCEPT !.pc = "tickLease", !.job = "tick"]]
    PROVE  ReqOK'
<1> DEFINE q == [Idle EXCEPT !.pc = "tickLease", !.job = "tick"]
<1>1. Idle \in RequestStates /\ LocalOK(Idle, begun)
  BY IdleOK
<1>2. q \in RequestStates /\ q.pc = "tickLease" /\ q.doc = Idle.doc
  BY <1>1 DEF RequestStates, Labels
<1>3. req' = [req EXCEPT ![r] = q]
  OBVIOUS
<1> HIDE DEF q
<1>4. begun \in Nat /\ begun' \in Nat /\ begun <= begun' /\ begun' = begun
  BY IssuanceAssumption DEF TypeInv, StoreOK
<1>5. LocalOK(q, begun')
  BY <1>1, <1>2, <1>4 DEF LocalOK, DocLabels, ChainLabels, SentLabels
<1> QED BY <1>2, <1>3, <1>4, <1>5, OneRequest DEF TypeInv

(* The same request, started anew in its slot. *)
LEMMA BackToIdle ==
    ASSUME TypeInv, NEW r \in Requests, UNCHANGED begun,
           req' = [req EXCEPT ![r] = Idle]
    PROVE  ReqOK'
<1>1. Idle \in RequestStates /\ LocalOK(Idle, begun)
  BY IdleOK
<1>2. begun \in Nat /\ begun' \in Nat /\ begun <= begun' /\ begun' = begun
  BY IssuanceAssumption DEF TypeInv, StoreOK
<1> QED BY <1>1, <1>2, OneRequest DEF TypeInv

(* Market tick, consent, operator action. *)
LEMMA OthersType ==
    ASSUME TypeInv, NEW r \in Requests,
           TickLook(r) \/ TickClaim(r) \/ OtherSends(r) \/ OtherEnds(r)
    PROVE  TypeInv'
<1>1. CASE TickLook(r)
  <2>1. ReqOK'
    BY <1>1, TickLookOK DEF TickLook
  <2>2. faults' \in 0..MaxFaults
    BY <1>1, IssuanceAssumption DEF TickLook, TypeInv, CountOK
  <2> QED
    BY <1>1, <2>1, <2>2 DEF TickLook, TypeInv, StoreOK, ChainOK, NoticeOK, CountOK,
       storeVars, chainVars, noticeVars
<1>2. CASE TickClaim(r)
  <2>1. CASE Claim(r) /\ Goto(r, "send")
    <3>1. "send" \in Labels \ {"advanceRead"}
      BY DEF Labels
    <3>2. ReqOK'
      BY <1>2, <2>1, <3>1, GotoOK
         DEF TickClaim, TypeInv, StoreOK, countVars, DocLabels, ChainLabels, SentLabels
    <3> QED
      BY <1>2, <2>1, <3>2 DEF TickClaim, Claim, TypeInv, StoreOK, ChainOK, NoticeOK,
         CountOK, chainVars, noticeVars, countVars
  <2>2. CASE Done(r) /\ UNCHANGED lease
    BY <1>2, <2>2, DoneType DEF TickClaim, storeVars
  <2> QED BY <1>2, <2>1, <2>2 DEF TickClaim
<1>3. CASE OtherSends(r)
  <2> DEFINE tx == [rec |-> 0, step |-> 0, nonce |-> PendingNonce, by |-> r]
  <2>1. tx \in Txs
    BY PendingNonceType, IssuanceAssumption DEF TypeInv, Txs
  <2>2. Send(tx)
    BY <1>3 DEF OtherSends
  <2> HIDE DEF tx
  <2>3. ChainOK'
    BY <2>1, <2>2, FS_AddElement DEF Send, TypeInv, ChainOK
  <2>4. ReqOK'
    BY <1>3 DEF OtherSends, TypeInv, ReqOK
  <2>5. sent' \in 0..MaxOthers
    BY <1>3, IssuanceAssumption DEF OtherSends, TypeInv, CountOK
  <2> QED
    BY <1>3, <2>3, <2>4, <2>5 DEF OtherSends, TypeInv, StoreOK, NoticeOK, CountOK,
       storeVars, noticeVars
<1>4. CASE OtherEnds(r)
  BY <1>4, DoneType DEF OtherEnds
<1> QED BY <1>1, <1>2, <1>3, <1>4

(* A request ends, throws or dies. *)
LEMMA EndsType ==
    ASSUME TypeInv, NEW r \in Requests, Finish(r) \/ Throw(r) \/ Die(r)
    PROVE  TypeInv'
<1>1. CASE Finish(r)
  <2>1. ReqOK'
    BY <1>1, BackToIdle DEF Finish, countVars
  <2> QED
    BY <1>1, <2>1 DEF Finish, Release, TypeInv, StoreOK, ChainOK, NoticeOK, CountOK,
       chainVars, noticeVars, countVars
<1>2. CASE Throw(r) \/ Die(r)
  <2>1. faults' \in 0..MaxFaults /\ UNCHANGED <<storeVars, chainVars, noticeVars,
                                               broadcast, begun, sent>>
    BY <1>2, IssuanceAssumption DEF Throw, Die, TypeInv, CountOK
  <2>2. begun \in Nat
    BY IssuanceAssumption DEF TypeInv, StoreOK
  <2>3. ReqOK'
    BY <1>2, <2>1, <2>2, DoneOK, BackToIdle DEF Throw, Die, TypeInv
  <2> QED
    BY <2>1, <2>3 DEF TypeInv, StoreOK, ChainOK, NoticeOK, CountOK, storeVars,
       chainVars, noticeVars
<1> QED BY <1>1, <1>2

(* The lease runs out; the network decides or loses a transaction. *)
LEMMA OutsideType ==
    ASSUME TypeInv, LeaseExpires \/ NetworkStep
    PROVE  TypeInv'
<1>1. CASE LeaseExpires
  BY <1>1 DEF LeaseExpires, Expire, TypeInv, StoreOK, ReqOK, ChainOK, NoticeOK,
     CountOK, chainVars, noticeVars, countVars
<1>2. ASSUME NEW tx \in pool, NEW outcome \in {"ok", "reverted", "eventless"},
             Mine(tx, outcome)
      PROVE  TypeInv'
  <2>1. pool' \subseteq pool /\ IsFiniteSet(pool')
    BY <1>2, FS_Subset DEF Mine, TypeInv, ChainOK
  <2>2. ChainOK'
    BY <1>2, <2>1 DEF Mine, TypeInv, ChainOK
  <2> QED
    BY <1>2, <2>2 DEF Mine, TypeInv, StoreOK, ReqOK, NoticeOK, CountOK, storeVars,
       noticeVars, countVars
<1>3. ASSUME NEW tx \in pool, Lose(tx)
      PROVE  TypeInv'
  <2>1. pool' \subseteq pool /\ IsFiniteSet(pool')
    BY <1>3, FS_Subset DEF Lose, TypeInv, ChainOK
  <2>2. ChainOK'
    BY <1>3, <2>1 DEF Lose, TypeInv, ChainOK
  <2> QED
    BY <1>3, <2>2 DEF Lose, TypeInv, StoreOK, ReqOK, NoticeOK, CountOK, storeVars,
       noticeVars, countVars
<1> QED BY <1>1, <1>2, <1>3 DEF NetworkStep

(* The first state is in order. *)
LEMMA InitType == Init => TypeInv
<1> SUFFICES ASSUME Init PROVE TypeInv
  OBVIOUS
<1>1. Absent \in Issuances /\ Absent.present = FALSE
  BY IssuanceAssumption DEF Absent, Issuances, NoTx, Txs, StepStates, NoticeStep
<1>2. StoreOK
  BY <1>1, IssuanceAssumption DEF Init, StoreOK, NoDoc, WellFormedDoc, WellFormed
<1>3. ReqOK
  BY IdleOK DEF Init, ReqOK
<1>4. ChainOK
  BY FS_EmptySet DEF Init, ChainOK
<1> QED
  BY <1>2, <1>3, <1>4, IssuanceAssumption DEF Init, TypeInv, NoticeOK, CountOK

(* Every step keeps every part in order. *)
LEMMA TypeStep == TypeInv /\ [Next]_vars => TypeInv'
<1> SUFFICES ASSUME TypeInv, [Next]_vars PROVE TypeInv'
  OBVIOUS
<1>1. ASSUME NEW r \in Requests, NEW u \in Users, StartBegin(r, u) \/ StartReset(r, u)
      PROVE  TypeInv'
  BY <1>1, StartType, IssuanceAssumption DEF StartBegin, StartReset
<1>2. ASSUME NEW r \in Requests, NEW u \in Users, NEW id \in RecordIds,
             StartAdvance(r, u, id)
      PROVE  TypeInv'
  <2>1. id \in 0..MaxRecords
    BY IssuanceAssumption DEF RecordIds
  <2> QED BY <1>2, <2>1, StartType DEF StartAdvance
<1>3. ASSUME NEW r \in Requests, StartConsent(r)
      PROVE  TypeInv'
  BY <1>3, StartType, IssuanceAssumption DEF StartConsent
<1>4. ASSUME NEW r \in Requests, TickLook(r) \/ HandlerStep(r) \/ Throw(r) \/ Die(r)
      PROVE  TypeInv'
  BY <1>4, IssuanceStepType, ResetStepType, OthersType, EndsType DEF HandlerStep
<1>5. CASE LeaseExpires \/ NetworkStep
  BY <1>5, OutsideType
<1>6. CASE UNCHANGED vars
  BY <1>6 DEF vars, TypeInv, StoreOK, ReqOK, ChainOK, NoticeOK, CountOK, storeVars,
     chainVars, noticeVars, countVars
<1> QED BY <1>1, <1>2, <1>3, <1>4, <1>5, <1>6 DEF Next

(* Every variable keeps its type, whatever the constants. *)
THEOREM IssuanceTypeCorrect == Spec => []TypeOK
<1>1. TypeInv => TypeOK
  BY DEF TypeInv, StoreOK, ReqOK, ChainOK, NoticeOK, CountOK, TypeOK
<1>2. Spec => []TypeInv
  BY InitType, TypeStep, PTL DEF Spec
<1> QED BY <1>1, <1>2, PTL

---------------------------------------------------------------------------
(***************************************************************************)
(* 2. The lease                                                            *)
(*                                                                         *)
(* Only the request that owns the lease writes, and what it has in memory  *)
(* is the stored document with at most the one change its next write makes *)
(* (OwnerInv): so every write is one of a few legal changes of one record  *)
(* (Legal).  A request that lost its lease may still send, but only bytes  *)
(* that were stored before (Issued), and of these there is one transaction *)
(* per step of a record (IssuedInv).                                       *)
(***************************************************************************)

HeldLabels == DocLabels \ {"persist"}
ReservedLabels == DocLabels \ {"beginWrite", "reserveRead", "reserveWrite"}
CleanLabels == DocLabels \ {"beginWrite", "persist", "reviewWrite", "save"}
WriterLabels == DocLabels \cup {"resetWrite", "resetFree"}

(* The transactions that were sent, are stored, or were stored when some   *)
(* request read them.                                                      *)
Issued ==
    {t \in broadcast : t.rec # 0}
    \cup {records[id].tx : id \in {i \in RecordIds : records[i].present
                                                     /\ records[i].tx # NoTx}}
    \cup {Rec(r).tx : r \in {s \in Requests : req[s].pc \in HeldLabels
                                              /\ Rec(s).tx # NoTx}}

(* The change that a save writes: a confirmed step, a failed or reviewed   *)
(* one, a completed record.                                                *)
Change(old, new) ==
    \/ new = NextStep(old)
    \/ old.step <= ChainSteps /\ \E s \in {"failed", "review"} :
                                     new = [old EXCEPT !.state = s]
    \/ old.step > NoticeStep /\ new = [old EXCEPT !.completed = TRUE]
Signs(old, new) ==
    /\ old.tx = NoTx /\ new.tx # NoTx
    /\ new = [old EXCEPT !.tx = new.tx, !.state = "pending"]

(* What the owner of the lease, in state q, knows of the stored document,  *)
(* of the marker and of the transactions issued.                           *)
OwnerOK(q, doc, m, txs) ==
    /\ q.pc \in DocLabels => \A id \in RecordIds \ {q.id} : q.doc[id] = doc[id]
    /\ q.pc = "beginWrite" => /\ \A id \in RecordIds : ~Active(doc[id])
                              /\ ~doc[q.id].present
                              /\ \A t \in txs : t.rec # q.id
                              /\ \E u, t : q.doc[q.id] = NewRecord(u, t)
    /\ q.pc \in DocLabels \ {"beginWrite"} => Active(doc[q.id])
    /\ q.pc \in CleanLabels => q.doc[q.id] = doc[q.id]
    /\ q.pc = "reserveWrite" => m = NoWorkflow
    /\ q.pc \in ReservedLabels => m = q.id
    /\ q.pc = "persist" => Signs(doc[q.id], q.doc[q.id])
    /\ q.pc = "reviewWrite" => Change(doc[q.id], q.doc[q.id])
    /\ q.pc = "save" => q.doc[q.id] = doc[q.id] \/ Change(doc[q.id], q.doc[q.id])
    /\ q.pc = "resetWrite" => q.doc = doc
    /\ q.pc = "resetFree" => \A id \in RecordIds :
          doc[id] = IF /\ q.doc[id].present /\ q.doc[id].owner = q.user
                       /\ ~q.doc[id].completed
                    THEN Absent ELSE q.doc[id]
OwnerInv == \A r \in Requests : Owned(r) => OwnerOK(req[r], records, marker, Issued)

(* Of each step of a record at most one transaction is issued; it is the   *)
(* record's current one or that of a step already confirmed.               *)
IssuedInv ==
    /\ \A t \in Issued :
          /\ t.rec \in 1..begun
          /\ records[t.rec].present =>
                records[t.rec].tx = t \/ t.step < records[t.rec].step
    /\ \A s, t \in Issued : s.rec = t.rec /\ s.step = t.step => s = t

(* Only steps on the chain fail or go under review. *)
StageInv ==
    \A id \in RecordIds : (records[id].present /\ records[id].step > ChainSteps)
                              => records[id].state = "queued"

LeaseInv ==
    TypeInv /\ OwnerInv /\ IssuedInv /\ StageInv
    /\ OneIssuanceAtATime /\ UnresolvedHoldsReservation

(* The changes a write can make to a record. *)
Born(id) ==
    /\ ~records[id].present
    /\ \E u, t : records'[id] = NewRecord(u, t)
    /\ \A t \in Issued : t.rec # id
    /\ \A j \in RecordIds : ~Active(records[j])
    /\ \A j \in RecordIds \ {id} : records'[j] = records[j]
Grown(old, new) ==
    \/ Change(old, new)
    \/ Signs(old, new)
    \/ new = [old EXCEPT !.attempts = old.attempts + 1]
Legal(id) ==
    \/ records'[id] = records[id]
    \/ records'[id] = Absent
    \/ Born(id)
    \/ Active(records[id]) /\ marker = id /\ Grown(records[id], records'[id])

(* What every step does: it keeps the invariant and changes records legally. *)
SignedNow(t) ==
    \E id \in RecordIds : /\ Active(records[id])
                          /\ Signs(records[id], records'[id])
                          /\ t = records'[id].tx
IssuedGrows == \A t \in Issued' : t \in Issued \/ SignedNow(t)
LeaseStep == LeaseInv' /\ (\A id \in RecordIds : Legal(id)) /\ IssuedGrows

(* What a legal change of a record keeps. *)
LEMMA GrownFacts ==
    ASSUME NEW old \in Issuances, NEW new, Grown(old, new), Active(old),
           old.step > ChainSteps => old.state = "queued", 
           NEW id, WellFormed(new, id)
    PROVE  /\ new.present
           /\ new.step = old.step \/ (new.step = old.step + 1 /\ new.tx = NoTx)
           /\ new.step = old.step => \/ new.tx = old.tx
                                     \/ old.tx = NoTx /\ Signs(old, new)
           /\ new.step = old.step => new.attempts >= old.attempts
           /\ new.step > ChainSteps => new.state = "queued"
<1>1. CASE new = NextStep(old)
  BY <1>1 DEF NextStep, Issuances, Active
<1>2. CASE old.step <= ChainSteps /\ \E s \in {"failed", "review"} :
                                         new = [old EXCEPT !.state = s]
  BY <1>2, IssuanceAssumption DEF Issuances, Active, NoticeStep
<1>3. CASE old.step > NoticeStep /\ new = [old EXCEPT !.completed = TRUE]
  BY <1>3, IssuanceAssumption DEF Issuances, Active, NoticeStep
<1>4. CASE Signs(old, new)
  <2>1. new.present /\ new.step = old.step /\ new.attempts = old.attempts
    BY <1>4 DEF Signs, Issuances, Active
  <2>2. new.step <= ChainSteps
    BY <1>4, <2>1 DEF Signs, WellFormed
  <2>3. old.step \in Nat /\ old.attempts \in Nat
    BY IssuanceAssumption DEF Issuances, NoticeStep
  <2> QED BY <1>4, <2>1, <2>2, <2>3, IssuanceAssumption DEF Signs
<1>5. CASE new = [old EXCEPT !.attempts = old.attempts + 1]
  BY <1>5, IssuanceAssumption DEF Issuances, Active, NoticeStep
<1> QED BY <1>1, <1>2, <1>3, <1>4, <1>5 DEF Grown, Change

(* Legal changes of the records keep one issuance active and the stages.   *)
LEMMA LegalKeepsStages ==
    ASSUME LeaseInv, TypeInv', \A id \in RecordIds : Legal(id)
    PROVE  StageInv' /\ OneIssuanceAtATime'
<1>1. \A id \in RecordIds : records[id] \in Issuances /\ WellFormed(records'[id], id)
  BY DEF LeaseInv, TypeInv, StoreOK, WellFormedDoc
<1>2. ASSUME NEW id \in RecordIds
      PROVE  /\ (records'[id].present /\ records'[id].step > ChainSteps)
                   => records'[id].state = "queued"
             /\ Active(records'[id]) => Active(records[id]) \/ Born(id)
  <2>1. (records[id].present /\ records[id].step > ChainSteps)
           => records[id].state = "queued"
    BY DEF LeaseInv, StageInv
  <2>2. CASE records'[id] = records[id]
    BY <2>1, <2>2
  <2>3. CASE records'[id] = Absent
    BY <2>3 DEF Absent, Active
  <2>4. CASE Born(id)
    BY <2>4 DEF Born, NewRecord, Absent
  <2>5. CASE Active(records[id]) /\ Grown(records[id], records'[id])
    <3>1. records[id].step > ChainSteps => records[id].state = "queued"
      BY <2>1, <2>5 DEF Active
    <3> QED BY <1>1, <2>5, <3>1, GrownFacts
  <2> QED BY <2>2, <2>3, <2>4, <2>5 DEF Legal
<1>3. StageInv'
  BY <1>2 DEF StageInv
<1>4. ASSUME NEW a \in RecordIds, NEW b \in RecordIds, Active(records'[a]),
             Active(records'[b])
      PROVE  a = b
  <2>1. CASE Active(records[a]) /\ Active(records[b])
    BY <2>1 DEF LeaseInv, OneIssuanceAtATime
  <2>2. CASE Born(a)
    BY <1>4, <2>2 DEF Born
  <2>3. CASE Born(b)
    BY <1>4, <2>3 DEF Born
  <2> QED BY <1>2, <1>4, <2>1, <2>2, <2>3
<1> QED BY <1>3, <1>4 DEF OneIssuanceAtATime, Active

(* Legal changes keep the progress of every record. *)
LEMMA LegalKeepsProgress ==
    ASSUME LeaseInv, TypeInv', \A id \in RecordIds : Legal(id), NEW id \in RecordIds
    PROVE  LET old == records[id]
               new == records'[id]
           IN  /\ (old.present /\ new.present) =>
                    /\ new.step >= old.step
                    /\ new.step = old.step =>
                          /\ new.attempts >= old.attempts
                          /\ old.tx # NoTx => new.tx = old.tx
                    /\ (old.completed \/ Halted(old)) => new = old
               /\ (~old.present /\ new.present) => new.step = 1 /\ new.tx = NoTx
<1>1. records[id] \in Issuances /\ WellFormed(records'[id], id)
  BY DEF LeaseInv, TypeInv, StoreOK, WellFormedDoc
<1>2. records[id].step \in Nat /\ records[id].attempts \in Nat
  BY <1>1, IssuanceAssumption DEF Issuances, NoticeStep
<1>3. CASE records'[id] = records[id]
  BY <1>2, <1>3
<1>4. CASE records'[id] = Absent
  BY <1>4 DEF Absent
<1>5. CASE Born(id)
  BY <1>5 DEF Born, NewRecord, Absent
<1>6. CASE Active(records[id]) /\ Grown(records[id], records'[id])
  <2>1. records[id].step > ChainSteps => records[id].state = "queued"
    BY <1>6 DEF LeaseInv, StageInv, Active
  <2>2. /\ records'[id].present
        /\ \/ records'[id].step = records[id].step
           \/ records'[id].step = records[id].step + 1
        /\ records'[id].step = records[id].step =>
              /\ records'[id].tx = records[id].tx \/ records[id].tx = NoTx
              /\ records'[id].attempts >= records[id].attempts
    BY <1>1, <1>6, <2>1, GrownFacts
  <2>3. records[id].present /\ ~records[id].completed /\ ~Halted(records[id])
    BY <1>6 DEF Active
  <2> QED BY <1>2, <2>2, <2>3
<1> QED BY <1>3, <1>4, <1>5, <1>6 DEF Legal

(* Issued transactions are transactions. *)
LEMMA IssuedType == TypeInv => Issued \subseteq Txs
<1> SUFFICES ASSUME TypeInv PROVE Issued \subseteq Txs
  OBVIOUS
<1>1. {t \in broadcast : t.rec # 0} \subseteq Txs
  BY DEF TypeInv, ChainOK
<1>2. \A id \in RecordIds : records[id].tx \in Txs
  BY DEF TypeInv, StoreOK, Issuances
<1>3. \A r \in Requests : req[r].pc \in HeldLabels => Rec(r).tx \in Txs
  BY RecOK DEF TypeInv, StoreOK, HeldLabels, Issuances
<1> QED BY <1>1, <1>2, <1>3 DEF Issued

(* Legal changes, and requests that hold only what was issued or is now    *)
(* stored, keep one transaction per step.                                  *)
LEMMA LegalKeepsIssued ==
    ASSUME LeaseInv, TypeInv', \A id \in RecordIds : Legal(id), begun <= begun',
           \A t \in Issued' :
              \/ t \in Issued
              \/ \E id \in RecordIds : /\ Active(records[id])
                                      /\ Signs(records[id], records'[id])
                                      /\ t = records'[id].tx
    PROVE  IssuedInv'
<1> DEFINE New(t) == LET id == t.rec IN
              /\ id \in RecordIds /\ Active(records[id])
              /\ Signs(records[id], records'[id]) /\ t = records'[id].tx
              /\ t # NoTx /\ t.step = records[id].step
              /\ id \in 1..begun
<1>1. \A id \in RecordIds : records[id] \in Issuances /\ records'[id] \in Issuances
                           /\ WellFormed(records'[id], id)
                           /\ (records[id].present => id <= begun)
  BY DEF LeaseInv, TypeInv, StoreOK, WellFormedDoc
<1>2. begun \in Nat /\ begun' \in Nat /\ begun <= begun'
  BY IssuanceAssumption DEF LeaseInv, TypeInv, StoreOK
<1>3. \A t \in Issued' : t \in Issued \/ New(t)
  <2> SUFFICES ASSUME NEW id \in RecordIds, Active(records[id]),
                      Signs(records[id], records'[id])
               PROVE  New(records'[id].tx)
    OBVIOUS
  <2>1. records'[id].present /\ records'[id].step = records[id].step
        /\ records'[id].tx # NoTx
    BY <1>1 DEF Signs, Issuances, Active
  <2>2. records'[id].tx.rec = id /\ records'[id].tx.step = records[id].step
    BY <1>1, <2>1 DEF WellFormed
  <2>3. id \in 1..begun
    BY <1>1, <1>2 DEF Active, RecordIds
  <2> QED BY <2>1, <2>2, <2>3
<1>4. \A t \in Issued : t.rec \in 1..begun /\ t.rec \in RecordIds
  BY IssuanceAssumption DEF LeaseInv, IssuedInv, TypeInv, StoreOK, RecordIds
<1>5. ASSUME NEW t \in Issued', records'[t.rec].present
      PROVE  records'[t.rec].tx = t \/ t.step < records'[t.rec].step
  <2> DEFINE id == t.rec
  <2>1. CASE New(t)
    BY <2>1
  <2>2. CASE t \in Issued
    <3>1. id \in RecordIds /\ t # NoTx
      BY <1>4, <2>2 DEF NoTx
    <3>2. CASE records'[id] = records[id]
      BY <1>5, <2>2, <3>2 DEF LeaseInv, IssuedInv
    <3>3. CASE records'[id] = Absent
      BY <1>5, <3>3 DEF Absent
    <3>4. CASE Born(id)
      BY <2>2, <3>4 DEF Born
    <3>5. CASE Active(records[id]) /\ Grown(records[id], records'[id])
      <4>1. records[id].step > ChainSteps => records[id].state = "queued"
        BY <3>1, <3>5 DEF LeaseInv, StageInv, Active
      <4>2. \/ /\ records'[id].step = records[id].step
               /\ records'[id].tx = records[id].tx \/ records[id].tx = NoTx
            \/ records'[id].step = records[id].step + 1
        BY <1>1, <3>1, <3>5, <4>1, GrownFacts
      <4>3. records[id].tx = t \/ t.step < records[id].step
        BY <2>2, <3>5 DEF LeaseInv, IssuedInv, Active
      <4>4. records[id].tx = t => t.step = records[id].step
        BY <3>1, <3>5 DEF LeaseInv, TypeInv, StoreOK, WellFormedDoc, WellFormed, Active
      <4>5. records[id].step \in Nat
        BY <1>1, <3>1, IssuanceAssumption DEF Issuances, NoticeStep
      <4> HIDE DEF id
      <4>6. CASE records[id].tx = t
        <5>1. t # NoTx /\ t.step \in Nat
          BY <3>1, <4>4, <4>5, <4>6
        <5> QED BY <4>2, <4>4, <4>5, <4>6, <5>1 DEF id
      <4>7. CASE t.step < records[id].step
        <5>1. t.step \in Nat
          BY <2>2, IssuedType, IssuanceAssumption DEF LeaseInv, Txs
        <5> QED BY <4>2, <4>5, <4>7, <5>1 DEF id
      <4> QED BY <4>3, <4>6, <4>7
    <3> QED BY <3>1, <3>2, <3>3, <3>4, <3>5 DEF Legal
  <2> QED BY <1>3, <2>1, <2>2
<1>6. ASSUME NEW a \in Issued, NEW b, New(b), a.rec = b.rec, a.step = b.step
      PROVE  FALSE
  <2>0. /\ b.rec \in RecordIds /\ Active(records[b.rec])
        /\ b.step = records[b.rec].step /\ records[b.rec].tx = NoTx
    BY <1>6 DEF Signs
  <2>1. records[b.rec].tx = a \/ a.step < records[b.rec].step
    BY <1>6, <2>0 DEF LeaseInv, IssuedInv, Active
  <2>2. a # NoTx
    BY <1>4 DEF NoTx
  <2>3. records[b.rec].step \in Nat
    BY <1>1, <2>0, IssuanceAssumption DEF Issuances, NoticeStep
  <2> HIDE DEF New
  <2> QED BY <1>6, <2>0, <2>1, <2>2, <2>3
<1>7. ASSUME NEW a \in Issued', NEW b \in Issued', a.rec = b.rec, a.step = b.step
      PROVE  a = b
  <2>1. CASE a \in Issued /\ b \in Issued
    BY <1>7, <2>1 DEF LeaseInv, IssuedInv
  <2>2. CASE New(a) /\ New(b)
    BY <1>7, <2>2
  <2> QED BY <1>3, <1>6, <1>7, <2>1, <2>2
<1>8. \A t \in Issued' : t.rec \in 1..begun'
  BY <1>2, <1>3, <1>4
<1> HIDE DEF New
<1> QED BY <1>5, <1>7, <1>8 DEF IssuedInv

---------------------------------------------------------------------------
(* Frames: what a step has to show for the invariant *)

(* Only a new record's writer looks at the transactions issued.            *)
LEMMA OwnerFrame ==
    ASSUME NEW q, NEW doc, NEW m, NEW txs, NEW txs2, OwnerOK(q, doc, m, txs),
           txs2 \subseteq txs \/ q.pc # "beginWrite"
    PROVE  OwnerOK(q, doc, m, txs2)
BY DEF OwnerOK

(* A request that has nothing to write knows nothing.                      *)
LEMMA EmptyHanded ==
    ASSUME NEW q, q.pc \notin WriterLabels, NEW doc, NEW m, NEW txs
    PROVE  OwnerOK(q, doc, m, txs)
BY DEF OwnerOK, WriterLabels, DocLabels, ReservedLabels, CleanLabels

(* A step that does not write.                                             *)
LEMMA ReadFrame ==
    ASSUME LeaseInv, TypeInv', NEW r \in Requests, NEW q,
           req' = [req EXCEPT ![r] = q], UNCHANGED <<records, marker>>, begun <= begun',
           \A s \in Requests \ {r} : lease' = s => lease = s,
           \A t \in broadcast' : t \in broadcast \/ t.rec = 0 \/ t \in Issued,
           q.pc \in HeldLabels => q.doc[q.id].tx \in Issued \cup {NoTx},
           lease' = r => OwnerOK(q, records, marker, Issued)
    PROVE  LeaseStep
<1>1. req \in [Requests -> RequestStates]
  BY DEF LeaseInv, TypeInv, ReqOK
<1>2. req'[r] = q /\ \A s \in Requests \ {r} : req'[s] = req[s]
  BY <1>1
<1>3. Issued' \subseteq Issued
  <2>1. ASSUME NEW s \in Requests, req'[s].pc \in HeldLabels, Rec(s)'.tx # NoTx
        PROVE  Rec(s)'.tx \in Issued
    <3>1. CASE s = r
      BY <1>2, <2>1, <3>1 DEF Rec
    <3>2. CASE s # r
      BY <1>2, <2>1, <3>2 DEF Rec, Issued
    <3> QED BY <3>1, <3>2
  <2> QED BY <2>1 DEF Issued
<1>4. OwnerInv'
  <2> SUFFICES ASSUME NEW s \in Requests, lease' = s
               PROVE  OwnerOK(req'[s], records, marker, Issued')
    BY DEF OwnerInv, Owned
  <2>1. OwnerOK(req'[s], records, marker, Issued)
    BY <1>2 DEF LeaseInv, OwnerInv, Owned
  <2> QED BY <1>3, <2>1, OwnerFrame
<1>5. IssuedInv'
  <2>1. \A id \in RecordIds : Legal(id)
    BY DEF Legal
  <2> QED BY <1>3, <2>1, LegalKeepsIssued
<1> QED
  BY <1>3, <1>4, <1>5 DEF LeaseStep, IssuedGrows, Legal, LeaseInv, StageInv,
     OneIssuanceAtATime, UnresolvedHoldsReservation

(* A step by which the owner writes.                                       *)
LEMMA WriteFrame ==
    ASSUME LeaseInv, TypeInv', NEW r \in Requests, NEW q, lease = r, lease' = r,
           req' = [req EXCEPT ![r] = q], UNCHANGED <<broadcast, begun>>,
           \A id \in RecordIds : Legal(id), UnresolvedHoldsReservation',
           q.pc # "beginWrite", OwnerOK(q, records', marker', {}),
           q.pc \in HeldLabels => /\ q.id \in RecordIds
                                  /\ q.doc[q.id] = records'[q.id]
                                  /\ records'[q.id].present
    PROVE  LeaseStep
<1>1. req \in [Requests -> RequestStates]
  BY DEF LeaseInv, TypeInv, ReqOK
<1>2. req'[r] = q /\ \A s \in Requests \ {r} : req'[s] = req[s]
  BY <1>1
<1>3. ASSUME NEW id \in RecordIds, records'[id].present, records'[id].tx # NoTx
      PROVE  \/ records'[id].tx \in Issued
             \/ Active(records[id]) /\ Signs(records[id], records'[id])
  <2>1. records[id] \in Issuances /\ WellFormed(records'[id], id)
    BY DEF LeaseInv, TypeInv, StoreOK, WellFormedDoc
  <2>2. CASE records'[id] = records[id]
    BY <1>3, <2>2 DEF Issued
  <2>3. CASE records'[id] = Absent
    BY <1>3, <2>3 DEF Absent
  <2>4. CASE Born(id)
    BY <1>3, <2>4 DEF Born, NewRecord, Absent
  <2>5. CASE Active(records[id]) /\ Grown(records[id], records'[id])
    <3>1. records[id].step > ChainSteps => records[id].state = "queued"
      BY <2>5 DEF LeaseInv, StageInv, Active
    <3>2. records[id].step \in Nat
      BY <2>1, IssuanceAssumption DEF Issuances, NoticeStep
    <3>3. \/ records'[id].tx = records[id].tx
          \/ Signs(records[id], records'[id])
      BY <1>3, <2>1, <2>5, <3>1, <3>2, GrownFacts
    <3> QED BY <1>3, <2>5, <3>3 DEF Issued, Active
  <2> QED BY <2>2, <2>3, <2>4, <2>5 DEF Legal
<1>4. ASSUME NEW t \in Issued'
      PROVE  \/ t \in Issued
             \/ \E id \in RecordIds : /\ Active(records[id])
                                     /\ Signs(records[id], records'[id])
                                     /\ t = records'[id].tx
  <2>1. CASE t \in broadcast' /\ t.rec # 0
    BY <2>1 DEF Issued
  <2>2. CASE \E id \in RecordIds : /\ records'[id].present /\ records'[id].tx # NoTx
                                  /\ t = records'[id].tx
    BY <1>3, <2>2
  <2>3. ASSUME NEW s \in Requests, req'[s].pc \in HeldLabels, Rec(s)'.tx # NoTx,
               t = Rec(s)'.tx
        PROVE  \/ t \in Issued
               \/ \E id \in RecordIds : /\ Active(records[id])
                                       /\ Signs(records[id], records'[id])
                                       /\ t = records'[id].tx
    <3>1. CASE s = r
      BY <1>2, <1>3, <2>3, <3>1 DEF Rec
    <3>2. CASE s # r
      BY <1>2, <2>3, <3>2 DEF Rec, Issued
    <3> QED BY <3>1, <3>2
  <2> QED BY <2>1, <2>2, <2>3 DEF Issued
<1>5. begun <= begun'
  BY IssuanceAssumption DEF LeaseInv, TypeInv, StoreOK
<1>6. IssuedInv'
  BY <1>4, <1>5, LegalKeepsIssued
<1>7. OwnerInv'
  BY <1>2, OwnerFrame, IssuanceAssumption DEF OwnerInv, Owned
<1>8. IssuedGrows
  BY <1>4 DEF IssuedGrows, SignedNow
<1> QED
  BY <1>6, <1>7, <1>8, LegalKeepsStages DEF LeaseStep, LeaseInv

(* A request that returns or throws.                                       *)
LEMMA DoneLease ==
    ASSUME LeaseInv, TypeInv', NEW r \in Requests, Done(r),
           UNCHANGED <<lease, records, marker, broadcast, begun>>
    PROVE  LeaseStep
<1> DEFINE q == [Idle EXCEPT !.pc = "done"]
<1>1. q.pc = "done" /\ req' = [req EXCEPT ![r] = q]
  BY DEF Idle, Done
<1>2. begun <= begun'
  BY IssuanceAssumption DEF LeaseInv, TypeInv, StoreOK
<1> HIDE DEF q
<1>3. OwnerOK(q, records, marker, Issued)
  BY <1>1, EmptyHanded DEF WriterLabels, DocLabels
<1>4. q.pc \notin HeldLabels
  BY <1>1 DEF HeldLabels, DocLabels
<1> QED BY <1>1, <1>2, <1>3, <1>4, ReadFrame

(* A request that moves on with the document it read.                      *)
LEMMA GotoLease ==
    ASSUME LeaseInv, TypeInv', NEW r \in Requests, NEW label \in CleanLabels \cup {"save"},
           Goto(r, label), req[r].pc \in CleanLabels,
           UNCHANGED <<lease, records, marker, begun>>,
           \A t \in broadcast' : t \in broadcast \/ t.rec = 0 \/ t \in Issued,
           label = "reserveWrite" => marker = NoWorkflow,
           label \in ReservedLabels => req[r].pc \in ReservedLabels \/ marker = req[r].id
    PROVE  LeaseStep
<1> DEFINE q == [req[r] EXCEPT !.pc = label]
<1>1. req' = [req EXCEPT ![r] = q]
  BY DEF Goto, LeaseInv, TypeInv, ReqOK
<1>2. q.pc = label /\ q.id = req[r].id /\ q.doc = req[r].doc
  BY DEF LeaseInv, TypeInv, ReqOK, RequestStates
<1>3. begun <= begun'
  BY IssuanceAssumption DEF LeaseInv, TypeInv, StoreOK
<1> HIDE DEF q
<1>4. q.doc[q.id].tx \in Issued \cup {NoTx}
  BY <1>2 DEF Issued, Rec, HeldLabels, CleanLabels
<1>5. lease = r => OwnerOK(q, records, marker, Issued)
  <2> SUFFICES ASSUME lease = r PROVE OwnerOK(q, records, marker, Issued)
    OBVIOUS
  <2>1. OwnerOK(req[r], records, marker, Issued)
    BY DEF LeaseInv, OwnerInv, Owned
  <2>2. /\ \A id \in RecordIds \ {q.id} : q.doc[id] = records[id]
        /\ q.doc[q.id] = records[q.id] /\ Active(records[q.id])
    BY <1>2, <2>1 DEF OwnerOK, CleanLabels, DocLabels
  <2>3. label \in ReservedLabels => marker = q.id
    BY <1>2, <2>1 DEF OwnerOK
  <2> QED
    BY <1>2, <2>2, <2>3 DEF OwnerOK, CleanLabels, DocLabels, ReservedLabels
<1> QED BY <1>1, <1>3, <1>4, <1>5, ReadFrame

(* A request that changes its record in memory and moves on.               *)
LEMMA UpdateLease ==
    ASSUME LeaseInv, TypeInv', NEW r \in Requests,
           NEW label \in {"save", "reviewWrite", "persist"}, NEW rec,
           Update(r, rec, label), req[r].pc \in CleanLabels \cap ReservedLabels,
           UNCHANGED <<lease, records, marker, broadcast, begun>>,
           label = "persist" => Signs(Rec(r), rec),
           label # "persist" => Change(Rec(r), rec)
    PROVE  LeaseStep
<1> DEFINE q == [req[r] EXCEPT !.doc[req[r].id] = rec, !.pc = label]
<1>1. req[r] \in RequestStates /\ req' = [req EXCEPT ![r] = q]
  BY DEF Update, LeaseInv, TypeInv, ReqOK
<1>2. req[r].id \in RecordIds /\ Rec(r) \in Issuances
  BY RecOK DEF LeaseInv, TypeInv, StoreOK, CleanLabels
<1>3. /\ q.pc = label /\ q.id = req[r].id /\ q.doc[q.id] = rec
      /\ \A id \in RecordIds \ {q.id} : q.doc[id] = req[r].doc[id]
  BY <1>1, <1>2 DEF RequestStates
<1>4. begun <= begun'
  BY IssuanceAssumption DEF LeaseInv, TypeInv, StoreOK
<1> HIDE DEF q
<1>5. q.pc \in HeldLabels => q.doc[q.id].tx \in Issued \cup {NoTx}
  <2> SUFFICES ASSUME label # "persist" PROVE rec.tx \in Issued \cup {NoTx}
    BY <1>3 DEF HeldLabels
  <2>1. rec.tx \in {NoTx, Rec(r).tx}
    BY <1>2 DEF Change, NextStep, Issuances
  <2>2. Rec(r).tx \in Issued \cup {NoTx}
    BY DEF Issued, HeldLabels, CleanLabels
  <2> QED BY <2>1, <2>2
<1>6. lease = r => OwnerOK(q, records, marker, Issued)
  <2> SUFFICES ASSUME lease = r PROVE OwnerOK(q, records, marker, Issued)
    OBVIOUS
  <2>1. OwnerOK(req[r], records, marker, Issued)
    BY DEF LeaseInv, OwnerInv, Owned
  <2>2. /\ \A id \in RecordIds \ {q.id} : q.doc[id] = records[id]
        /\ Rec(r) = records[q.id] /\ Active(records[q.id])
        /\ marker = q.id
    BY <1>3, <2>1 DEF OwnerOK, CleanLabels, DocLabels, Rec
  <2> QED
    BY <1>3, <2>2 DEF OwnerOK, CleanLabels, DocLabels, ReservedLabels
<1> QED BY <1>1, <1>4, <1>5, <1>6, ReadFrame

---------------------------------------------------------------------------
(* The steps that read *)

(* beginIssuance composes a record nobody has heard of.                    *)
LEMMA BeginReadLease ==
    ASSUME LeaseInv, TypeInv', NEW r \in Requests, BeginRead(r)
    PROVE  LeaseStep
<1>1. UNCHANGED <<lease, records, marker, broadcast>>
  BY DEF BeginRead, storeVars
<1>2. CASE Done(r) /\ UNCHANGED begun
  BY <1>1, <1>2, DoneLease
<1>3. ASSUME NEW t \in Terms, \A id \in RecordIds : ~Active(records[id]), ComposeRecord(r, t)
      PROVE  LeaseStep
  <2> DEFINE new == NewRecord(req[r].user, t)
             doc == [records EXCEPT ![begun + 1] = new]
             q == [req[r] EXCEPT !.doc = doc, !.id = begun + 1, !.pc = "beginWrite"]
  <2>1. begun' = begun + 1 /\ begun \in Nat /\ begun + 1 \in RecordIds
    BY <1>3, IssuanceAssumption
       DEF ComposeRecord, LeaseInv, TypeInv, StoreOK, RecordIds
  <2>2. req' = [req EXCEPT ![r] = q]
    BY <1>3 DEF ComposeRecord, LeaseInv, TypeInv, ReqOK
  <2>3. q.pc = "beginWrite" /\ q.id = begun + 1 /\ q.doc = doc
    BY DEF LeaseInv, TypeInv, ReqOK, RequestStates
  <2>4. doc[begun + 1] = new /\ \A id \in RecordIds \ {begun + 1} : doc[id] = records[id]
    BY <2>1 DEF LeaseInv, TypeInv, StoreOK
  <2>5. new.tx = NoTx
    BY DEF NewRecord, Absent
  <2>6. ~records[begun + 1].present /\ \A x \in Issued : x.rec # begun + 1
    BY <2>1 DEF LeaseInv, TypeInv, StoreOK, IssuedInv
  <2>7. \E u, x : new = NewRecord(u, x)
    OBVIOUS
  <2> HIDE DEF q, doc, new
  <2>8. OwnerOK(q, records, marker, Issued)
    BY <1>3, <2>3, <2>4, <2>6, <2>7
       DEF OwnerOK, DocLabels, CleanLabels, ReservedLabels
  <2>9. begun <= begun'
    BY <2>1
  <2> QED BY <1>1, <2>2, <2>3, <2>4, <2>5, <2>8, <2>9, ReadFrame
<1> QED BY <1>2, <1>3 DEF BeginRead

(* advanceIssuance and resetDesk read the whole document.                  *)
LEMMA ReadLease ==
    ASSUME LeaseInv, TypeInv', NEW r \in Requests,
           NEW label \in {"reserveRead", "resetWrite"},
           label = "reserveRead" => req[r].id \in RecordIds /\ Active(records[req[r].id]),
           req' = [req EXCEPT ![r].doc = records, ![r].pc = label],
           UNCHANGED <<lease, records, marker, broadcast, begun>>
    PROVE  LeaseStep
<1> DEFINE q == [req[r] EXCEPT !.doc = records, !.pc = label]
<1>1. req' = [req EXCEPT ![r] = q]
  BY DEF LeaseInv, TypeInv, ReqOK
<1>2. q.pc = label /\ q.id = req[r].id /\ q.doc = records
  BY DEF LeaseInv, TypeInv, ReqOK, RequestStates
<1>3. begun <= begun'
  BY IssuanceAssumption DEF LeaseInv, TypeInv, StoreOK
<1> HIDE DEF q
<1>4. q.pc \in HeldLabels => q.doc[q.id].tx \in Issued \cup {NoTx}
  BY <1>2 DEF HeldLabels, DocLabels, Issued, Active
<1>5. OwnerOK(q, records, marker, Issued)
  BY <1>2 DEF OwnerOK, DocLabels, CleanLabels, ReservedLabels
<1> QED BY <1>1, <1>3, <1>4, <1>5, ReadFrame

(* A confirmed, reverted or eventless receipt is a legal change.           *)
LEMMA ConfirmedChange ==
    ASSUME TypeInv, NEW rec, rec.step <= ChainSteps, NEW x \in receipts
    PROVE  Change(rec, Confirmed(rec, x.outcome))
BY DEF TypeInv, ChainOK, Confirmed, Change

(* The steps of advanceIssuance that work on the record in memory.         *)
LEMMA MemoryLease ==
    ASSUME LeaseInv, TypeInv', NEW r \in Requests,
           \/ Verify(r) \/ FindNotice(r) \/ RecordNotice(r) \/ CheckReceipt(r)
           \/ ChooseAttempt(r) \/ Sign(r) \/ Poll(r)
    PROVE  LeaseStep
<1>1. UNCHANGED <<lease, records, marker, broadcast, begun>>
  BY DEF Verify, FindNotice, RecordNotice, CheckReceipt, ChooseAttempt, Sign, Poll,
     storeVars, countVars
<1>2. req[r].pc \in {"step", "record", "sign", "poll"}
  BY DEF Verify, FindNotice, RecordNotice, CheckReceipt, ChooseAttempt, Sign, Poll,
     At, OnChainStep
<1>3. req[r].pc \in CleanLabels \cap ReservedLabels /\ req[r].pc \in DocLabels
  BY <1>2 DEF CleanLabels, ReservedLabels, DocLabels
<1>4. TypeInv /\ Rec(r) \in Issuances
  BY <1>3, RecOK DEF LeaseInv, TypeInv, StoreOK
<1>5. CASE Done(r)
  BY <1>1, <1>5, DoneLease
<1>6. ASSUME NEW label \in {"publish", "sign", "attempt", "save"}, Goto(r, label)
      PROVE  LeaseStep
  <2>1. label \in CleanLabels \cup {"save"} /\ label # "reserveWrite"
    BY DEF CleanLabels, DocLabels
  <2> QED BY <1>1, <1>3, <1>6, <2>1, GotoLease
<1>7. ASSUME NEW rec, NEW label \in {"save", "reviewWrite"}, Update(r, rec, label),
             Change(Rec(r), rec)
      PROVE  LeaseStep
  BY <1>1, <1>3, <1>7, UpdateLease
<1>8. CASE Verify(r)
  <2>1. Rec(r).step > NoticeStep
    BY <1>8 DEF Verify
  <2> QED BY <1>5, <1>7, <1>8, <2>1 DEF Verify, Change
<1>9. CASE FindNotice(r) \/ RecordNotice(r)
  BY <1>6, <1>7, <1>9 DEF FindNotice, RecordNotice, Change
<1>10. CASE CheckReceipt(r)
  BY <1>4, <1>7, <1>10, ConfirmedChange DEF CheckReceipt, OnChainStep
<1>11. CASE ChooseAttempt(r)
  BY <1>6, <1>7, <1>11 DEF ChooseAttempt, OnChainStep, Change
<1>12. CASE Sign(r)
  <2> DEFINE tx == [rec |-> req[r].id, step |-> Rec(r).step,
                    nonce |-> PendingNonce, by |-> r]
             new == [Rec(r) EXCEPT !.tx = tx, !.state = "pending"]
  <2>1. Update(r, new, "persist") /\ req[r].pc = "sign"
    BY <1>12 DEF Sign, At
  <2>2. Rec(r).tx = NoTx
    BY <1>4, <2>1 DEF TypeInv, ReqOK, LocalOK, Rec
  <2>3. tx # NoTx /\ new.tx = tx
    BY <1>4, IssuanceAssumption DEF NoTx, Issuances
  <2> HIDE DEF tx
  <2>4. Signs(Rec(r), new)
    BY <2>2, <2>3 DEF Signs
  <2> HIDE DEF new
  <2> QED BY <1>1, <1>3, <2>1, <2>4, UpdateLease
<1>13. CASE Poll(r)
  <2>1. Rec(r).step <= ChainSteps
    BY <1>4, <1>13 DEF Poll, At, TypeInv, ReqOK, LocalOK, Rec, ChainLabels
  <2> QED BY <1>4, <1>6, <1>7, <1>13, <2>1, ConfirmedChange DEF Poll
<1> QED BY <1>8, <1>9, <1>10, <1>11, <1>12, <1>13

(* The other steps of an issuance that do not write.                       *)
LEMMA LookLease ==
    ASSUME LeaseInv, TypeInv', NEW r \in Requests,
           \/ ReserveRead(r) \/ AdvanceRead(r) \/ PublishNotice(r)
           \/ AssertOwned(r) \/ Broadcast(r)
    PROVE  LeaseStep
<1>1. UNCHANGED <<lease, records, marker, begun>>
  BY DEF ReserveRead, AdvanceRead, PublishNotice, AssertOwned, Broadcast, storeVars,
     countVars
<1>2. ~Broadcast(r) => UNCHANGED broadcast
  BY DEF ReserveRead, AdvanceRead, PublishNotice, AssertOwned
<1>3. CASE Done(r) /\ UNCHANGED broadcast
  BY <1>1, <1>3, DoneLease
<1>4. CASE ReserveRead(r)
  <2>1. req[r].pc = "reserveRead" /\ req[r].pc \in CleanLabels /\ UNCHANGED broadcast
    BY <1>2, <1>4 DEF ReserveRead, At, CleanLabels, DocLabels, Broadcast
  <2>2. CASE marker = req[r].id /\ Goto(r, "step")
    <3>1. "step" \in CleanLabels /\ "step" # "reserveWrite"
      BY DEF CleanLabels, DocLabels
    <3> QED BY <1>1, <2>1, <2>2, <3>1, GotoLease
  <2>3. CASE marker = NoWorkflow /\ Goto(r, "reserveWrite")
    <3>1. "reserveWrite" \in CleanLabels /\ "reserveWrite" \notin ReservedLabels
      BY DEF CleanLabels, DocLabels, ReservedLabels
    <3> QED BY <1>1, <2>1, <2>3, <3>1, GotoLease
  <2> QED BY <1>3, <1>4, <2>1, <2>2, <2>3 DEF ReserveRead, Reserved
<1>5. CASE AdvanceRead(r)
  <2>1. req[r].id \in RecordIds
    BY <1>5 DEF AdvanceRead, At, LeaseInv, TypeInv, ReqOK, LocalOK
  <2>2. CASE /\ Active(records[req[r].id])
             /\ req' = [req EXCEPT ![r].doc = records, ![r].pc = "reserveRead"]
    BY <1>1, <1>5, <2>1, <2>2, ReadLease DEF AdvanceRead
  <2> QED BY <1>3, <1>5, <2>2 DEF AdvanceRead
<1>6. CASE PublishNotice(r) \/ AssertOwned(r)
  <2>1. req[r].pc \in CleanLabels \cap ReservedLabels /\ UNCHANGED broadcast
    BY <1>6 DEF PublishNotice, AssertOwned, At, CleanLabels, ReservedLabels, DocLabels
  <2>2. ASSUME NEW label \in {"record", "broadcast"}, Goto(r, label)
        PROVE  LeaseStep
    <3>1. label \in CleanLabels /\ label # "reserveWrite"
      BY DEF CleanLabels, DocLabels
    <3> QED BY <1>1, <2>1, <2>2, <3>1, GotoLease
  <2> QED BY <1>3, <1>6, <2>1, <2>2 DEF PublishNotice, AssertOwned
<1>7. CASE Broadcast(r)
  <2>1. /\ req[r].pc = "broadcast" /\ req[r].pc \in CleanLabels \cap ReservedLabels
        /\ req[r].pc \in HeldLabels
    BY <1>7 DEF Broadcast, At, CleanLabels, ReservedLabels, HeldLabels, DocLabels
  <2>2. Rec(r).tx \in Issued
    BY <2>1 DEF LeaseInv, TypeInv, ReqOK, LocalOK, Rec, SentLabels, Issued
  <2>3. "poll" \in CleanLabels /\ "poll" # "reserveWrite"
    BY DEF CleanLabels, DocLabels
  <2>4. Goto(r, "poll") /\ broadcast' = broadcast \cup {Rec(r).tx}
    BY <1>7 DEF Broadcast, Send
  <2> QED BY <1>1, <2>1, <2>2, <2>3, <2>4, GotoLease
<1> QED BY <1>4, <1>5, <1>6, <1>7

---------------------------------------------------------------------------
(* The steps that write *)

(* The owner's document changes its own record only, and legally.          *)
LEMMA OwnWrite ==
    ASSUME LeaseInv, TypeInv', NEW r \in Requests, lease = r,
           req[r].pc \in ReservedLabels, NEW doc, records' = doc,
           \A j \in RecordIds \ {req[r].id} : doc[j] = records[j],
           \/ doc[req[r].id] = records[req[r].id]
           \/ Grown(records[req[r].id], doc[req[r].id]),
           \/ UNCHANGED marker
           \/ marker' = NoWorkflow /\ doc[req[r].id].state \notin {"pending", "review"}
    PROVE  /\ \A id \in RecordIds : Legal(id)
           /\ UnresolvedHoldsReservation'
           /\ Active(records[req[r].id]) /\ marker = req[r].id
           /\ req[r].id \in RecordIds
<1>1. OwnerOK(req[r], records, marker, Issued)
  BY DEF LeaseInv, OwnerInv, Owned
<1>2. Active(records[req[r].id]) /\ marker = req[r].id
  BY <1>1 DEF OwnerOK, ReservedLabels
<1>3. req[r].id \in RecordIds
  BY RecOK DEF LeaseInv, TypeInv, StoreOK, ReservedLabels
<1>4. \A id \in RecordIds : Legal(id)
  BY <1>2 DEF Legal
<1>5. UnresolvedHoldsReservation'
  <2> SUFFICES ASSUME NEW id \in RecordIds, records'[id].present,
                      records'[id].state \in {"pending", "review"}
               PROVE  marker' = id
    BY DEF UnresolvedHoldsReservation
  <2>1. CASE id = req[r].id
    BY <1>2, <2>1
  <2>2. CASE id # req[r].id
    BY <1>2, <2>2 DEF LeaseInv, UnresolvedHoldsReservation
  <2> QED BY <2>1, <2>2
<1> QED BY <1>2, <1>3, <1>4, <1>5

(* After its write the owner is done.                                      *)
LEMMA WriteAndDone ==
    ASSUME LeaseInv, TypeInv', NEW r \in Requests, lease = r, lease' = r,
           Done(r) \/ Goto(r, "done"), UNCHANGED <<broadcast, begun>>,
           \A id \in RecordIds : Legal(id), UnresolvedHoldsReservation'
    PROVE  LeaseStep
<1>1. PICK q : q.pc = "done" /\ req' = [req EXCEPT ![r] = q]
  <2>1. CASE Done(r)
    <3> DEFINE q == [Idle EXCEPT !.pc = "done"]
    <3>1. q.pc = "done" /\ req' = [req EXCEPT ![r] = q]
      BY <2>1 DEF Idle, Done
    <3> HIDE DEF q
    <3> QED BY <3>1
  <2>2. CASE Goto(r, "done")
    <3> DEFINE q == [req[r] EXCEPT !.pc = "done"]
    <3>1. q.pc = "done" /\ req' = [req EXCEPT ![r] = q]
      BY <2>2 DEF Goto, LeaseInv, TypeInv, ReqOK, RequestStates
    <3> HIDE DEF q
    <3> QED BY <3>1
  <2> QED BY <2>1, <2>2
<1>2. OwnerOK(q, records', marker', {})
  BY <1>1, EmptyHanded DEF WriterLabels, DocLabels
<1>3. q.pc \notin HeldLabels /\ q.pc # "beginWrite"
  BY <1>1 DEF HeldLabels, DocLabels
<1> QED BY <1>1, <1>2, <1>3, WriteFrame

(* After its write the owner goes on with what it wrote.                   *)
LEMMA WriteAndGo ==
    ASSUME LeaseInv, TypeInv', NEW r \in Requests, lease = r, lease' = r, NEW q,
           req' = [req EXCEPT ![r] = q], UNCHANGED <<broadcast, begun>>,
           \A id \in RecordIds : Legal(id), UnresolvedHoldsReservation',
           q.pc \in CleanLabels \ {"reserveWrite"}, q.id \in RecordIds,
           \A id \in RecordIds : q.doc[id] = records'[id],
           Active(records'[q.id]), q.pc \in ReservedLabels => marker' = q.id
    PROVE  LeaseStep
<1>1. OwnerOK(q, records', marker', {})
  BY DEF OwnerOK, DocLabels, CleanLabels, ReservedLabels
<1>2. q.pc # "beginWrite"
  BY DEF CleanLabels
<1> QED BY <1>1, <1>2, WriteFrame DEF Active

(* beginIssuance's write.                                                  *)
LEMMA BeginWriteLease ==
    ASSUME LeaseInv, TypeInv', NEW r \in Requests, BeginWrite(r)
    PROVE  LeaseStep
<1>1. req[r].pc = "beginWrite" /\ UNCHANGED <<broadcast, begun>>
  BY DEF BeginWrite, SaveRecords, At, countVars
<1>2. CASE Done(r) /\ UNCHANGED storeVars
  BY <1>1, <1>2, DoneLease DEF storeVars
<1>3. CASE HostedWriteRecords(r, req[r].doc) /\ Goto(r, "reserveRead")
  <2> DEFINE q == [req[r] EXCEPT !.pc = "reserveRead"]
             id == req[r].id
  <2>1. req' = [req EXCEPT ![r] = q]
    BY <1>3 DEF Goto, LeaseInv, TypeInv, ReqOK
  <2>2. q.pc = "reserveRead" /\ q.id = id /\ q.doc = req[r].doc
    BY DEF LeaseInv, TypeInv, ReqOK, RequestStates
  <2>3. lease = r /\ lease' = r /\ records' = req[r].doc /\ UNCHANGED marker
    BY <1>3 DEF HostedWriteRecords, Owned
  <2>4. OwnerOK(req[r], records, marker, Issued)
    BY <2>3 DEF LeaseInv, OwnerInv, Owned
  <2>5. /\ \A j \in RecordIds \ {id} : records'[j] = records[j]
        /\ \A j \in RecordIds : ~Active(records[j])
        /\ ~records[id].present /\ \A t \in Issued : t.rec # id
    BY <1>1, <2>3, <2>4 DEF OwnerOK, DocLabels
  <2>6. PICK u, t : records'[id] = NewRecord(u, t)
    BY <1>1, <2>3, <2>4 DEF OwnerOK
  <2>7. id \in RecordIds
    BY <1>1, RecOK DEF LeaseInv, TypeInv, StoreOK, DocLabels
  <2> HIDE DEF q, id
  <2>8. \A j \in RecordIds : Legal(j)
    BY <2>5, <2>6 DEF Legal, Born
  <2>9. records'[id].state = "queued" /\ Active(records'[id])
    BY <2>6 DEF NewRecord, Absent, Active, Halted
  <2>10. UnresolvedHoldsReservation'
    BY <2>3, <2>5, <2>9 DEF LeaseInv, UnresolvedHoldsReservation
  <2>11. q.pc \in CleanLabels \ {"reserveWrite"} /\ q.pc \notin ReservedLabels
    BY <2>2 DEF CleanLabels, ReservedLabels, DocLabels
  <2> QED
    BY <1>1, <2>1, <2>2, <2>3, <2>7, <2>8, <2>9, <2>10, <2>11, WriteAndGo
<1> QED BY <1>2, <1>3 DEF BeginWrite, SaveRecords

(* reserveOperator's write of the marker.                                  *)
LEMMA ReserveWriteLease ==
    ASSUME LeaseInv, TypeInv', NEW r \in Requests, ReserveWrite(r)
    PROVE  LeaseStep
<1>1. req[r].pc = "reserveWrite" /\ UNCHANGED <<broadcast, begun>>
  BY DEF ReserveWrite, At, countVars
<1>2. CASE Done(r) /\ UNCHANGED storeVars
  BY <1>1, <1>2, DoneLease DEF storeVars
<1>3. CASE HostedWriteMarker(r, req[r].id) /\ Reserved(r)
  <2>1. lease = r /\ lease' = r /\ UNCHANGED records /\ marker' = req[r].id
    BY <1>3 DEF HostedWriteMarker, Owned
  <2>2. OwnerOK(req[r], records, marker, Issued)
    BY <2>1 DEF LeaseInv, OwnerInv, Owned
  <2>3. /\ marker = NoWorkflow /\ Active(records[req[r].id])
        /\ \A id \in RecordIds : req[r].doc[id] = records[id]
    BY <1>1, <2>2 DEF OwnerOK, DocLabels, CleanLabels
  <2>4. req[r].id \in RecordIds
    BY <1>1, RecOK DEF LeaseInv, TypeInv, StoreOK, DocLabels
  <2>5. \A id \in RecordIds : Legal(id)
    BY <2>1 DEF Legal
  <2>6. UnresolvedHoldsReservation'
    BY <2>1, <2>3, IssuanceAssumption
       DEF LeaseInv, UnresolvedHoldsReservation, RecordIds
  <2>7. CASE Done(r)
    BY <1>1, <2>1, <2>5, <2>6, <2>7, WriteAndDone
  <2>8. CASE Goto(r, "step")
    <3> DEFINE q == [req[r] EXCEPT !.pc = "step"]
    <3>1. req' = [req EXCEPT ![r] = q]
      BY <2>8 DEF Goto, LeaseInv, TypeInv, ReqOK
    <3>2. q.pc = "step" /\ q.id = req[r].id /\ q.doc = req[r].doc
      BY DEF LeaseInv, TypeInv, ReqOK, RequestStates
    <3>3. "step" \in CleanLabels \ {"reserveWrite"}
      BY DEF CleanLabels, DocLabels
    <3> HIDE DEF q
    <3> QED
      BY <1>1, <2>1, <2>3, <2>4, <2>5, <2>6, <3>1, <3>2, <3>3, WriteAndGo
  <2> QED BY <1>3, <2>7, <2>8 DEF Reserved
<1> QED BY <1>2, <1>3 DEF ReserveWrite

(* The signed bytes are stored.                                            *)
LEMMA PersistLease ==
    ASSUME LeaseInv, TypeInv', NEW r \in Requests, Persist(r)
    PROVE  LeaseStep
<1>1. req[r].pc = "persist" /\ UNCHANGED <<broadcast, begun>>
  BY DEF Persist, SaveRecords, At, countVars
<1>2. CASE Done(r) /\ UNCHANGED storeVars
  BY <1>1, <1>2, DoneLease DEF storeVars
<1>3. CASE HostedWriteRecords(r, req[r].doc) /\ Goto(r, "attempt")
  <2> DEFINE q == [req[r] EXCEPT !.pc = "attempt"]
  <2>1. req' = [req EXCEPT ![r] = q]
    BY <1>3 DEF Goto, LeaseInv, TypeInv, ReqOK
  <2>2. q.pc = "attempt" /\ q.id = req[r].id /\ q.doc = req[r].doc
    BY DEF LeaseInv, TypeInv, ReqOK, RequestStates
  <2>3. lease = r /\ lease' = r /\ records' = req[r].doc /\ UNCHANGED marker
    BY <1>3 DEF HostedWriteRecords, Owned
  <2>4. OwnerOK(req[r], records, marker, Issued)
    BY <2>3 DEF LeaseInv, OwnerInv, Owned
  <2>5. /\ req[r].pc \in ReservedLabels /\ Signs(records[req[r].id], req[r].doc[req[r].id])
        /\ \A j \in RecordIds \ {req[r].id} : req[r].doc[j] = records[j]
    BY <1>1, <2>4 DEF OwnerOK, ReservedLabels, DocLabels
  <2>6. /\ \A id \in RecordIds : Legal(id)
        /\ UnresolvedHoldsReservation' /\ req[r].id \in RecordIds
        /\ Active(records[req[r].id]) /\ marker = req[r].id
    BY <2>3, <2>5, OwnWrite DEF Grown
  <2>7. Active(records'[req[r].id])
    <3>1. records[req[r].id] \in Issuances
      BY <2>6 DEF LeaseInv, TypeInv, StoreOK
    <3> QED BY <2>3, <2>5, <2>6, <3>1 DEF Signs, Active, Halted, Issuances
  <2>8. "attempt" \in CleanLabels \ {"reserveWrite"}
    BY DEF CleanLabels, DocLabels
  <2> HIDE DEF q
  <2> QED BY <1>1, <2>1, <2>2, <2>3, <2>6, <2>7, <2>8, WriteAndGo
<1> QED BY <1>2, <1>3 DEF Persist, SaveRecords

(* The attempt is counted.                                                 *)
LEMMA AttemptLease ==
    ASSUME LeaseInv, TypeInv', NEW r \in Requests, Attempt(r)
    PROVE  LeaseStep
<1> DEFINE id == req[r].id
           new == [Rec(r) EXCEPT !.attempts = Rec(r).attempts + 1]
           doc == [req[r].doc EXCEPT ![req[r].id] = new]
           q == [req[r] EXCEPT !.doc = doc, !.pc = "assertOwned"]
<1>1. req[r].pc = "attempt" /\ UNCHANGED <<broadcast, begun>>
  BY DEF Attempt, At, countVars
<1>2. CASE Done(r) /\ UNCHANGED storeVars
  BY <1>1, <1>2, DoneLease DEF storeVars
<1>3. CASE HostedWriteRecords(r, doc) /\ req' = [req EXCEPT ![r].doc = doc,
                                                           ![r].pc = "assertOwned"]
  <2>1. req' = [req EXCEPT ![r] = q]
    BY <1>3 DEF LeaseInv, TypeInv, ReqOK
  <2>2. q.pc = "assertOwned" /\ q.id = req[r].id /\ q.doc = doc
    BY DEF LeaseInv, TypeInv, ReqOK, RequestStates
  <2>3. lease = r /\ lease' = r /\ records' = doc /\ UNCHANGED marker
    BY <1>3 DEF HostedWriteRecords, Owned
  <2>4. OwnerOK(req[r], records, marker, Issued)
    BY <2>3 DEF LeaseInv, OwnerInv, Owned
  <2>5. /\ req[r].pc \in ReservedLabels /\ Rec(r) = records[id]
        /\ \A j \in RecordIds \ {id} : req[r].doc[j] = records[j]
    BY <1>1, <2>4 DEF OwnerOK, ReservedLabels, CleanLabels, DocLabels, Rec
  <2>6. id \in RecordIds /\ req[r].doc \in [RecordIds -> Issuances]
        /\ Rec(r) \in Issuances
    BY <1>1, RecOK DEF LeaseInv, TypeInv, StoreOK, DocLabels
  <2>7. doc[id] = new /\ \A j \in RecordIds \ {id} : doc[j] = records[j]
    BY <2>5, <2>6
  <2>8. Grown(records[id], new)
    BY <2>5 DEF Grown
  <2>9. Active(records[id]) => Active(new)
    BY <2>5, <2>6 DEF Active, Halted, Issuances
  <2> HIDE DEF q, doc, new
  <2>10. /\ \A j \in RecordIds : Legal(j)
         /\ UnresolvedHoldsReservation'
         /\ Active(records[id]) /\ marker = id
    BY <2>3, <2>5, <2>7, <2>8, OwnWrite
  <2>11. "assertOwned" \in CleanLabels \ {"reserveWrite"}
    BY DEF CleanLabels, DocLabels
  <2> QED BY <1>1, <2>1, <2>2, <2>3, <2>6, <2>7, <2>9, <2>10, <2>11, WriteAndGo
<1>4. [req[r].doc EXCEPT ![req[r].id].attempts = Rec(r).attempts + 1] = doc
  BY DEF Rec
<1>5. Attempt(r) => \/ Done(r) /\ UNCHANGED storeVars
                    \/ /\ HostedWriteRecords(r, doc)
                       /\ req' = [req EXCEPT ![r].doc = doc, ![r].pc = "assertOwned"]
  <2> HIDE DEF doc
  <2> QED BY <1>4 DEF Attempt
<1> QED BY <1>2, <1>3, <1>5

(* Leaving a step for review.                                              *)
LEMMA ReviewWriteLease ==
    ASSUME LeaseInv, TypeInv', NEW r \in Requests, ReviewWrite(r)
    PROVE  LeaseStep
<1>1. req[r].pc = "reviewWrite" /\ UNCHANGED <<broadcast, begun>>
  BY DEF ReviewWrite, SaveRecords, At, countVars
<1>2. CASE Done(r) /\ UNCHANGED storeVars
  BY <1>1, <1>2, DoneLease DEF storeVars
<1>3. CASE HostedWriteRecords(r, req[r].doc) /\ Goto(r, "done")
  <2>1. lease = r /\ lease' = r /\ records' = req[r].doc /\ UNCHANGED marker
    BY <1>3 DEF HostedWriteRecords, Owned
  <2>2. OwnerOK(req[r], records, marker, Issued)
    BY <2>1 DEF LeaseInv, OwnerInv, Owned
  <2>3. /\ req[r].pc \in ReservedLabels
        /\ Grown(records[req[r].id], req[r].doc[req[r].id])
        /\ \A j \in RecordIds \ {req[r].id} : req[r].doc[j] = records[j]
    BY <1>1, <2>2 DEF OwnerOK, ReservedLabels, DocLabels, Grown
  <2>4. (\A id \in RecordIds : Legal(id)) /\ UnresolvedHoldsReservation'
    BY <2>1, <2>3, OwnWrite
  <2> QED BY <1>1, <1>3, <2>1, <2>4, WriteAndDone
<1> QED BY <1>2, <1>3 DEF ReviewWrite, SaveRecords

(* saveProgress, which frees the account after a decided receipt only.     *)
LEMMA SaveProgressLease ==
    ASSUME LeaseInv, TypeInv', NEW r \in Requests, SaveProgress(r)
    PROVE  LeaseStep
<1> DEFINE id == req[r].id
<1>1. req[r].pc = "save" /\ UNCHANGED <<broadcast, begun>> /\ Done(r)
  BY DEF SaveProgress, At, countVars
<1>2. CASE UNCHANGED storeVars
  BY <1>1, <1>2, DoneLease DEF storeVars
<1>3. ASSUME lease = r, lease' = r, records' = req[r].doc,
             \/ UNCHANGED marker
             \/ marker' = NoWorkflow /\ Frees(Rec(r))
      PROVE  LeaseStep
  <2>1. OwnerOK(req[r], records, marker, Issued)
    BY <1>3 DEF LeaseInv, OwnerInv, Owned
  <2>2. /\ req[r].pc \in ReservedLabels /\ req[r].pc \in DocLabels
        /\ Rec(r) = records[id] \/ Change(records[id], Rec(r))
        /\ Active(records[id])
        /\ \A j \in RecordIds \ {id} : req[r].doc[j] = records[j]
    BY <1>1, <2>1 DEF OwnerOK, ReservedLabels, DocLabels, Rec
  <2>3. Frees(Rec(r)) => Rec(r).state \notin {"pending", "review"}
    <3>1. id \in RecordIds
      BY <2>2, RecOK DEF LeaseInv, TypeInv, StoreOK
    <3>2. records[id] \in Issuances
      BY <3>1 DEF LeaseInv, TypeInv, StoreOK
    <3>3. records[id].step > ChainSteps => records[id].state = "queued"
      BY <2>2, <3>1 DEF LeaseInv, StageInv, Active
    <3>4. ~records[id].completed /\ ~Halted(records[id])
      BY <2>2 DEF Active
    <3>5. CASE Rec(r) = records[id]
      BY <3>4, <3>5 DEF Frees, Halted
    <3>6. CASE Rec(r) = NextStep(records[id])
      BY <3>2, <3>6 DEF NextStep, Issuances
    <3>7. CASE \E s \in {"failed", "review"} : Rec(r) = [records[id] EXCEPT !.state = s]
      BY <3>2, <3>4, <3>7 DEF Frees, Issuances
    <3>8. CASE records[id].step > NoticeStep /\ Rec(r) = [records[id] EXCEPT !.completed = TRUE]
      BY <3>2, <3>3, <3>8, IssuanceAssumption DEF NoticeStep, Issuances
    <3> QED BY <2>2, <3>5, <3>6, <3>7, <3>8 DEF Change
  <2>4. (\A j \in RecordIds : Legal(j)) /\ UnresolvedHoldsReservation'
    BY <1>3, <2>2, <2>3, OwnWrite DEF Grown, Rec
  <2> QED BY <1>1, <1>3, <2>4, WriteAndDone
<1>4. \/ UNCHANGED storeVars
      \/ /\ lease = r /\ lease' = r /\ records' = req[r].doc
         /\ \/ UNCHANGED marker
            \/ marker' = NoWorkflow /\ Frees(Rec(r))
  BY DEF SaveProgress, HostedWriteAndReleaseOperator, HostedWriteRecords, MayFinish, Owned
<1> QED BY <1>2, <1>3, <1>4

(* resetDesk.                                                              *)
LEMMA ResetLease ==
    ASSUME LeaseInv, TypeInv', NEW r \in Requests, ResetStep(r)
    PROVE  LeaseStep
<1>1. UNCHANGED <<broadcast, begun>>
  BY DEF ResetStep, ResetRead, ResetWrite, ResetFree, countVars
<1>2. CASE Done(r) /\ UNCHANGED storeVars
  BY <1>1, <1>2, DoneLease DEF storeVars
<1>3. CASE ResetRead(r)
  BY <1>1, <1>2, <1>3, ReadLease DEF ResetRead, storeVars
<1>4. CASE ResetWrite(r) /\ HostedWriteRecords(r, Kept(r)) /\ Goto(r, "resetFree")
  <2> DEFINE q == [req[r] EXCEPT !.pc = "resetFree"]
  <2>1. req' = [req EXCEPT ![r] = q]
    BY <1>4 DEF Goto, LeaseInv, TypeInv, ReqOK
  <2>2. q.pc = "resetFree" /\ q.user = req[r].user /\ q.doc = req[r].doc
    BY DEF LeaseInv, TypeInv, ReqOK, RequestStates
  <2>3. lease = r /\ lease' = r /\ records' = Kept(r) /\ UNCHANGED marker
    BY <1>4 DEF HostedWriteRecords, Owned
  <2>4. req[r].doc = records
    BY <1>4, <2>3 DEF LeaseInv, OwnerInv, Owned, OwnerOK, ResetWrite, At
  <2>5. ASSUME NEW id \in RecordIds
        PROVE  /\ records'[id] = records[id] \/ records'[id] = Absent
               /\ records'[id] = IF /\ q.doc[id].present /\ q.doc[id].owner = q.user
                                    /\ ~q.doc[id].completed
                                 THEN Absent ELSE q.doc[id]
    BY <2>2, <2>3, <2>4 DEF Kept, Dropped, Present
  <2> HIDE DEF q
  <2>6. \A id \in RecordIds : Legal(id)
    BY <2>5 DEF Legal
  <2>7. UnresolvedHoldsReservation'
    BY <2>3, <2>5 DEF LeaseInv, UnresolvedHoldsReservation, Absent
  <2>8. OwnerOK(q, records', marker', {})
    BY <2>2, <2>5 DEF OwnerOK, DocLabels, CleanLabels, ReservedLabels
  <2> QED BY <1>1, <2>1, <2>2, <2>3, <2>6, <2>7, <2>8, WriteFrame DEF HeldLabels, DocLabels
<1>5. CASE ResetFree(r) /\ marker \in Dropped(r) /\ HostedWriteMarker(r, NoWorkflow)
  <2>1. lease = r /\ lease' = r /\ UNCHANGED records /\ marker' = NoWorkflow /\ Done(r)
    BY <1>5 DEF ResetFree, HostedWriteMarker, Owned
  <2>2. \A id \in Dropped(r) : records[id] = Absent
    BY <1>5, <2>1 DEF LeaseInv, OwnerInv, Owned, OwnerOK, ResetFree, At, Dropped, Present
  <2>3. UnresolvedHoldsReservation'
    BY <1>5, <2>1, <2>2 DEF LeaseInv, UnresolvedHoldsReservation, Absent
  <2>4. \A id \in RecordIds : Legal(id)
    BY <2>1 DEF Legal
  <2> QED BY <1>1, <2>1, <2>3, <2>4, WriteAndDone
<1>6. ResetWrite(r) => \/ Done(r) /\ UNCHANGED storeVars
                       \/ HostedWriteRecords(r, Kept(r)) /\ Goto(r, "resetFree")
  BY DEF ResetWrite
<1>7. ResetFree(r) => \/ Done(r) /\ UNCHANGED storeVars
                      \/ marker \in Dropped(r) /\ HostedWriteMarker(r, NoWorkflow)
  BY DEF ResetFree
<1> QED BY <1>2, <1>3, <1>4, <1>5, <1>6, <1>7 DEF ResetStep

---------------------------------------------------------------------------
(* The other steps *)

(* A step after which a request has nothing in memory.                     *)
LEMMA EmptyLease ==
    ASSUME LeaseInv, TypeInv', NEW r \in Requests, NEW q,
           req' = [req EXCEPT ![r] = q], q.pc \notin WriterLabels,
           \A s \in Requests \ {r} : lease' = s => lease = s,
           UNCHANGED <<records, marker, broadcast, begun>>
    PROVE  LeaseStep
<1>1. begun <= begun'
  BY IssuanceAssumption DEF LeaseInv, TypeInv, StoreOK
<1>2. OwnerOK(q, records, marker, Issued)
  BY EmptyHanded
<1>3. q.pc \notin HeldLabels
  BY DEF HeldLabels, WriterLabels
<1> QED BY <1>1, <1>2, <1>3, ReadFrame

(* A request starts, or ends, or throws, or dies.                          *)
LEMMA StartEndLease ==
    ASSUME LeaseInv, TypeInv', NEW r \in Requests,
           \/ \E u \in Users : StartBegin(r, u) \/ StartReset(r, u)
           \/ \E u \in Users, id \in RecordIds : StartAdvance(r, u, id)
           \/ StartConsent(r) \/ TickLook(r) \/ TickClaim(r) \/ OtherEnds(r)
           \/ Finish(r) \/ Throw(r) \/ Die(r)
    PROVE  LeaseStep
<1>1. Nobody \notin Requests
  BY IssuanceAssumption
<1>2. UNCHANGED <<records, marker, broadcast, begun>>
  BY DEF StartBegin, StartReset, StartAdvance, StartConsent, Start, Claim, TickLook,
     TickClaim, OtherEnds, Finish, Release, Throw, Die, storeVars, countVars
<1>3. \A s \in Requests \ {r} : lease' = s => lease = s
  BY <1>1 DEF StartBegin, StartReset, StartAdvance, StartConsent, Start, Claim,
     TickLook, TickClaim, OtherEnds, Finish, Release, Owned, Throw, Die, storeVars
<1>4. ASSUME NEW q, q.pc \notin WriterLabels, req' = [req EXCEPT ![r] = q]
      PROVE  LeaseStep
  BY <1>2, <1>3, <1>4, EmptyLease
<1>5. CASE TickClaim(r) /\ Goto(r, "send")
  <2> DEFINE q == [req[r] EXCEPT !.pc = "send"]
  <2>1. q.pc = "send" /\ req' = [req EXCEPT ![r] = q]
    BY <1>5 DEF Goto, LeaseInv, TypeInv, ReqOK, RequestStates
  <2> HIDE DEF q
  <2> QED BY <1>4, <2>1 DEF WriterLabels, DocLabels
<1>6. CASE Done(r)
  <2> DEFINE q == [Idle EXCEPT !.pc = "done"]
  <2>1. q.pc = "done" /\ req' = [req EXCEPT ![r] = q]
    BY <1>6 DEF Done, Idle
  <2> HIDE DEF q
  <2> QED BY <1>4, <2>1 DEF WriterLabels, DocLabels
<1>7. CASE Finish(r) \/ Die(r)
  <2>1. Idle.pc = "idle" /\ req' = [req EXCEPT ![r] = Idle]
    BY <1>7 DEF Finish, Die, Idle
  <2> QED BY <1>4, <2>1 DEF WriterLabels, DocLabels
<1>8. CASE TickLook(r)
  <2> DEFINE q == [Idle EXCEPT !.pc = "tickLease", !.job = "tick"]
  <2>1. q.pc = "tickLease" /\ req' = [req EXCEPT ![r] = q]
    BY <1>8 DEF TickLook, Idle
  <2> HIDE DEF q
  <2> QED BY <1>4, <2>1 DEF WriterLabels, DocLabels
<1>9. ASSUME NEW job, NEW label \in {"beginRead", "advanceRead", "resetRead", "send"},
             NEW u, NEW id, Start(r, job, label, u, id)
      PROVE  LeaseStep
  <2> DEFINE q == [Idle EXCEPT !.pc = label, !.job = job, !.user = u, !.id = id]
  <2>1. q.pc = label /\ req' = [req EXCEPT ![r] = q]
    BY <1>9 DEF Start, Idle
  <2> HIDE DEF q
  <2> QED BY <1>4, <2>1 DEF WriterLabels, DocLabels
<1> QED
  BY <1>5, <1>6, <1>7, <1>8, <1>9 DEF StartBegin, StartReset, StartAdvance,
     StartConsent, TickClaim, OtherEnds, Throw

(* Steps that leave every request and every document alone.                *)
LEMMA OutsideLease ==
    ASSUME LeaseInv, TypeInv', UNCHANGED <<req, records, marker, begun>>,
           lease' \in {lease, Nobody}, \A t \in broadcast' : t \in broadcast \/ t.rec = 0
    PROVE  LeaseStep
<1>1. Issued' \subseteq Issued
  BY DEF Issued, Rec
<1>2. \A id \in RecordIds : Legal(id)
  BY DEF Legal
<1>3. begun <= begun'
  BY IssuanceAssumption DEF LeaseInv, TypeInv, StoreOK
<1>4. IssuedInv'
  BY <1>1, <1>2, <1>3, LegalKeepsIssued
<1>5. OwnerInv'
  <2> SUFFICES ASSUME NEW s \in Requests, lease' = s
               PROVE  OwnerOK(req[s], records, marker, Issued')
    BY DEF OwnerInv, Owned
  <2>1. lease = s
    BY IssuanceAssumption
  <2>2. OwnerOK(req[s], records, marker, Issued)
    BY <2>1 DEF LeaseInv, OwnerInv, Owned
  <2> QED BY <1>1, <2>2, OwnerFrame
<1> QED
  BY <1>1, <1>2, <1>4, <1>5 DEF LeaseStep, IssuedGrows, LeaseInv, StageInv,
     OneIssuanceAtATime, UnresolvedHoldsReservation

(* Every step.                                                             *)
LEMMA EveryStep == LeaseInv /\ [Next]_vars => LeaseStep
<1> SUFFICES ASSUME LeaseInv, [Next]_vars PROVE LeaseStep
  OBVIOUS
<1>1. TypeInv'
  BY TypeStep DEF LeaseInv
<1>2. ASSUME NEW r \in Requests, IssuanceStep(r) \/ ResetStep(r)
      PROVE  LeaseStep
  BY <1>1, <1>2, BeginReadLease, BeginWriteLease, ReserveWriteLease, LookLease,
     MemoryLease, ReviewWriteLease, PersistLease, AttemptLease, SaveProgressLease,
     ResetLease DEF IssuanceStep
<1>3. ASSUME NEW r \in Requests, OtherSends(r)
      PROVE  LeaseStep
  BY <1>1, <1>3, OutsideLease DEF OtherSends, Send, storeVars
<1>4. CASE LeaseExpires
  BY <1>1, <1>4, OutsideLease DEF LeaseExpires, Expire, countVars
<1>5. CASE NetworkStep
  BY <1>1, <1>5, OutsideLease DEF NetworkStep, Mine, Lose, storeVars, countVars
<1>6. CASE UNCHANGED vars
  BY <1>1, <1>6, OutsideLease DEF vars, storeVars, countVars
<1>7. ASSUME NEW r \in Requests,
             \/ \E u \in Users : StartBegin(r, u) \/ StartReset(r, u)
             \/ \E u \in Users, id \in RecordIds : StartAdvance(r, u, id)
             \/ StartConsent(r) \/ TickLook(r) \/ TickClaim(r) \/ OtherEnds(r)
             \/ Finish(r) \/ Throw(r) \/ Die(r)
      PROVE  LeaseStep
  BY <1>1, <1>7, StartEndLease
<1>8. CASE \E r \in Requests : HandlerStep(r)
  BY <1>2, <1>3, <1>7, <1>8 DEF HandlerStep
<1>9. CASE \E r \in Requests : \/ StartConsent(r) \/ TickLook(r) \/ Throw(r) \/ Die(r)
                               \/ \E u \in Users : StartBegin(r, u) \/ StartReset(r, u)
                               \/ \E u \in Users, id \in RecordIds : StartAdvance(r, u, id)
  BY <1>7, <1>9
<1> QED BY <1>4, <1>5, <1>6, <1>8, <1>9 DEF Next

(* The invariant holds at first: nobody owns the lease, nothing is issued. *)
LEMMA InitLease == Init => LeaseInv
<1> SUFFICES ASSUME Init PROVE LeaseInv
  OBVIOUS
<1>1. TypeInv
  BY InitType
<1>2. /\ \A id \in RecordIds : ~records[id].present
      /\ \A r \in Requests : req[r].pc = "idle"
  BY DEF Init, NoDoc, Absent, Idle
<1>3. Issued = {}
  BY <1>2 DEF Init, Issued, HeldLabels, DocLabels
<1>4. OwnerInv
  BY IssuanceAssumption DEF Init, OwnerInv, Owned
<1> QED
  BY <1>1, <1>2, <1>3, <1>4 DEF LeaseInv, IssuedInv, StageInv, OneIssuanceAtATime,
     UnresolvedHoldsReservation, Active

(* The inductive invariant and what it says.                               *)
LEMMA LeaseInvariant == Spec => []LeaseInv
<1>1. LeaseInv /\ [Next]_vars => LeaseInv'
  BY EveryStep DEF LeaseStep
<1> QED BY <1>1, InitLease, PTL DEF Spec

(* However requests race, throw, die or lose their lease, the transactions *)
(* sent for a step of a record are one: a retry sends identical bytes and  *)
(* no step can mint twice (issuance.ts, advanceIssuance).                  *)
THEOREM OneTransaction == Spec => []OneTransactionPerStep
<1>1. LeaseInv => OneTransactionPerStep
  BY DEF LeaseInv, IssuedInv, Issued, OneTransactionPerStep
<1> QED BY <1>1, LeaseInvariant, PTL

(* Whatever was sent is in the record that sent it, or that record has the *)
(* receipt already: signed bytes are stored before they are sent.          *)
THEOREM RecordedFirst == Spec => []BroadcastIsRecorded
<1>1. LeaseInv => BroadcastIsRecorded
  BY DEF LeaseInv, IssuedInv, Issued, BroadcastIsRecorded
<1> QED BY <1>1, LeaseInvariant, PTL

(* One issuance at most is active, across all users, requests and restarts: *)
(* a request that begins one has read every record under the lease.        *)
THEOREM OneIssuance == Spec => []OneIssuanceAtATime
<1>1. LeaseInv => OneIssuanceAtATime
  BY DEF LeaseInv
<1> QED BY <1>1, LeaseInvariant, PTL

(* An issuance with an unknown outcome holds the reservation of the signing *)
(* account, across all users and requests.                                 *)
THEOREM SignerReserved == Spec => []UnresolvedHoldsReservation
<1>1. LeaseInv => UnresolvedHoldsReservation
  BY DEF LeaseInv
<1> QED BY <1>1, LeaseInvariant, PTL

(* No write takes a record back: late requests cannot write, and the owner *)
(* of the lease changes its record forward only.                           *)
THEOREM Progress == Spec => ProgressIsKept
<1>1. LeaseInv /\ [Next]_vars =>
         [\A id \in RecordIds :
            LET old == records[id]
                new == records'[id]
            IN  /\ (old.present /\ new.present) =>
                  /\ new.step >= old.step
                  /\ new.step = old.step =>
                        /\ new.attempts >= old.attempts
                        /\ old.tx # NoTx => new.tx = old.tx
                  /\ (old.completed \/ Halted(old)) => new = old
                /\ (~old.present /\ new.present) => new.step = 1 /\ new.tx = NoTx]_vars
  <2> SUFFICES ASSUME LeaseInv, [Next]_vars, NEW id \in RecordIds
               PROVE  LET old == records[id]
                          new == records'[id]
                      IN  /\ (old.present /\ new.present) =>
                              /\ new.step >= old.step
                              /\ new.step = old.step =>
                                    /\ new.attempts >= old.attempts
                                    /\ old.tx # NoTx => new.tx = old.tx
                              /\ (old.completed \/ Halted(old)) => new = old
                          /\ (~old.present /\ new.present)
                                 => new.step = 1 /\ new.tx = NoTx
    OBVIOUS
  <2>1. TypeInv' /\ \A j \in RecordIds : Legal(j)
    BY EveryStep DEF LeaseStep, LeaseInv
  <2> QED BY <2>1, LegalKeepsProgress
<1> QED BY <1>1, LeaseInvariant, PTL DEF Spec, ProgressIsKept

---------------------------------------------------------------------------
(***************************************************************************)
(* 3. The chain                                                            *)
(*                                                                         *)
(* A transaction is decided once, because its nonce is then behind the     *)
(* account's (DecidedInv); a record moves past a chain step only in the    *)
(* memory of a request that saw the step's receipt (SeenInv); and one      *)
(* transaction is sent per step (IssuedInv).                               *)
(***************************************************************************)

DecidedInv ==
    /\ \A t \in pool : t \in broadcast /\ t.nonce >= chainNonce
    /\ \A x \in receipts : /\ x.tx \in broadcast /\ x.tx.rec # 0
                           /\ x.tx.nonce < chainNonce
    /\ \A x, y \in receipts : x.tx = y.tx => x = y

HasOk(id, s) == \E x \in receipts : x.tx.rec = id /\ x.tx.step = s /\ x.outcome = "ok"
(* All chain steps before step n of record id have succeeded. *)
Succeeded(id, n) == \A s \in 1..ChainSteps : s < n => HasOk(id, s)
SeenInv ==
    /\ \A id \in RecordIds : records[id].present => Succeeded(id, records[id].step)
    /\ \A r \in Requests : req[r].pc \in DocLabels => Succeeded(req[r].id, Rec(r).step)

(* Receipts stay. *)
LEMMA ReceiptsGrow == [Next]_vars => receipts \subseteq receipts'
<1> SUFFICES ASSUME [Next]_vars PROVE receipts \subseteq receipts'
  OBVIOUS
<1>1. ASSUME NEW tx, NEW outcome, Mine(tx, outcome) PROVE receipts \subseteq receipts'
  BY <1>1 DEF Mine
<1>2. ASSUME NEW r, IssuanceStep(r) PROVE receipts' = receipts
  <2>1. CASE BeginRead(r) \/ BeginWrite(r) \/ ReserveRead(r) \/ ReserveWrite(r)
             \/ AdvanceRead(r) \/ Verify(r) \/ FindNotice(r) \/ PublishNotice(r)
    BY <2>1 DEF BeginRead, BeginWrite, ReserveRead, ReserveWrite, AdvanceRead, Verify,
       FindNotice, PublishNotice, SaveRecords, chainVars
  <2>2. CASE RecordNotice(r) \/ CheckReceipt(r) \/ ChooseAttempt(r) \/ ReviewWrite(r)
             \/ Sign(r) \/ Persist(r)
    BY <2>2 DEF RecordNotice, CheckReceipt, ChooseAttempt, ReviewWrite, Sign, Persist,
       SaveRecords, chainVars
  <2>3. CASE Attempt(r) \/ AssertOwned(r) \/ Broadcast(r) \/ Poll(r) \/ SaveProgress(r)
    BY <2>3 DEF Attempt, AssertOwned, Broadcast, Poll, SaveProgress, Send, chainVars
  <2> QED BY <1>2, <2>1, <2>2, <2>3 DEF IssuanceStep
<1>3. ASSUME NEW r, ResetStep(r) \/ Finish(r) \/ TickClaim(r) \/ OtherSends(r) \/ OtherEnds(r)
      PROVE  receipts' = receipts
  BY <1>3 DEF ResetStep, ResetRead, ResetWrite, ResetFree, Finish, TickClaim, OtherSends,
     OtherEnds, Send, chainVars
<1>4. ASSUME NEW r, NEW u, NEW id,
             \/ StartBegin(r, u) \/ StartReset(r, u) \/ StartAdvance(r, u, id)
             \/ StartConsent(r) \/ TickLook(r) \/ Throw(r) \/ Die(r) \/ LeaseExpires
      PROVE  receipts' = receipts
  BY <1>4 DEF StartBegin, StartReset, StartAdvance, StartConsent, Start, TickLook, Throw, Die,
     LeaseExpires, chainVars
<1>5. ASSUME NEW tx, Lose(tx) PROVE receipts' = receipts
  BY <1>5 DEF Lose
<1>6. CASE UNCHANGED vars
  BY <1>6 DEF vars, chainVars
<1> QED BY <1>1, <1>2, <1>3, <1>4, <1>5, <1>6 DEF Next, HandlerStep, NetworkStep

(* A transaction is decided when its nonce is next, so once. *)
LEMMA DecidedStep ==
    ASSUME TypeInv, DecidedInv, [Next]_vars
    PROVE  DecidedInv'
<1>1. chainNonce \in Nat /\ \A t \in pool : t.nonce \in Nat
  BY DEF TypeInv, ChainOK, Txs
<1>2. ASSUME NEW tx, Send(tx)
      PROVE  DecidedInv'
  BY <1>2 DEF Send, DecidedInv
<1>3. ASSUME NEW tx \in pool, NEW outcome, Mine(tx, outcome)
      PROVE  DecidedInv'
  <2>1. \A t \in pool' : t \in broadcast /\ t.nonce >= chainNonce'
    BY <1>1, <1>3 DEF Mine, DecidedInv
  <2>2. \A x \in receipts' : /\ x.tx \in broadcast /\ x.tx.rec # 0
                             /\ x.tx.nonce < chainNonce'
    BY <1>1, <1>3 DEF Mine, DecidedInv, TypeInv, ChainOK, Txs
  <2>3. \A x \in receipts : x.tx # tx
    BY <1>1, <1>3 DEF Mine, DecidedInv
  <2>4. \A x, y \in receipts' : x.tx = y.tx => x = y
    BY <1>3, <2>3 DEF Mine, DecidedInv
  <2>5. broadcast' = broadcast
    BY <1>3 DEF Mine
  <2> QED BY <2>1, <2>2, <2>4, <2>5 DEF DecidedInv
<1>4. ASSUME NEW tx, Lose(tx)
      PROVE  DecidedInv'
  BY <1>4 DEF Lose, DecidedInv
<1>5. CASE UNCHANGED <<chainVars, broadcast>>
  BY <1>5 DEF chainVars, DecidedInv
<1>6. ASSUME NEW r \in Requests, IssuanceStep(r)
      PROVE  DecidedInv'
  <2>1. Broadcast(r) \/ UNCHANGED <<chainVars, broadcast>>
    BY <1>6 DEF IssuanceStep, BeginRead, BeginWrite, ReserveRead,
       ReserveWrite, AdvanceRead, Verify, FindNotice, PublishNotice, RecordNotice,
       CheckReceipt, ChooseAttempt, ReviewWrite, Sign, Persist, Attempt, AssertOwned,
       Poll, SaveProgress, SaveRecords
  <2> QED BY <1>2, <1>5, <2>1 DEF Broadcast
<1>7. ASSUME NEW r \in Requests, HandlerStep(r)
      PROVE  DecidedInv'
  <2>1. \/ IssuanceStep(r) \/ OtherSends(r) \/ UNCHANGED <<chainVars, broadcast>>
    BY <1>7 DEF HandlerStep, ResetStep, ResetRead, ResetWrite, ResetFree, Finish,
       TickClaim, OtherEnds
  <2> QED BY <1>2, <1>5, <1>6, <2>1 DEF OtherSends
<1>8. CASE NetworkStep
  BY <1>3, <1>4, <1>8 DEF NetworkStep
<1>9. CASE Next /\ ~NetworkStep /\ ~\E r \in Requests : HandlerStep(r)
  <2>1. UNCHANGED <<chainVars, broadcast>>
    BY <1>9 DEF Next, StartBegin, StartReset, StartAdvance, StartConsent, Start,
       TickLook, Throw, Die, LeaseExpires
  <2> QED BY <1>5, <2>1
<1> QED BY <1>5, <1>7, <1>8, <1>9 DEF vars

---------------------------------------------------------------------------
(* What requests have in memory *)

MemorySeen == \A r \in Requests : req'[r].pc \in DocLabels =>
                  Succeeded(req'[r].id, Rec(r)'.step)

(* One request changes. *)
LEMMA MemoryFrame ==
    ASSUME TypeInv, SeenInv, NEW r \in Requests, NEW q, req' = [req EXCEPT ![r] = q],
           q.pc \in DocLabels => Succeeded(q.id, q.doc[q.id].step)
    PROVE  MemorySeen
<1>1. req'[r] = q /\ \A s \in Requests \ {r} : req'[s] = req[s]
  BY DEF TypeInv, ReqOK
<1> SUFFICES ASSUME NEW s \in Requests, req'[s].pc \in DocLabels
             PROVE  Succeeded(req'[s].id, Rec(s)'.step)
  BY DEF MemorySeen
<1>2. CASE s = r
  BY <1>1, <1>2 DEF Rec
<1>3. CASE s # r
  BY <1>1, <1>3 DEF Rec, SeenInv
<1> QED BY <1>2, <1>3

(* A request that ends, starts, or moves on with the record it has. *)
LEMMA MemoryPlain ==
    ASSUME TypeInv, SeenInv, NEW r \in Requests,
           \/ Done(r)
           \/ \E label : Goto(r, label) /\ (label \in DocLabels => req[r].pc \in DocLabels)
           \/ \E q : q.pc \notin DocLabels /\ req' = [req EXCEPT ![r] = q]
    PROVE  MemorySeen
<1>1. CASE Done(r)
  <2> DEFINE q == [Idle EXCEPT !.pc = "done"]
  <2>1. q.pc \notin DocLabels /\ req' = [req EXCEPT ![r] = q]
    BY <1>1 DEF Done, Idle, DocLabels
  <2> HIDE DEF q
  <2> QED BY <2>1, MemoryFrame
<1>2. ASSUME NEW label, Goto(r, label), label \in DocLabels => req[r].pc \in DocLabels
      PROVE  MemorySeen
  <2> DEFINE q == [req[r] EXCEPT !.pc = label]
  <2>1. q.pc = label /\ q.id = req[r].id /\ q.doc = req[r].doc
        /\ req' = [req EXCEPT ![r] = q]
    BY <1>2 DEF Goto, TypeInv, ReqOK, RequestStates
  <2> HIDE DEF q
  <2>2. q.pc \in DocLabels => Succeeded(q.id, q.doc[q.id].step)
    BY <1>2, <2>1 DEF SeenInv, Rec
  <2> QED BY <2>1, <2>2, MemoryFrame
<1> QED BY <1>1, <1>2, MemoryFrame

(* A request that changes its record to one whose earlier steps succeeded. *)
LEMMA MemoryUpdate ==
    ASSUME TypeInv, SeenInv, NEW r \in Requests, req[r].pc \in DocLabels, NEW rec,
           NEW label, Update(r, rec, label),
           \/ rec.step = Rec(r).step
           \/ /\ rec.step = Rec(r).step + 1
              /\ Rec(r).step > ChainSteps \/ HasOk(req[r].id, Rec(r).step)
    PROVE  MemorySeen
<1> DEFINE q == [req[r] EXCEPT !.doc[req[r].id] = rec, !.pc = label]
<1>1. req' = [req EXCEPT ![r] = q] /\ Rec(r).step \in Nat /\ ChainSteps \in Nat
  <2>1. req' = [req EXCEPT ![r] = q]
    BY DEF Update, TypeInv, ReqOK
  <2>2. Rec(r) \in Issuances
    BY RecOK DEF TypeInv, StoreOK
  <2>3. Rec(r).step \in Nat /\ ChainSteps \in Nat
    BY <2>2, IssuanceAssumption DEF Issuances, NoticeStep
  <2> QED BY <2>1, <2>3
<1>2. q.id = req[r].id /\ q.doc[q.id] = rec
  BY RecOK DEF TypeInv, ReqOK, StoreOK, RequestStates
<1>3. Succeeded(req[r].id, Rec(r).step)
  BY DEF SeenInv
<1>4. Succeeded(req[r].id, rec.step)
  BY <1>1, <1>3 DEF Succeeded
<1> HIDE DEF q
<1> QED BY <1>1, <1>2, <1>4, MemoryFrame

(* A receipt moves a record on only when it is one of success. *)
LEMMA MemoryReceipt ==
    ASSUME TypeInv, SeenInv, NEW r \in Requests, req[r].pc \in DocLabels,
           Rec(r).step <= ChainSteps, NEW x \in receipts, x.tx = Rec(r).tx,
           Rec(r).tx # NoTx, Update(r, Confirmed(Rec(r), x.outcome), "save")
    PROVE  MemorySeen
<1>1. Rec(r) \in Issuances /\ Rec(r).present /\ WellFormed(Rec(r), req[r].id)
  BY RecOK DEF TypeInv, StoreOK
<1>2. x.outcome \in {"ok", "reverted", "eventless"}
  BY DEF TypeInv, ChainOK
<1>3. x.outcome = "ok" => HasOk(req[r].id, Rec(r).step)
  BY <1>1 DEF HasOk, WellFormed
<1>4. LET new == Confirmed(Rec(r), x.outcome)
      IN  \/ new.step = Rec(r).step
          \/ x.outcome = "ok" /\ new.step = Rec(r).step + 1
  BY <1>1, <1>2 DEF Confirmed, NextStep, Issuances
<1> QED BY <1>3, <1>4, MemoryUpdate

(* Every request's steps. *)
LEMMA MemoryStep ==
    ASSUME LeaseInv, SeenInv, [Next]_vars
    PROVE  MemorySeen
<1>1. TypeInv
  BY DEF LeaseInv
<1>2. ASSUME NEW r \in Requests,
             BeginWrite(r) \/ ReserveRead(r) \/ ReserveWrite(r) \/ PublishNotice(r)
               \/ ReviewWrite(r) \/ Persist(r) \/ AssertOwned(r) \/ Broadcast(r)
               \/ SaveProgress(r) \/ ResetWrite(r) \/ ResetFree(r) \/ TickClaim(r)
               \/ OtherEnds(r) \/ Throw(r)
      PROVE  MemorySeen
  <2>1. \/ Done(r)
        \/ \E label : Goto(r, label) /\ (label \in DocLabels => req[r].pc \in DocLabels)
    BY <1>2 DEF BeginWrite, ReserveRead, ReserveWrite, Reserved, PublishNotice,
       ReviewWrite, Persist, AssertOwned, Broadcast, SaveProgress, SaveRecords,
       ResetWrite, ResetFree, TickClaim, OtherEnds, Throw, At, DocLabels
  <2> QED BY <1>1, <2>1, MemoryPlain
<1>3. ASSUME NEW r \in Requests,
             \/ \E u \in Users : StartBegin(r, u) \/ StartReset(r, u)
             \/ \E u \in Users, id \in RecordIds : StartAdvance(r, u, id)
             \/ StartConsent(r) \/ TickLook(r) \/ Finish(r) \/ Die(r)
      PROVE  MemorySeen
  <2>1. ASSUME NEW job, NEW label \in {"beginRead", "advanceRead", "resetRead", "send"},
               NEW u, NEW id, Start(r, job, label, u, id)
        PROVE  MemorySeen
    <3> DEFINE q == [Idle EXCEPT !.pc = label, !.job = job, !.user = u, !.id = id]
    <3>1. q.pc \notin DocLabels /\ req' = [req EXCEPT ![r] = q]
      BY <2>1 DEF Start, Idle, DocLabels
    <3> HIDE DEF q
    <3> QED BY <1>1, <3>1, MemoryPlain
  <2>2. CASE TickLook(r)
    <3> DEFINE q == [Idle EXCEPT !.pc = "tickLease", !.job = "tick"]
    <3>1. q.pc \notin DocLabels /\ req' = [req EXCEPT ![r] = q]
      BY <2>2 DEF TickLook, Idle, DocLabels
    <3> HIDE DEF q
    <3> QED BY <1>1, <3>1, MemoryPlain
  <2>3. CASE Finish(r) \/ Die(r)
    <3>1. Idle.pc \notin DocLabels /\ req' = [req EXCEPT ![r] = Idle]
      BY <2>3 DEF Finish, Die, Idle, DocLabels
    <3> QED BY <1>1, <3>1, MemoryPlain
  <2> QED
    BY <1>3, <2>1, <2>2, <2>3 DEF StartBegin, StartReset, StartAdvance, StartConsent
<1>4. ASSUME NEW r \in Requests, BeginRead(r)
      PROVE  MemorySeen
  <2>1. CASE Done(r)
    BY <1>1, <2>1, MemoryPlain
  <2>2. ASSUME NEW t \in Terms, ComposeRecord(r, t)
        PROVE  MemorySeen
    <3> DEFINE new == NewRecord(req[r].user, t)
               q == [req[r] EXCEPT !.doc = [records EXCEPT ![begun + 1] = new],
                                   !.id = begun + 1, !.pc = "beginWrite"]
    <3>1. begun + 1 \in RecordIds
      BY <1>1, <2>2, IssuanceAssumption DEF ComposeRecord, TypeInv, StoreOK, RecordIds
    <3>2. req' = [req EXCEPT ![r] = q]
      BY <1>1, <2>2 DEF ComposeRecord, TypeInv, ReqOK
    <3>3. q.doc[q.id].step = 1
      BY <1>1, <3>1 DEF TypeInv, StoreOK, ReqOK, RequestStates, NewRecord, Absent
    <3>4. Succeeded(q.id, 1)
      BY DEF Succeeded
    <3> HIDE DEF q
    <3> QED BY <1>1, <3>2, <3>3, <3>4, MemoryFrame
  <2> QED BY <1>4, <2>1, <2>2 DEF BeginRead
<1>5. ASSUME NEW r \in Requests, AdvanceRead(r) \/ ResetRead(r)
      PROVE  MemorySeen
  <2>1. CASE Done(r)
    BY <1>1, <2>1, MemoryPlain
  <2>2. ASSUME NEW label, req' = [req EXCEPT ![r].doc = records, ![r].pc = label],
               label \in DocLabels => req[r].id \in RecordIds /\ records[req[r].id].present
        PROVE  MemorySeen
    <3> DEFINE q == [req[r] EXCEPT !.doc = records, !.pc = label]
    <3>1. q.pc = label /\ q.id = req[r].id /\ q.doc = records
          /\ req' = [req EXCEPT ![r] = q]
      BY <1>1, <2>2 DEF TypeInv, ReqOK, RequestStates
    <3> HIDE DEF q
    <3>2. q.pc \in DocLabels => Succeeded(q.id, q.doc[q.id].step)
      BY <2>2, <3>1 DEF SeenInv
    <3> QED BY <1>1, <3>1, <3>2, MemoryFrame
  <2>3. AdvanceRead(r) => req[r].id \in RecordIds
    BY <1>1 DEF AdvanceRead, At, TypeInv, ReqOK, LocalOK
  <2> QED BY <1>5, <2>1, <2>2, <2>3 DEF AdvanceRead, ResetRead, Active, DocLabels
<1>6. ASSUME NEW r \in Requests,
             \/ Verify(r) \/ FindNotice(r) \/ RecordNotice(r) \/ CheckReceipt(r)
             \/ ChooseAttempt(r) \/ Sign(r) \/ Poll(r) \/ Attempt(r)
      PROVE  MemorySeen
  <2>1. req[r].pc \in {"step", "record", "sign", "poll", "attempt"} /\ req[r].pc \in DocLabels
    BY <1>6 DEF Verify, FindNotice, RecordNotice, CheckReceipt, ChooseAttempt, Sign,
       Poll, Attempt, At, OnChainStep, DocLabels
  <2>2. Rec(r) \in Issuances /\ Rec(r).step \in Nat
    BY <1>1, <2>1, RecOK, IssuanceAssumption DEF TypeInv, StoreOK, Issuances, NoticeStep
  <2>3. CASE Done(r)
    BY <1>1, <2>3, MemoryPlain
  <2>4. ASSUME NEW label, Goto(r, label)
        PROVE  MemorySeen
    BY <1>1, <2>1, <2>4, MemoryPlain
  <2>5. CASE Verify(r)
    <3>1. [Rec(r) EXCEPT !.completed = TRUE].step = Rec(r).step
      BY <2>2 DEF Issuances
    <3> QED BY <1>1, <2>1, <2>3, <2>5, <3>1, MemoryUpdate DEF Verify
  <2>6. CASE FindNotice(r) \/ RecordNotice(r)
    <3>1. Rec(r).step = NoticeStep
      BY <1>1, <2>6 DEF FindNotice, RecordNotice, At, TypeInv, ReqOK, LocalOK, Rec
    <3>2. NextStep(Rec(r)).step = Rec(r).step + 1
      BY <2>2 DEF NextStep, Issuances
    <3>3. Rec(r).step > ChainSteps
      BY <3>1, IssuanceAssumption DEF NoticeStep
    <3> QED BY <1>1, <2>1, <2>4, <2>6, <3>2, <3>3, MemoryUpdate DEF FindNotice, RecordNotice
  <2>7. CASE CheckReceipt(r)
    BY <1>1, <2>1, <2>7, MemoryReceipt DEF CheckReceipt, OnChainStep
  <2>8. CASE ChooseAttempt(r)
    <3>1. [Rec(r) EXCEPT !.state = "review"].step = Rec(r).step
      BY <2>2 DEF Issuances
    <3> QED BY <1>1, <2>1, <2>4, <2>8, <3>1, MemoryUpdate DEF ChooseAttempt
  <2>9. CASE Sign(r)
    <3> DEFINE tx == [rec |-> req[r].id, step |-> Rec(r).step,
                      nonce |-> PendingNonce, by |-> r]
               new == [Rec(r) EXCEPT !.tx = tx, !.state = "pending"]
    <3>1. Update(r, new, "persist")
      BY <2>9 DEF Sign
    <3>2. new.step = Rec(r).step
      BY <2>2 DEF Issuances
    <3> HIDE DEF new
    <3> QED BY <1>1, <2>1, <3>1, <3>2, MemoryUpdate
  <2>10. CASE Poll(r)
    <3>1. Rec(r).step <= ChainSteps /\ Rec(r).tx # NoTx
      BY <1>1, <2>10 DEF Poll, At, TypeInv, ReqOK, LocalOK, Rec, ChainLabels, SentLabels
    <3> QED BY <1>1, <2>1, <2>4, <2>10, <3>1, MemoryReceipt DEF Poll
  <2>11. CASE Attempt(r)
    <3> DEFINE new == [Rec(r) EXCEPT !.attempts = Rec(r).attempts + 1]
               doc == [req[r].doc EXCEPT ![req[r].id] = new]
               q == [req[r] EXCEPT !.doc = doc, !.pc = "assertOwned"]
    <3>1. [req[r].doc EXCEPT ![req[r].id].attempts = Rec(r).attempts + 1] = doc
      BY DEF Rec
    <3>2. q.id = req[r].id /\ q.doc[q.id] = new
      BY <1>1, <2>1, RecOK DEF TypeInv, StoreOK, ReqOK, RequestStates
    <3>3. new.step = Rec(r).step
      BY <2>2 DEF Issuances
    <3> HIDE DEF doc, new
    <3>4. Done(r) \/ req' = [req EXCEPT ![r].doc = doc, ![r].pc = "assertOwned"]
      BY <2>11, <3>1 DEF Attempt
    <3>5. CASE req' = [req EXCEPT ![r].doc = doc, ![r].pc = "assertOwned"]
      <4>1. req' = [req EXCEPT ![r] = q]
        BY <1>1, <3>5 DEF TypeInv, ReqOK
      <4> HIDE DEF q
      <4>2. Succeeded(q.id, q.doc[q.id].step)
        BY <2>1, <3>2, <3>3 DEF SeenInv
      <4> QED BY <1>1, <4>1, <4>2, MemoryFrame
    <3> QED BY <2>3, <3>4, <3>5
  <2> QED BY <1>6, <2>5, <2>6, <2>7, <2>8, <2>9, <2>10, <2>11
<1>7. CASE UNCHANGED req
  BY <1>7 DEF MemorySeen, SeenInv, Rec
<1>8. (LeaseExpires \/ NetworkStep \/ \E r \in Requests : OtherSends(r)) => UNCHANGED req
  BY DEF LeaseExpires, NetworkStep, Mine, Lose, OtherSends
<1>9. CASE \E r \in Requests : HandlerStep(r)
  BY <1>2, <1>3, <1>4, <1>5, <1>6, <1>7, <1>8, <1>9
     DEF HandlerStep, IssuanceStep, ResetStep
<1>10. CASE \E r \in Requests :
              \/ StartConsent(r) \/ TickLook(r) \/ Throw(r) \/ Die(r)
              \/ \E u \in Users : StartBegin(r, u) \/ StartReset(r, u)
              \/ \E u \in Users, id \in RecordIds : StartAdvance(r, u, id)
  BY <1>2, <1>3, <1>10
<1> QED BY <1>7, <1>8, <1>9, <1>10 DEF Next, vars

---------------------------------------------------------------------------
(* What the store has *)

Writes(r) ==
    /\ lease = r
    /\ req'[r].pc # req[r].pc
    /\ \/ req[r].pc \in DocLabels /\ records' = req[r].doc
       \/ /\ req[r].pc \in DocLabels
          /\ \E n : records' = [req[r].doc EXCEPT ![req[r].id].attempts = n]
       \/ req[r].pc = "resetWrite" /\ records' = Kept(r)

(* Only the owner of the lease writes, what it has in memory, and goes on. *)
LEMMA WhoWrites ==
    ASSUME TypeInv, [Next]_vars
    PROVE  UNCHANGED records \/ \E r \in Requests : Writes(r)
<1>0. ASSUME NEW r \in Requests, NEW label, Goto(r, label) \/ (Done(r) /\ label = "done")
      PROVE  req'[r].pc = label
  BY <1>0 DEF Goto, Done, Idle, TypeInv, ReqOK, RequestStates
<1>1. ASSUME NEW r \in Requests, IssuanceStep(r)
      PROVE  UNCHANGED records \/ Writes(r)
  <2>1. CASE BeginWrite(r) \/ ReviewWrite(r) \/ Persist(r) \/ SaveProgress(r)
    <3>1. ASSUME records' # records PROVE lease = r /\ records' = req[r].doc
      BY <2>1, <3>1 DEF BeginWrite, ReviewWrite, Persist, SaveProgress, SaveRecords,
         HostedWriteRecords, HostedWriteAndReleaseOperator, MayFinish, Owned, storeVars
    <3>2. req[r].pc \in DocLabels /\ req'[r].pc # req[r].pc
      BY <1>0, <2>1 DEF BeginWrite, ReviewWrite, Persist, SaveProgress, SaveRecords,
         At, DocLabels
    <3> QED BY <3>1, <3>2 DEF Writes
  <2>2. CASE Attempt(r)
    <3>1. ASSUME records' # records
          PROVE  /\ lease = r
                 /\ records' = [req[r].doc EXCEPT ![req[r].id].attempts = Rec(r).attempts + 1]
      BY <2>2, <3>1 DEF Attempt, HostedWriteRecords, Owned, storeVars
    <3>2. req[r].pc \in DocLabels /\ req[r].pc = "attempt"
      BY <2>2 DEF Attempt, At, DocLabels
    <3>3. req'[r].pc \in {"assertOwned", "done"}
      BY <2>2 DEF Attempt, Done, Idle, TypeInv, ReqOK, RequestStates
    <3> QED BY <3>1, <3>2, <3>3 DEF Writes
  <2>3. CASE ReserveWrite(r)
    BY <2>3 DEF ReserveWrite, HostedWriteMarker, storeVars
  <2>4. CASE ~(BeginWrite(r) \/ ReviewWrite(r) \/ Persist(r) \/ SaveProgress(r)
                 \/ Attempt(r) \/ ReserveWrite(r))
    BY <1>1, <2>4 DEF IssuanceStep, BeginRead, ReserveRead, AdvanceRead, Verify,
       FindNotice, PublishNotice, RecordNotice, CheckReceipt, ChooseAttempt, Sign,
       AssertOwned, Broadcast, Poll, storeVars
  <2> QED BY <2>1, <2>2, <2>3, <2>4
<1>2. ASSUME NEW r \in Requests, HandlerStep(r)
      PROVE  UNCHANGED records \/ Writes(r)
  <2>1. CASE ResetStep(r)
    <3>1. ResetWrite(r) \/ records' = records
      BY <2>1 DEF ResetStep, ResetRead, ResetFree, HostedWriteMarker, storeVars
    <3>2. ASSUME ResetWrite(r) PROVE req'[r].pc # req[r].pc
      BY <1>0, <3>2 DEF ResetWrite, At
    <3> QED
      BY <3>1, <3>2 DEF ResetWrite, HostedWriteRecords, Owned, storeVars, Writes, At
  <2> QED
    BY <1>1, <1>2, <2>1 DEF HandlerStep, Finish, TickClaim, OtherSends, OtherEnds,
       storeVars
<1>3. CASE Next /\ ~\E r \in Requests : HandlerStep(r)
  BY <1>3 DEF Next, StartBegin, StartReset, StartAdvance, StartConsent, Start, TickLook,
     Throw, Die, LeaseExpires, Expire, NetworkStep, Mine, Lose, storeVars
<1> QED BY <1>2, <1>3 DEF vars, storeVars

(* A write stores a document of which every record was in the store or is  *)
(* the writer's own.                                                       *)
LEMMA StoreStep ==
    ASSUME LeaseInv, SeenInv, [Next]_vars, NEW id \in RecordIds, records'[id].present
    PROVE  Succeeded(id, records'[id].step)
<1>1. TypeInv
  BY DEF LeaseInv
<1>2. CASE records' = records
  BY <1>2 DEF SeenInv
<1>3. ASSUME NEW r \in Requests, req[r].pc \in DocLabels, lease = r,
             records' = req[r].doc
      PROVE  Succeeded(id, records'[id].step)
  <2>1. CASE id = req[r].id
    BY <1>3, <2>1 DEF SeenInv, Rec
  <2>2. CASE id # req[r].id
    <3>1. records'[id] = records[id]
      BY <1>3, <2>2 DEF LeaseInv, OwnerInv, Owned, OwnerOK
    <3> QED BY <3>1 DEF SeenInv
  <2> QED BY <2>1, <2>2
<1>4. ASSUME NEW r \in Requests, req[r].pc \in DocLabels, lease = r, NEW n,
             records' = [req[r].doc EXCEPT ![req[r].id].attempts = n]
      PROVE  Succeeded(id, records'[id].step)
  <2>1. req[r].doc \in [RecordIds -> Issuances]
    BY <1>1, <1>4, RecOK DEF TypeInv, StoreOK
  <2>2. CASE id = req[r].id
    <3>1. records'[id].step = Rec(r).step
      BY <1>4, <2>1, <2>2 DEF Rec, Issuances
    <3> QED BY <1>4, <2>2, <3>1 DEF SeenInv
  <2>3. CASE id # req[r].id
    <3>1. records'[id] = records[id]
      BY <1>4, <2>1, <2>3 DEF LeaseInv, OwnerInv, Owned, OwnerOK
    <3> QED BY <3>1 DEF SeenInv
  <2> QED BY <2>2, <2>3
<1>5. ASSUME NEW r \in Requests, req[r].pc = "resetWrite", lease = r, records' = Kept(r)
      PROVE  Succeeded(id, records'[id].step)
  <2>1. req[r].doc = records
    BY <1>5 DEF LeaseInv, OwnerInv, Owned, OwnerOK
  <2>2. records'[id] = records[id]
    BY <1>5, <2>1 DEF Kept, Absent
  <2> QED BY <2>2 DEF SeenInv
<1> QED BY <1>1, <1>2, <1>3, <1>4, <1>5, WhoWrites DEF Writes

(* The inductive invariant. *)
LEMMA ChainInvariant == Spec => [](LeaseInv /\ DecidedInv /\ SeenInv)
<1>1. Init => DecidedInv /\ SeenInv
  BY DEF Init, DecidedInv, SeenInv, NoDoc, Absent, Idle, DocLabels
<1>2. LeaseInv /\ DecidedInv /\ SeenInv /\ [Next]_vars
         => (LeaseInv /\ DecidedInv /\ SeenInv)'
  <2> SUFFICES ASSUME LeaseInv, DecidedInv, SeenInv, [Next]_vars
               PROVE  LeaseInv' /\ DecidedInv' /\ SeenInv'
    OBVIOUS
  <2>1. LeaseInv' /\ DecidedInv'
    BY EveryStep, DecidedStep DEF LeaseStep, LeaseInv
  <2>2. \A id, n : Succeeded(id, n) => Succeeded(id, n)'
    BY ReceiptsGrow DEF Succeeded, HasOk
  <2>3. \A id \in RecordIds : records'[id].present => Succeeded(id, records'[id].step)
    BY StoreStep
  <2>4. MemorySeen
    BY MemoryStep
  <2> HIDE DEF Succeeded
  <2> QED BY <2>1, <2>2, <2>3, <2>4 DEF SeenInv, MemorySeen, Rec
<1> QED BY <1>1, <1>2, InitLease, PTL DEF Spec

(* A step that succeeded ran once. *)
LEMMA RunOnce ==
    ASSUME LeaseInv, DecidedInv, NEW id, NEW s, HasOk(id, s)
    PROVE  Cardinality(Executed(id, s)) = 1
<1>1. PICK x \in receipts : x.tx.rec = id /\ x.tx.step = s /\ x.outcome = "ok"
  BY DEF HasOk
<1>2. \A y \in receipts : y.tx.rec = id /\ y.tx.step = s => y = x
  BY <1>1 DEF DecidedInv, LeaseInv, IssuedInv, Issued
<1>3. Executed(id, s) = {x}
  BY <1>1, <1>2 DEF Executed
<1> QED BY <1>3, FS_Singleton

(* A step the store calls confirmed was executed, and executed once; so    *)
(* the supply is the principal when every step is confirmed                *)
(* (issuance.ts, confirmReceipt and verifyPrincipal).                      *)
THEOREM ExecutedOnce == Spec => []ConfirmedMeansExecutedOnce
<1>1. LeaseInv /\ DecidedInv /\ SeenInv => ConfirmedMeansExecutedOnce
  <2> SUFFICES ASSUME LeaseInv, DecidedInv, SeenInv, NEW id \in Present(records),
                      NEW s \in 1..ChainSteps, s < records[id].step
               PROVE  Cardinality(Executed(id, s)) = 1
    BY DEF ConfirmedMeansExecutedOnce
  <2> QED BY RunOnce DEF SeenInv, Succeeded, Present
<1> QED BY <1>1, ChainInvariant, PTL

---------------------------------------------------------------------------
(***************************************************************************)
(* 4. What a step does to the record a request has in memory               *)
(***************************************************************************)

Moved(r, label, rec) ==
    req'[r].pc = label /\ req'[r].id = req[r].id /\ Rec(r)' = rec

(* A request that has its record already. *)
Progresses(r) ==
    \/ \E label \in DocLabels \ {"beginWrite", "persist", "publish", "record"} :
          Moved(r, label, Rec(r))
    \/ PublishNotice(r) /\ Moved(r, "record", Rec(r))
    \/ FindNotice(r) /\ Moved(r, "publish", Rec(r))
    \/ (FindNotice(r) \/ RecordNotice(r)) /\ Moved(r, "save", NextStep(Rec(r)))
    \/ Verify(r) /\ Moved(r, "save", [Rec(r) EXCEPT !.completed = TRUE])
    \/ /\ Rec(r).tx # NoTx /\ Rec(r).step <= ChainSteps
       /\ \E x \in receipts : x.tx = Rec(r).tx /\ Moved(r, "save", Confirmed(Rec(r), x.outcome))
    \/ Moved(r, "reviewWrite", [Rec(r) EXCEPT !.state = "review"])
    \/ Sign(r) /\ Moved(r, "persist",
                        [Rec(r) EXCEPT
                           !.tx = [rec |-> req[r].id, step |-> Rec(r).step,
                                   nonce |-> PendingNonce, by |-> r],
                           !.state = "pending"])
    \/ Moved(r, "assertOwned", [Rec(r) EXCEPT !.attempts = Rec(r).attempts + 1])
Composes(r) ==
    /\ BeginRead(r) /\ req'[r].pc = "beginWrite" /\ req'[r].id = begun + 1
    /\ begun' = begun + 1
    /\ \E t \in Terms : /\ ~SymbolTaken(records, t.symbol)
                        /\ Rec(r)' = NewRecord(req[r].user, t)
Reads(r) ==
    /\ AdvanceRead(r) /\ req[r].id \in RecordIds /\ Active(records[req[r].id])
    /\ Moved(r, "reserveRead", records[req[r].id])

LEMMA GotoMoves ==
    ASSUME TypeInv, NEW r \in Requests, NEW label, Goto(r, label)
    PROVE  Moved(r, label, Rec(r))
BY DEF Goto, Moved, Rec, TypeInv, ReqOK, RequestStates

LEMMA UpdateMoves ==
    ASSUME TypeInv, NEW r \in Requests, req[r].pc \in DocLabels, NEW rec, NEW label,
           Update(r, rec, label)
    PROVE  Moved(r, label, rec)
<1> DEFINE q == [req[r] EXCEPT !.doc[req[r].id] = rec, !.pc = label]
<1>1. req'[r] = q
  BY DEF Update, TypeInv, ReqOK
<1>2. q.pc = label /\ q.id = req[r].id /\ q.doc[q.id] = rec
  BY RecOK DEF TypeInv, ReqOK, StoreOK, RequestStates
<1> QED BY <1>1, <1>2 DEF Moved, Rec

(* Handlers of an issuance. *)
LEMMA IssuanceMoves ==
    ASSUME TypeInv, NEW r \in Requests, IssuanceStep(r), req'[r].pc \in DocLabels
    PROVE  \/ Composes(r) \/ Reads(r)
           \/ req[r].pc \in DocLabels /\ Progresses(r)
<1>0. ~Done(r)
  BY DEF Done, TypeInv, ReqOK, Idle, DocLabels
<1>1. ASSUME \/ BeginWrite(r) \/ ReserveRead(r) \/ ReserveWrite(r) \/ ReviewWrite(r)
             \/ Persist(r) \/ AssertOwned(r) \/ Broadcast(r)
      PROVE  req[r].pc \in DocLabels /\ Progresses(r)
  <2>1. PICK label \in {"reserveRead", "step", "reserveWrite", "done", "attempt", "broadcast",
                        "poll"} : Goto(r, label)
    BY <1>0, <1>1 DEF BeginWrite, ReserveRead, ReserveWrite, Reserved, ReviewWrite, Persist,
       AssertOwned, Broadcast, SaveRecords
  <2>2. Moved(r, label, Rec(r)) /\ req[r].pc \in DocLabels
    BY <1>1, <2>1, GotoMoves DEF BeginWrite, ReserveRead, ReserveWrite, ReviewWrite, Persist,
       AssertOwned, Broadcast, At, DocLabels
  <2>3. label \in DocLabels \ {"beginWrite", "persist", "publish", "record"}
    BY <2>1, <2>2 DEF Moved, DocLabels
  <2> QED BY <2>2, <2>3 DEF Progresses
<1>2. ASSUME BeginRead(r) PROVE Composes(r)
  <2>1. PICK t \in Terms : ComposeRecord(r, t)
    BY <1>0, <1>2 DEF BeginRead
  <2> DEFINE new == NewRecord(req[r].user, t)
             q == [req[r] EXCEPT !.doc = [records EXCEPT ![begun + 1] = new],
                                 !.id = begun + 1, !.pc = "beginWrite"]
  <2>2. begun + 1 \in RecordIds /\ begun' = begun + 1 /\ ~SymbolTaken(records, t.symbol)
    BY <2>1, IssuanceAssumption DEF ComposeRecord, TypeInv, StoreOK, RecordIds
  <2>3. req'[r] = q
    BY <2>1 DEF ComposeRecord, TypeInv, ReqOK
  <2>4. q.pc = "beginWrite" /\ q.id = begun + 1 /\ q.doc[q.id] = new
    BY <2>2 DEF TypeInv, StoreOK, ReqOK, RequestStates
  <2> QED BY <1>2, <2>2, <2>3, <2>4 DEF Composes, Rec
<1>3. ASSUME AdvanceRead(r) PROVE Reads(r)
  <2>1. /\ req' = [req EXCEPT ![r].doc = records, ![r].pc = "reserveRead"]
        /\ Active(records[req[r].id]) /\ req[r].id \in RecordIds
    BY <1>0, <1>3 DEF AdvanceRead, At, TypeInv, ReqOK, LocalOK
  <2>2. Moved(r, "reserveRead", records[req[r].id])
    BY <2>1 DEF Moved, Rec, TypeInv, ReqOK, RequestStates
  <2> QED BY <1>3, <2>1, <2>2 DEF Reads
<1>4. ASSUME FindNotice(r) \/ RecordNotice(r) \/ PublishNotice(r)
      PROVE  req[r].pc \in DocLabels /\ Progresses(r)
  <2>1. req[r].pc \in DocLabels
    BY <1>4 DEF FindNotice, RecordNotice, PublishNotice, At, DocLabels
  <2>2. CASE PublishNotice(r)
    BY <2>1, <2>2, GotoMoves DEF PublishNotice, Progresses
  <2>3. CASE FindNotice(r)
    BY <2>1, <2>3, GotoMoves, UpdateMoves DEF FindNotice, Progresses
  <2>4. CASE RecordNotice(r)
    BY <2>1, <2>4, UpdateMoves DEF RecordNotice, Progresses
  <2> QED BY <1>4, <2>1, <2>2, <2>3, <2>4
<1>5. ASSUME Verify(r) PROVE req[r].pc \in DocLabels /\ Progresses(r)
  <2>1. req[r].pc \in DocLabels /\ Update(r, [Rec(r) EXCEPT !.completed = TRUE], "save")
    BY <1>0, <1>5 DEF Verify, At, DocLabels
  <2> QED BY <1>5, <2>1, UpdateMoves DEF Progresses
<1>6. ASSUME CheckReceipt(r) \/ Poll(r) PROVE req[r].pc \in DocLabels /\ Progresses(r)
  <2>1. req[r].pc \in DocLabels
    BY <1>6 DEF CheckReceipt, Poll, OnChainStep, At, DocLabels
  <2>2. Rec(r).tx # NoTx /\ Rec(r).step <= ChainSteps
    BY <1>6 DEF CheckReceipt, Poll, OnChainStep, At, TypeInv, ReqOK, LocalOK, Rec,
       ChainLabels, SentLabels
  <2>3. ASSUME NEW x \in receipts, x.tx = Rec(r).tx, Update(r, Confirmed(Rec(r), x.outcome), "save")
        PROVE  Progresses(r)
    <3>1. Moved(r, "save", Confirmed(Rec(r), x.outcome))
      BY <2>1, <2>3, UpdateMoves
    <3> QED BY <2>2, <2>3, <3>1 DEF Progresses
  <2>4. ASSUME Goto(r, "save") PROVE Progresses(r)
    BY <2>4, GotoMoves DEF Progresses, DocLabels
  <2> QED BY <1>6, <2>1, <2>3, <2>4 DEF CheckReceipt, Poll
<1>7. ASSUME ChooseAttempt(r) PROVE req[r].pc \in DocLabels /\ Progresses(r)
  <2>1. req[r].pc \in DocLabels
    BY <1>7 DEF ChooseAttempt, OnChainStep, At, DocLabels
  <2>2. \/ Update(r, [Rec(r) EXCEPT !.state = "review"], "reviewWrite")
        \/ Goto(r, "sign") \/ Goto(r, "attempt")
    BY <1>7 DEF ChooseAttempt
  <2>3. ASSUME NEW label \in {"sign", "attempt"}, Goto(r, label) PROVE Progresses(r)
    BY <2>3, GotoMoves DEF Progresses, DocLabels
  <2>4. ASSUME Update(r, [Rec(r) EXCEPT !.state = "review"], "reviewWrite") PROVE Progresses(r)
    BY <2>1, <2>4, UpdateMoves DEF Progresses
  <2> QED BY <2>1, <2>2, <2>3, <2>4
<1>8. ASSUME Sign(r) PROVE req[r].pc \in DocLabels /\ Progresses(r)
  <2> DEFINE tx == [rec |-> req[r].id, step |-> Rec(r).step,
                    nonce |-> PendingNonce, by |-> r]
             new == [Rec(r) EXCEPT !.tx = tx, !.state = "pending"]
  <2>1. req[r].pc \in DocLabels /\ Update(r, new, "persist")
    BY <1>8 DEF Sign, At, DocLabels
  <2>2. Moved(r, "persist", new)
    <3> HIDE DEF new
    <3> QED BY <2>1, UpdateMoves
  <2> QED BY <1>8, <2>1, <2>2 DEF Progresses
<1>9. ASSUME Attempt(r) PROVE req[r].pc \in DocLabels /\ Progresses(r)
  <2> DEFINE new == [Rec(r) EXCEPT !.attempts = Rec(r).attempts + 1]
             doc == [req[r].doc EXCEPT ![req[r].id] = new]
             q == [req[r] EXCEPT !.doc = doc, !.pc = "assertOwned"]
  <2>1. req[r].pc \in DocLabels
    BY <1>9 DEF Attempt, At, DocLabels
  <2>2. [req[r].doc EXCEPT ![req[r].id].attempts = Rec(r).attempts + 1] = doc
    BY DEF Rec
  <2>3. q.pc = "assertOwned" /\ q.id = req[r].id /\ q.doc[q.id] = new
    BY <2>1, RecOK DEF TypeInv, StoreOK, ReqOK, RequestStates
  <2> HIDE DEF doc, new
  <2>4. req' = [req EXCEPT ![r].doc = doc, ![r].pc = "assertOwned"]
    BY <1>0, <1>9, <2>2 DEF Attempt
  <2>5. req'[r] = q
    BY <2>4 DEF TypeInv, ReqOK
  <2>6. Moved(r, "assertOwned", new)
    BY <2>3, <2>5 DEF Moved, Rec
  <2> QED BY <2>1, <2>6 DEF Progresses, new
<1>10. ASSUME SaveProgress(r) PROVE FALSE
  BY <1>0, <1>10 DEF SaveProgress
<1> QED BY <1>1, <1>2, <1>3, <1>4, <1>5, <1>6, <1>7, <1>8, <1>9, <1>10 DEF IssuanceStep

(* Whoever has a record in memory after a step has not moved, or its own   *)
(* handler has.                                                            *)
LEMMA WhoMoves ==
    ASSUME TypeInv, [Next]_vars, NEW r \in Requests, req'[r].pc \in DocLabels
    PROVE  req'[r] = req[r] \/ IssuanceStep(r)
<1> DEFINE Only(s) == \E q : req' = [req EXCEPT ![s] = q]
           Ends(s) == Only(s) /\ req'[s].pc \notin DocLabels
<1>1. req \in [Requests -> RequestStates]
  BY DEF TypeInv, ReqOK
<1>2. ASSUME NEW s \in Requests, Only(s), s # r PROVE req'[r] = req[r]
  BY <1>1, <1>2
<1>3. ASSUME NEW s \in Requests, IssuanceStep(s) PROVE Only(s)
  <2>1. ASSUME NEW label, Goto(s, label) PROVE Only(s)
    BY <1>1, <2>1 DEF Goto
  <2>2. ASSUME Done(s) PROVE Only(s)
    BY <2>2 DEF Done
  <2>3. ASSUME NEW rec, NEW label, Update(s, rec, label) PROVE Only(s)
    BY <1>1, <2>3 DEF Update
  <2>4. ASSUME NEW doc, NEW label, req' = [req EXCEPT ![s].doc = doc, ![s].pc = label]
        PROVE  Only(s)
    BY <1>1, <2>4
  <2>5. ASSUME NEW t, ComposeRecord(s, t) PROVE Only(s)
    BY <1>1, <2>5 DEF ComposeRecord
  <2> HIDE DEF Only
  <2>6. CASE \/ BeginWrite(s) \/ ReserveRead(s) \/ ReserveWrite(s) \/ ReviewWrite(s)
             \/ Persist(s) \/ AssertOwned(s) \/ Broadcast(s) \/ SaveProgress(s)
             \/ PublishNotice(s)
    BY <2>1, <2>2, <2>6 DEF BeginWrite, ReserveRead, ReserveWrite, Reserved, ReviewWrite,
       Persist, AssertOwned, Broadcast, SaveRecords, SaveProgress, PublishNotice
  <2>7. CASE BeginRead(s) \/ AdvanceRead(s)
    BY <2>2, <2>4, <2>5, <2>7 DEF BeginRead, AdvanceRead
  <2>8. CASE \/ Verify(s) \/ FindNotice(s) \/ RecordNotice(s) \/ CheckReceipt(s)
             \/ ChooseAttempt(s) \/ Poll(s)
    BY <2>1, <2>2, <2>3, <2>8 DEF Verify, FindNotice, RecordNotice, CheckReceipt,
       ChooseAttempt, Poll
  <2>9. CASE Sign(s)
    <3> DEFINE new == [Rec(s) EXCEPT !.tx = [rec |-> req[s].id, step |-> Rec(s).step,
                                             nonce |-> PendingNonce, by |-> s],
                                     !.state = "pending"]
    <3>1. Update(s, new, "persist")
      BY <2>9 DEF Sign
    <3> HIDE DEF new
    <3> QED BY <2>3, <3>1
  <2>10. CASE Attempt(s)
    BY <2>2, <2>4, <2>10 DEF Attempt
  <2> QED BY <1>3, <2>6, <2>7, <2>8, <2>9, <2>10 DEF IssuanceStep
<1>4. ASSUME NEW s \in Requests, HandlerStep(s), ~IssuanceStep(s), ~OtherSends(s)
      PROVE  Ends(s)
  <2>1. ASSUME NEW label, Goto(s, label), label \notin DocLabels PROVE Ends(s)
    <3> DEFINE q == [req[s] EXCEPT !.pc = label]
    <3>1. req' = [req EXCEPT ![s] = q]
      BY <1>1, <2>1 DEF Goto
    <3>2. q.pc = label
      BY <1>1 DEF RequestStates
    <3> HIDE DEF q
    <3> QED BY <1>1, <2>1, <3>1, <3>2
  <2>2. ASSUME Done(s) PROVE Ends(s)
    BY <1>1, <2>2 DEF Done, Idle, DocLabels
  <2>3. ASSUME NEW doc, NEW label, req' = [req EXCEPT ![s].doc = doc, ![s].pc = label],
               label \notin DocLabels
        PROVE  Ends(s)
    <3> DEFINE q == [req[s] EXCEPT !.doc = doc, !.pc = label]
    <3>1. req' = [req EXCEPT ![s] = q]
      BY <1>1, <2>3
    <3>2. q.pc = label
      BY <1>1 DEF RequestStates
    <3> HIDE DEF q
    <3> QED BY <1>1, <2>3, <3>1, <3>2
  <2>4. ASSUME Finish(s) PROVE Ends(s)
    BY <1>1, <2>4 DEF Finish, Idle, DocLabels
  <2>5. "resetWrite" \notin DocLabels /\ "resetFree" \notin DocLabels /\ "send" \notin DocLabels
    BY DEF DocLabels
  <2> HIDE DEF Ends
  <2>6. CASE ResetStep(s)
    BY <2>1, <2>2, <2>3, <2>5, <2>6 DEF ResetStep, ResetRead, ResetWrite, ResetFree
  <2>7. CASE TickClaim(s) \/ OtherEnds(s)
    BY <2>1, <2>2, <2>5, <2>7 DEF TickClaim, OtherEnds
  <2> QED BY <1>4, <2>4, <2>6, <2>7 DEF HandlerStep
<1>5. ASSUME NEW s \in Requests,
             \/ StartConsent(s) \/ TickLook(s) \/ Throw(s) \/ Die(s)
             \/ \E u \in Users : StartBegin(s, u) \/ StartReset(s, u)
             \/ \E u \in Users, id \in RecordIds : StartAdvance(s, u, id)
      PROVE  Ends(s)
  <2>1. ASSUME NEW job, NEW label \in {"beginRead", "advanceRead", "resetRead", "send"},
               NEW u, NEW id, Start(s, job, label, u, id)
        PROVE  Ends(s)
    <3> DEFINE q == [Idle EXCEPT !.pc = label, !.job = job, !.user = u, !.id = id]
    <3>1. req' = [req EXCEPT ![s] = q]
      BY <2>1 DEF Start
    <3>2. q.pc = label /\ label \notin DocLabels
      BY <2>1 DEF Idle, DocLabels
    <3> HIDE DEF q
    <3> QED BY <1>1, <3>1, <3>2
  <2>2. ASSUME TickLook(s) \/ Throw(s) \/ Die(s) PROVE Ends(s)
    <3>1. PICK q \in {Idle, [Idle EXCEPT !.pc = "done"],
                      [Idle EXCEPT !.pc = "tickLease", !.job = "tick"]} :
              req' = [req EXCEPT ![s] = q]
      BY <2>2 DEF TickLook, Throw, Die, Done
    <3>2. /\ Idle.pc \notin DocLabels
          /\ [Idle EXCEPT !.pc = "done"].pc \notin DocLabels
          /\ [Idle EXCEPT !.pc = "tickLease", !.job = "tick"].pc \notin DocLabels
      BY DEF Idle, DocLabels
    <3>3. q.pc \notin DocLabels
      BY <3>1, <3>2
    <3> QED BY <1>1, <3>1, <3>3
  <2> HIDE DEF Ends
  <2>3. ASSUME NEW u, StartBegin(s, u) PROVE Ends(s)
    BY <2>1, <2>3 DEF StartBegin
  <2>4. ASSUME NEW u, StartReset(s, u) PROVE Ends(s)
    BY <2>1, <2>4 DEF StartReset
  <2>5. ASSUME NEW u, NEW id, StartAdvance(s, u, id) PROVE Ends(s)
    BY <2>1, <2>5 DEF StartAdvance
  <2>6. StartConsent(s) => Ends(s)
    BY <2>1 DEF StartConsent
  <2> QED BY <1>5, <2>2, <2>3, <2>4, <2>5, <2>6
<1>6. ASSUME NEW s \in Requests, Ends(s) PROVE req'[r] = req[r]
  BY <1>1, <1>6
<1>7. (LeaseExpires \/ NetworkStep \/ \E s \in Requests : OtherSends(s)) => UNCHANGED req
  BY DEF LeaseExpires, NetworkStep, Mine, Lose, OtherSends
<1>8. CASE UNCHANGED req
  BY <1>8
<1>9. ASSUME NEW s \in Requests, HandlerStep(s), s # r PROVE req'[r] = req[r]
  BY <1>2, <1>3, <1>4, <1>6, <1>7, <1>9
<1>10. ASSUME HandlerStep(r) PROVE IssuanceStep(r) \/ req'[r] = req[r]
  BY <1>4, <1>6, <1>7, <1>10
<1>11. \/ UNCHANGED req \/ \E s \in Requests : HandlerStep(s)
       \/ \E s \in Requests : Ends(s)
  BY <1>5, <1>7 DEF Next, vars
<1> HIDE DEF Only, Ends
<1> QED BY <1>6, <1>8, <1>9, <1>10, <1>11

(* So it has made one of the moves above.                                  *)
LEMMA MemoryMoves ==
    ASSUME TypeInv, [Next]_vars, NEW r \in Requests, req'[r].pc \in DocLabels
    PROVE  \/ req'[r] = req[r]
           \/ Composes(r) \/ Reads(r)
           \/ req[r].pc \in DocLabels /\ Progresses(r)
BY WhoMoves, IssuanceMoves

(* A request goes on after its first write only if it wrote, and not at    *)
(* all after its last.                                                     *)
LEMMA SavedFirst ==
    ASSUME TypeInv, [Next]_vars, NEW r \in Requests, req'[r].pc \in DocLabels,
           req'[r] # req[r]
    PROVE  /\ req[r].pc # "save"
           /\ req[r].pc = "beginWrite" => records'[req[r].id] = Rec(r)
<1>1. IssuanceStep(r) /\ ~Done(r)
  BY WhoMoves DEF Done, TypeInv, ReqOK, Idle, DocLabels
<1>2. req[r].pc # "save"
  BY <1>1 DEF IssuanceStep, BeginRead, BeginWrite, ReserveRead, ReserveWrite, AdvanceRead,
     Verify, FindNotice, PublishNotice, RecordNotice, CheckReceipt, ChooseAttempt,
     ReviewWrite, Sign, Persist, Attempt, AssertOwned, Broadcast, Poll, SaveProgress,
     OnChainStep, At
<1>3. ASSUME req[r].pc = "beginWrite" PROVE records'[req[r].id] = Rec(r)
  <2>1. BeginWrite(r)
    BY <1>1, <1>3 DEF IssuanceStep, BeginRead, BeginWrite, ReserveRead, ReserveWrite,
       AdvanceRead, Verify, FindNotice, PublishNotice, RecordNotice, CheckReceipt,
       ChooseAttempt, ReviewWrite, Sign, Persist, Attempt, AssertOwned, Broadcast, Poll,
       SaveProgress, OnChainStep, At
  <2> QED BY <1>1, <2>1 DEF BeginWrite, SaveRecords, HostedWriteRecords, Rec
<1> QED BY <1>2, <1>3

---------------------------------------------------------------------------
(***************************************************************************)
(* 5. Without resets                                                       *)
(*                                                                         *)
(* While nobody is listed in DESK_RESET_EMAILS no record is dropped.       *)
(***************************************************************************)

ResetLabels == {"resetRead", "resetWrite", "resetFree"}
NoReset == \A r \in Requests : req[r].pc \notin ResetLabels

PlainLabels == DocLabels \cup {"idle", "done", "beginRead", "advanceRead"}
Elsewhere(r) ==
    \/ ResetStep(r) \/ \E u \in Users : StartReset(r, u)
    \/ StartConsent(r) \/ TickLook(r) \/ TickClaim(r)

(* A request does what is not issuance only if it was started for that.    *)
LEMMA WhereTo ==
    ASSUME TypeInv, [Next]_vars, NEW r \in Requests
    PROVE  req'[r].pc = req[r].pc \/ req'[r].pc \in PlainLabels \/ Elsewhere(r)
<1>1. req \in [Requests -> RequestStates]
  BY DEF TypeInv, ReqOK
<1> DEFINE Stays == \E s \in Requests : \E q : req' = [req EXCEPT ![s] = q] /\ q.pc \in PlainLabels
           Goal == req'[r].pc = req[r].pc \/ req'[r].pc \in PlainLabels
<1>2. Stays => Goal
  BY <1>1
<1>3. ASSUME NEW s \in Requests, NEW label, Goto(s, label), label \in PlainLabels
      PROVE  Stays
  <2> DEFINE q == [req[s] EXCEPT !.pc = label]
  <2>1. req' = [req EXCEPT ![s] = q]
    BY <1>1, <1>3 DEF Goto
  <2>2. q.pc = label
    BY <1>1 DEF RequestStates
  <2> HIDE DEF q
  <2> QED BY <1>3, <2>1, <2>2
<1>4. Idle.pc \in PlainLabels /\ [Idle EXCEPT !.pc = "done"].pc \in PlainLabels
  BY DEF Idle, PlainLabels
<1>5. ASSUME NEW s \in Requests, Done(s) PROVE Stays
  BY <1>4, <1>5 DEF Done
<1>6. ASSUME NEW s \in Requests, NEW job, NEW label \in {"beginRead", "advanceRead"},
             NEW u, NEW id, Start(s, job, label, u, id)
      PROVE  Stays
  <2> DEFINE q == [Idle EXCEPT !.pc = label, !.job = job, !.user = u, !.id = id]
  <2>1. req' = [req EXCEPT ![s] = q]
    BY <1>6 DEF Start
  <2>2. q.pc = label
    BY DEF Idle
  <2>3. q.pc \in PlainLabels
    BY <1>6, <2>2 DEF PlainLabels
  <2> HIDE DEF q
  <2> QED BY <2>1, <2>3
<1>7. DocLabels \cup {"done"} \subseteq PlainLabels
  BY DEF PlainLabels
<1>8. ASSUME NEW s \in Requests, IssuanceStep(s) PROVE Goal
  <2>1. ASSUME NEW doc, NEW label, req' = [req EXCEPT ![s].doc = doc, ![s].pc = label]
        PROVE  \E q : req' = [req EXCEPT ![s] = q] /\ q.pc = label
    <3> DEFINE q == [req[s] EXCEPT !.doc = doc, !.pc = label]
    <3>1. req' = [req EXCEPT ![s] = q] /\ q.pc = label
      BY <1>1, <2>1 DEF RequestStates
    <3> HIDE DEF q
    <3> QED BY <3>1
  <2>2. ASSUME NEW rec, NEW label, Update(s, rec, label), label \in DocLabels PROVE Stays
    <3> DEFINE q == [req[s] EXCEPT !.doc[req[s].id] = rec, !.pc = label]
    <3>1. req' = [req EXCEPT ![s] = q] /\ q.pc = label
      BY <1>1, <2>2 DEF Update, RequestStates
    <3> HIDE DEF q
    <3> QED BY <1>7, <2>2, <3>1
  <2>3. ASSUME NEW t, ComposeRecord(s, t) PROVE Stays
    <3> DEFINE q == [req[s] EXCEPT
                       !.doc = [records EXCEPT ![begun + 1] = NewRecord(req[s].user, t)],
                       !.id = begun + 1, !.pc = "beginWrite"]
    <3>1. req' = [req EXCEPT ![s] = q] /\ q.pc = "beginWrite"
      BY <1>1, <2>3 DEF ComposeRecord, RequestStates
    <3> HIDE DEF q
    <3> QED BY <1>7, <3>1 DEF DocLabels
  <2> HIDE DEF Stays
  <2>4. CASE \/ BeginWrite(s) \/ ReserveRead(s) \/ ReserveWrite(s) \/ ReviewWrite(s)
             \/ Persist(s) \/ AssertOwned(s) \/ Broadcast(s) \/ SaveProgress(s)
             \/ PublishNotice(s)
    <3>1. Done(s) \/ \E label \in DocLabels \cup {"done"} : Goto(s, label)
      BY <2>4 DEF BeginWrite, ReserveRead, ReserveWrite, Reserved, ReviewWrite, Persist,
         AssertOwned, Broadcast, SaveRecords, SaveProgress, PublishNotice, DocLabels
    <3> QED BY <1>2, <1>3, <1>5, <1>7, <3>1
  <2>5. CASE BeginRead(s)
    BY <1>2, <1>5, <2>3, <2>5 DEF BeginRead
  <2>6. CASE \/ Verify(s) \/ FindNotice(s) \/ RecordNotice(s) \/ CheckReceipt(s)
             \/ ChooseAttempt(s) \/ Poll(s) \/ Sign(s)
    <3>1. \/ Done(s) \/ \E label \in DocLabels : Goto(s, label)
          \/ \E label \in DocLabels : \E rec : Update(s, rec, label)
      BY <2>6 DEF Verify, FindNotice, RecordNotice, CheckReceipt, ChooseAttempt, Poll, Sign,
         DocLabels
    <3> QED BY <1>2, <1>3, <1>5, <1>7, <2>2, <3>1
  <2>7. CASE Attempt(s) \/ AdvanceRead(s)
    <3>1. \/ Done(s)
          \/ \E label \in DocLabels : \E doc : req' = [req EXCEPT ![s].doc = doc, ![s].pc = label]
      BY <2>7 DEF Attempt, AdvanceRead, DocLabels
    <3>2. ASSUME NEW label \in DocLabels, NEW doc,
                 req' = [req EXCEPT ![s].doc = doc, ![s].pc = label]
          PROVE  Stays
      BY <1>7, <2>1, <3>2 DEF Stays
    <3> QED BY <1>2, <1>5, <3>1, <3>2
  <2> QED BY <1>8, <2>4, <2>5, <2>6, <2>7 DEF IssuanceStep
<1>9. ASSUME NEW s \in Requests, OtherEnds(s) \/ Finish(s) \/ Throw(s) \/ Die(s)
      PROVE  Goal
  <2>1. Done(s) \/ req' = [req EXCEPT ![s] = Idle]
    BY <1>9 DEF OtherEnds, Finish, Throw, Die
  <2>2. req' = [req EXCEPT ![s] = Idle] => Stays
    BY <1>4
  <2> HIDE DEF Stays
  <2> QED BY <1>2, <1>5, <2>1, <2>2
<1> HIDE DEF Stays
<1>10. ASSUME NEW s \in Requests,
              \/ \E u \in Users : StartBegin(s, u)
              \/ \E u \in Users, id \in RecordIds : StartAdvance(s, u, id)
       PROVE  Goal
  BY <1>2, <1>6, <1>10 DEF StartBegin, StartAdvance
<1>11. ASSUME NEW s \in Requests, Elsewhere(s) PROVE Goal \/ Elsewhere(r)
  <2>1. \E q : req' = [req EXCEPT ![s] = q]
    <3>1. ASSUME NEW label, Goto(s, label) PROVE \E q : req' = [req EXCEPT ![s] = q]
      BY <1>1, <3>1 DEF Goto
    <3>2. ASSUME NEW doc, NEW label, req' = [req EXCEPT ![s].doc = doc, ![s].pc = label]
          PROVE  \E q : req' = [req EXCEPT ![s] = q]
      BY <1>1, <3>2
    <3>3. \A u : StartReset(s, u) => \E q : req' = [req EXCEPT ![s] = q]
      BY DEF StartReset, Start
    <3>4. (StartConsent(s) \/ TickLook(s) \/ Done(s)) => \E q : req' = [req EXCEPT ![s] = q]
      BY DEF StartConsent, Start, TickLook, Done
    <3>5. (TickClaim(s) \/ ResetWrite(s)) => \E q : req' = [req EXCEPT ![s] = q]
      BY <3>1, <3>4 DEF TickClaim, ResetWrite
    <3>6. (ResetRead(s) \/ ResetFree(s)) => \E q : req' = [req EXCEPT ![s] = q]
      BY <3>2, <3>4 DEF ResetRead, ResetFree
    <3> QED BY <1>11, <3>3, <3>4, <3>5, <3>6 DEF Elsewhere, ResetStep
  <2>2. s # r => req'[r] = req[r]
    BY <1>1, <2>1
  <2> QED BY <1>11, <2>2
<1>12. CASE UNCHANGED req
  BY <1>12
<1>13. (LeaseExpires \/ NetworkStep \/ \E s \in Requests : OtherSends(s)) => UNCHANGED req
  BY DEF LeaseExpires, NetworkStep, Mine, Lose, OtherSends
<1> HIDE DEF Goal
<1>14. CASE \E s \in Requests : HandlerStep(s)
  BY <1>8, <1>9, <1>11, <1>12, <1>13, <1>14 DEF HandlerStep, Elsewhere, Goal
<1>15. CASE Next /\ ~\E s \in Requests : HandlerStep(s)
  BY <1>9, <1>10, <1>11, <1>12, <1>13, <1>15 DEF Next, Elsewhere, Goal
<1> QED BY <1>12, <1>14, <1>15 DEF vars, Goal

(* So nobody resets. *)
LEMMA StaysAway ==
    ASSUME Resetters = {}, TypeInv, NoReset, [Next]_vars
    PROVE  NoReset'
<1> SUFFICES ASSUME NEW r \in Requests, req'[r].pc \in ResetLabels PROVE FALSE
  BY DEF NoReset, ResetLabels
<1>1. req'[r].pc # req[r].pc /\ req'[r].pc \notin PlainLabels
  BY DEF NoReset, ResetLabels, PlainLabels, DocLabels
<1>2. ~ResetStep(r) /\ \A u : ~StartReset(r, u)
  BY DEF NoReset, ResetLabels, ResetStep, ResetRead, ResetWrite, ResetFree, At, StartReset
<1>3. req'[r].pc \in {"send", "tickLease", "done"}
  <2>1. StartConsent(r) \/ TickLook(r) \/ TickClaim(r)
    BY <1>1, <1>2, WhereTo DEF Elsewhere
  <2> QED BY <2>1 DEF StartConsent, Start, TickLook, TickClaim, Goto, Done, Idle, TypeInv,
         ReqOK, RequestStates
<1> QED BY <1>3 DEF ResetLabels

(* Whoever takes the lease has no record in memory yet. *)
LEMMA LeaseKept ==
    ASSUME TypeInv, [Next]_vars, NEW r \in Requests, req'[r].pc \in DocLabels, lease' = r
    PROVE  lease = r
<1>1. req \in [Requests -> RequestStates]
  BY DEF TypeInv, ReqOK
<1> DEFINE Taken == \E s \in Requests : lease' = s /\ req'[s].pc \notin DocLabels
           Keeps == lease' = lease \/ lease' = Nobody \/ Taken
<1>2. ASSUME NEW s \in Requests, NEW job,
             NEW label \in {"beginRead", "advanceRead", "resetRead", "send"},
             NEW u, NEW id, Start(s, job, label, u, id)
      PROVE  Taken
  <2> DEFINE q == [Idle EXCEPT !.pc = label, !.job = job, !.user = u, !.id = id]
  <2>1. req' = [req EXCEPT ![s] = q] /\ lease' = s
    BY <1>2 DEF Start, Claim
  <2>2. q.pc = label /\ label \notin DocLabels
    BY <1>2 DEF Idle, DocLabels
  <2> HIDE DEF q
  <2> QED BY <1>1, <2>1, <2>2
<1>3. ASSUME NEW s \in Requests, TickClaim(s) PROVE lease' = lease \/ Taken
  <2>1. CASE lease' = s /\ Goto(s, "send")
    <3>1. req'[s].pc = "send"
      BY <1>1, <2>1 DEF Goto, RequestStates
    <3> QED BY <2>1, <3>1 DEF DocLabels
  <2> QED BY <1>3, <2>1 DEF TickClaim, Claim
<1>4. ASSUME NEW s \in Requests, IssuanceStep(s) \/ ResetStep(s) PROVE lease' = lease
  <2>1. CASE BeginWrite(s) \/ ReserveWrite(s) \/ ReviewWrite(s) \/ Persist(s) \/ Attempt(s)
             \/ SaveProgress(s)
    BY <2>1 DEF BeginWrite, ReserveWrite, ReviewWrite, Persist, Attempt, SaveProgress,
       SaveRecords, HostedWriteRecords, HostedWriteMarker, HostedWriteAndReleaseOperator,
       storeVars
  <2>2. CASE ResetStep(s)
    BY <2>2 DEF ResetStep, ResetRead, ResetWrite, ResetFree, HostedWriteRecords,
       HostedWriteMarker, storeVars
  <2>3. CASE IssuanceStep(s) /\ ~(BeginWrite(s) \/ ReserveWrite(s) \/ ReviewWrite(s)
                                    \/ Persist(s) \/ Attempt(s) \/ SaveProgress(s))
    BY <2>3 DEF IssuanceStep, BeginRead, ReserveRead, AdvanceRead, Verify, FindNotice,
       PublishNotice, RecordNotice, CheckReceipt, ChooseAttempt, Sign, AssertOwned,
       Broadcast, Poll, storeVars
  <2> QED BY <1>4, <2>1, <2>2, <2>3
<1>5. ASSUME NEW s \in Requests,
             Finish(s) \/ OtherSends(s) \/ OtherEnds(s) \/ TickLook(s) \/ Throw(s) \/ Die(s)
      PROVE  lease' = lease \/ lease' = Nobody
  BY <1>5 DEF Finish, Release, OtherSends, OtherEnds, TickLook, Throw, Die, storeVars
<1>6. (LeaseExpires \/ NetworkStep) => lease' = lease \/ lease' = Nobody
  BY DEF LeaseExpires, Expire, NetworkStep, Mine, Lose, storeVars
<1> HIDE DEF Taken
<1>7. ASSUME NEW s \in Requests,
             \/ StartConsent(s) \/ \E u \in Users : StartBegin(s, u) \/ StartReset(s, u)
             \/ \E u \in Users, id \in RecordIds : StartAdvance(s, u, id)
      PROVE  Taken
  BY <1>2, <1>7 DEF StartConsent, StartBegin, StartReset, StartAdvance
<1>8. Keeps
  BY <1>3, <1>4, <1>5, <1>6, <1>7 DEF Next, HandlerStep, vars, storeVars
<1> QED BY <1>8, IssuanceAssumption DEF Taken

(* One record changes in a step: the writer's, to what it has in memory. *)
WritesOwn(r) ==
    /\ lease = r /\ req[r].pc \in DocLabels /\ req'[r].pc # req[r].pc
    /\ \A id \in RecordIds \ {req[r].id} : records'[id] = records[id]
    /\ \E n : records'[req[r].id] = [Rec(r) EXCEPT !.attempts = n]

LEMMA OwnRecordWritten ==
    ASSUME LeaseInv, NEW r \in Requests, Writes(r), req[r].pc \in DocLabels
    PROVE  WritesOwn(r)
<1>1. TypeInv
  BY DEF LeaseInv
<1>2. req[r].pc \in DocLabels /\ lease = r /\ req'[r].pc # req[r].pc
  BY DEF Writes
<1>3. \A id \in RecordIds \ {req[r].id} : req[r].doc[id] = records[id]
  BY <1>2 DEF LeaseInv, OwnerInv, OwnerOK, Owned
<1>4. Rec(r) \in Issuances /\ req[r].doc \in [RecordIds -> Issuances] /\ req[r].id \in RecordIds
  BY <1>1, <1>2, RecOK DEF TypeInv, StoreOK
<1>5. CASE records' = req[r].doc
  <2>1. Rec(r) = [Rec(r) EXCEPT !.attempts = Rec(r).attempts]
    BY <1>4 DEF Issuances
  <2>2. records'[req[r].id] = Rec(r)
    BY <1>5 DEF Rec
  <2>3. \A id \in RecordIds \ {req[r].id} : records'[id] = records[id]
    BY <1>3, <1>5
  <2> QED BY <1>2, <2>1, <2>2, <2>3 DEF WritesOwn
<1>6. ASSUME NEW n, records' = [req[r].doc EXCEPT ![req[r].id].attempts = n]
      PROVE  WritesOwn(r)
  <2>1. records'[req[r].id] = [Rec(r) EXCEPT !.attempts = n]
    BY <1>4, <1>6 DEF Rec
  <2>2. \A id \in RecordIds \ {req[r].id} : records'[id] = records[id]
    BY <1>3, <1>4, <1>6
  <2> QED BY <1>2, <2>1, <2>2 DEF WritesOwn
<1> QED BY <1>2, <1>5, <1>6 DEF Writes, DocLabels

LEMMA OneRecordWritten ==
    ASSUME LeaseInv, NoReset, [Next]_vars
    PROVE  UNCHANGED records \/ \E r \in Requests : WritesOwn(r)
<1>1. ASSUME NEW r \in Requests, Writes(r) PROVE WritesOwn(r)
  BY <1>1, OwnRecordWritten DEF Writes, NoReset, ResetLabels
<1> QED BY <1>1, WhoWrites DEF LeaseInv

(* A record stays in the store, and keeps its terms. *)
LEMMA PresentStays ==
    ASSUME LeaseInv, NoReset, [Next]_vars, NEW id \in RecordIds, records[id].present
    PROVE  /\ records'[id].present /\ records'[id].terms = records[id].terms
           /\ records'[id].step >= records[id].step
<1>1. TypeInv /\ TypeInv' /\ \A j \in RecordIds : Legal(j)
  BY EveryStep DEF LeaseStep, LeaseInv
<1>2. records'[id].present
  <2>1. CASE UNCHANGED records
    BY <2>1
  <2>2. ASSUME NEW r \in Requests, WritesOwn(r) PROVE records'[id].present
    <3>1. CASE id = req[r].id
      <4>1. Rec(r) \in Issuances /\ Rec(r).present
        BY <1>1, <2>2, RecOK DEF WritesOwn, TypeInv, StoreOK
      <4>2. PICK n : records'[id] = [Rec(r) EXCEPT !.attempts = n]
        BY <2>2, <3>1 DEF WritesOwn
      <4> QED BY <4>1, <4>2 DEF Issuances
    <3> QED BY <2>2, <3>1 DEF WritesOwn
  <2> QED BY <2>1, <2>2, OneRecordWritten
<1>3. records'[id].step >= records[id].step
  BY <1>1, <1>2, LegalKeepsProgress
<1>4. records[id] \in Issuances
  BY <1>1 DEF TypeInv, StoreOK
<1>5. Grown(records[id], records'[id]) => records'[id].terms = records[id].terms
  <2>1. Signs(records[id], records'[id]) => records'[id].terms = records[id].terms
    BY <1>4 DEF Signs, Issuances
  <2>2. ASSUME NEW n, records'[id] = [records[id] EXCEPT !.attempts = n]
        PROVE  records'[id].terms = records[id].terms
    BY <1>4, <2>2 DEF Issuances
  <2>3. ASSUME NEW s, records'[id] = [records[id] EXCEPT !.state = s]
        PROVE  records'[id].terms = records[id].terms
    BY <1>4, <2>3 DEF Issuances
  <2>4. records'[id] = [records[id] EXCEPT !.completed = TRUE]
           => records'[id].terms = records[id].terms
    BY <1>4 DEF Issuances
  <2>5. records'[id] = NextStep(records[id]) => records'[id].terms = records[id].terms
    BY <1>4 DEF NextStep, Issuances
  <2> QED BY <2>1, <2>2, <2>3, <2>4, <2>5 DEF Grown, Change
<1>6. CASE records'[id] = records[id]
  BY <1>2, <1>3, <1>6
<1>7. records'[id] # Absent /\ ~Born(id)
  BY <1>2 DEF Absent, Born
<1> QED BY <1>1, <1>2, <1>3, <1>5, <1>6, <1>7 DEF Legal

---------------------------------------------------------------------------
(***************************************************************************)
(* 6. The rate of the notice                                               *)
(*                                                                         *)
(* The notices are not under the lease, and findNotice looks for the       *)
(* symbol alone: what it finds is the notice of this record because no two *)
(* records that are active or completed have one symbol (OneTaker), and a  *)
(* record whose notice is out never fails (Noticed).  A reset breaks both. *)
(***************************************************************************)

Takes(rec) == rec.present /\ (rec.completed \/ Active(rec))
OneTaker ==
    \A a, b \in RecordIds :
        (Takes(records[a]) /\ Takes(records[b])
           /\ records[a].terms.symbol = records[b].terms.symbol) => a = b
Noticed ==
    \A n \in notices : \E id \in RecordIds :
        /\ records[id].present /\ records[id].terms = n /\ records[id].step >= NoticeStep
(* What the request that begins an issuance found free stays free. *)
SymbolFree ==
    \A r \in Requests : (lease = r /\ req[r].pc = "beginWrite") =>
        \A id \in RecordIds \ {req[r].id} :
            Takes(records[id]) => records[id].terms.symbol # Rec(r).terms.symbol
(* A request whose record is stored is not ahead of it until it saves. *)
MemoryBehind ==
    \A r \in Requests : req[r].pc \in DocLabels \ {"beginWrite"} =>
        LET stored == records[req[r].id] IN
        /\ stored.present /\ stored.terms = Rec(r).terms
        /\ req[r].pc # "save" => Rec(r).step <= stored.step
MemoryRate ==
    \A r \in Requests : (req[r].pc \in DocLabels /\ Rec(r).step > NoticeStep)
                            => Rec(r).terms \in notices
RateInv ==
    /\ NoReset /\ OneTaker /\ Noticed /\ SymbolFree /\ MemoryBehind /\ MemoryRate
    /\ NoticeCarriesTheRate

(* What a request that goes on does to its record's step and terms. *)
LEMMA ProgressKeeps ==
    ASSUME TypeInv, NEW r \in Requests, req[r].pc \in DocLabels, Progresses(r)
    PROVE  /\ req'[r].pc \in DocLabels \ {"beginWrite"} /\ req'[r].id = req[r].id
           /\ Rec(r)'.terms = Rec(r).terms
           /\ \/ Rec(r)'.step = Rec(r).step
              \/ /\ req'[r].pc = "save" /\ Rec(r)'.step = Rec(r).step + 1
                 /\ FindNotice(r) \/ RecordNotice(r) \/ Rec(r).step <= ChainSteps
<1>1. Rec(r) \in Issuances
  BY RecOK DEF TypeInv, StoreOK
<1>2. {"record", "publish", "save", "reviewWrite", "persist", "assertOwned"}
         \subseteq DocLabels \ {"beginWrite"}
  BY DEF DocLabels
<1>3. ASSUME NEW label \in DocLabels \ {"beginWrite"}, Moved(r, label, Rec(r))
      PROVE  /\ req'[r].pc \in DocLabels \ {"beginWrite"} /\ req'[r].id = req[r].id
             /\ Rec(r)' = Rec(r)
  BY <1>3 DEF Moved
<1>4. NextStep(Rec(r)).step = Rec(r).step + 1 /\ NextStep(Rec(r)).terms = Rec(r).terms
  BY <1>1 DEF NextStep, Issuances
<1>5. CASE (FindNotice(r) \/ RecordNotice(r)) /\ Moved(r, "save", NextStep(Rec(r)))
  BY <1>2, <1>4, <1>5 DEF Moved
<1>6. ASSUME NEW b, Moved(r, "save", [Rec(r) EXCEPT !.completed = b])
      PROVE  Rec(r)'.step = Rec(r).step /\ Rec(r)'.terms = Rec(r).terms
  BY <1>1, <1>6 DEF Moved, Issuances
<1>7. ASSUME NEW x \in receipts, Moved(r, "save", Confirmed(Rec(r), x.outcome))
      PROVE  /\ Rec(r)'.terms = Rec(r).terms
             /\ Rec(r)'.step = Rec(r).step \/ Rec(r)'.step = Rec(r).step + 1
  <2>1. x.outcome \in {"ok", "reverted", "eventless"}
    BY DEF TypeInv, ChainOK
  <2>2. Rec(r)' \in {NextStep(Rec(r)), [Rec(r) EXCEPT !.state = "failed"],
                     [Rec(r) EXCEPT !.state = "review"]}
    BY <1>7, <2>1 DEF Moved, Confirmed
  <2>3. ASSUME NEW s, Rec(r)' = [Rec(r) EXCEPT !.state = s]
        PROVE  Rec(r)'.step = Rec(r).step /\ Rec(r)'.terms = Rec(r).terms
    BY <1>1, <2>3 DEF Issuances
  <2> QED BY <1>4, <2>2, <2>3
<1>8. ASSUME NEW s, Moved(r, "reviewWrite", [Rec(r) EXCEPT !.state = s])
      PROVE  Rec(r)'.step = Rec(r).step /\ Rec(r)'.terms = Rec(r).terms
  BY <1>1, <1>8 DEF Moved, Issuances
<1>9. ASSUME NEW t, NEW s, Moved(r, "persist", [Rec(r) EXCEPT !.tx = t, !.state = s])
      PROVE  Rec(r)'.step = Rec(r).step /\ Rec(r)'.terms = Rec(r).terms
  BY <1>1, <1>9 DEF Moved, Issuances
<1>10. ASSUME NEW n, Moved(r, "assertOwned", [Rec(r) EXCEPT !.attempts = n])
       PROVE  Rec(r)'.step = Rec(r).step /\ Rec(r)'.terms = Rec(r).terms
  BY <1>1, <1>10 DEF Moved, Issuances
<1>11. CASE \/ \E label \in DocLabels \ {"beginWrite", "persist", "publish", "record"} :
                  Moved(r, label, Rec(r))
            \/ Moved(r, "record", Rec(r)) \/ Moved(r, "publish", Rec(r))
  BY <1>2, <1>3, <1>11
<1>12. CASE Moved(r, "save", [Rec(r) EXCEPT !.completed = TRUE])
  BY <1>2, <1>6, <1>12 DEF Moved
<1>13. CASE /\ Rec(r).step <= ChainSteps
            /\ \E x \in receipts : Moved(r, "save", Confirmed(Rec(r), x.outcome))
  BY <1>2, <1>7, <1>13 DEF Moved
<1>14. CASE Moved(r, "reviewWrite", [Rec(r) EXCEPT !.state = "review"])
  BY <1>2, <1>8, <1>14 DEF Moved
<1>15. CASE Moved(r, "persist", [Rec(r) EXCEPT !.tx = [rec |-> req[r].id, step |-> Rec(r).step,
                                                       nonce |-> PendingNonce, by |-> r],
                                               !.state = "pending"])
  BY <1>2, <1>9, <1>15 DEF Moved
<1>16. CASE Moved(r, "assertOwned", [Rec(r) EXCEPT !.attempts = Rec(r).attempts + 1])
  BY <1>2, <1>10, <1>16 DEF Moved
<1> QED BY <1>5, <1>11, <1>12, <1>13, <1>14, <1>15, <1>16 DEF Progresses

(* Who takes a symbol took it already, or has just been begun. *)
LEMMA WhoTakes ==
    ASSUME LeaseInv, [Next]_vars, NEW id \in RecordIds, Takes(records'[id])
    PROVE  Takes(records[id]) \/ Born(id)
<1>1. Legal(id)
  BY EveryStep DEF LeaseStep
<1>2. records'[id] # Absent
  BY DEF Takes, Absent
<1> QED BY <1>1, <1>2 DEF Legal, Takes, Active

(* A new record's symbol is free. *)
LEMMA BornFree ==
    ASSUME LeaseInv, NoReset, SymbolFree, [Next]_vars, NEW a \in RecordIds, Born(a),
           records'[a].present, NEW b \in RecordIds, b # a, Takes(records[b])
    PROVE  records[b].terms.symbol # records'[a].terms.symbol
<1>1. PICK r \in Requests : WritesOwn(r)
  BY OneRecordWritten DEF Born
<1>2. req[r].id = a
  BY <1>1 DEF WritesOwn, Born
<1>3. req[r].pc = "beginWrite"
  BY <1>1, <1>2 DEF LeaseInv, OwnerInv, OwnerOK, Owned, WritesOwn, Active, Born
<1>4. records'[a].terms = Rec(r).terms
  <2>1. Rec(r) \in Issuances
    BY <1>1, RecOK DEF WritesOwn, LeaseInv, TypeInv, StoreOK
  <2> QED BY <1>1, <1>2, <2>1 DEF WritesOwn, Issuances
<1> QED BY <1>1, <1>2, <1>3, <1>4 DEF SymbolFree, WritesOwn

LEMMA OneTakerStep ==
    ASSUME LeaseInv, NoReset, SymbolFree, OneTaker, [Next]_vars
    PROVE  OneTaker'
<1> SUFFICES ASSUME NEW a \in RecordIds, NEW b \in RecordIds, a # b,
                    Takes(records'[a]), Takes(records'[b]),
                    records'[a].terms.symbol = records'[b].terms.symbol
             PROVE  FALSE
  BY DEF OneTaker, Takes, Active
<1>1. ASSUME NEW c \in RecordIds, NEW d \in RecordIds, c # d, Born(c),
             Takes(records'[c]), Takes(records'[d]),
             records'[c].terms.symbol = records'[d].terms.symbol
      PROVE  FALSE
  <2>1. records'[d] = records[d]
    BY <1>1 DEF Born
  <2> QED BY <1>1, <2>1, BornFree DEF Takes
<1>2. CASE Takes(records[a]) /\ Takes(records[b])
  <2>1. records'[a].terms = records[a].terms /\ records'[b].terms = records[b].terms
    BY <1>2, PresentStays DEF Takes
  <2> QED BY <1>2, <2>1 DEF OneTaker
<1> QED BY <1>1, <1>2, WhoTakes

LEMMA SymbolFreeStep ==
    ASSUME LeaseInv, NoReset, SymbolFree, [Next]_vars
    PROVE  SymbolFree'
<1>0. TypeInv
  BY DEF LeaseInv
<1> SUFFICES ASSUME NEW r \in Requests, lease' = r, req'[r].pc = "beginWrite",
                    NEW id \in RecordIds, id # req'[r].id, Takes(records'[id])
             PROVE  records'[id].terms.symbol # Rec(r)'.terms.symbol
  BY DEF SymbolFree, Takes, Active
<1>1. req'[r].pc \in DocLabels
  BY DEF DocLabels
<1>2. lease = r
  BY <1>0, <1>1, LeaseKept
<1>3. CASE req'[r] = req[r]
  <2>1. records' = records
    BY <1>2, <1>3, OneRecordWritten DEF WritesOwn
  <2> QED BY <1>2, <1>3, <2>1 DEF SymbolFree, Rec, Takes, Active
<1>4. CASE Composes(r)
  <2>1. PICK t \in Terms : ~SymbolTaken(records, t.symbol) /\ Rec(r)' = NewRecord(req[r].user, t)
    BY <1>4 DEF Composes
  <2>2. records' = records
    BY <1>4 DEF Composes, BeginRead, storeVars
  <2>3. Rec(r)'.terms = t
    BY <2>1 DEF NewRecord, Absent
  <2> QED BY <2>1, <2>2, <2>3 DEF SymbolTaken, Present, Takes
<1>5. ~Reads(r)
  BY DEF Reads, Moved
<1>6. ~(req[r].pc \in DocLabels /\ Progresses(r))
  BY <1>0, ProgressKeeps
<1> QED BY <1>0, <1>1, <1>3, <1>4, <1>5, <1>6, MemoryMoves

(* The store goes on after a request: what it knew to be stored still is.  *)
LEMMA MemoryBehindStep ==
    ASSUME LeaseInv, NoReset, MemoryBehind, [Next]_vars
    PROVE  MemoryBehind'
<1>0. TypeInv /\ TypeInv'
  BY EveryStep DEF LeaseInv, LeaseStep
<1> SUFFICES ASSUME NEW r \in Requests, req'[r].pc \in DocLabels \ {"beginWrite"}
             PROVE  LET stored == records'[req'[r].id] IN
                    /\ stored.present /\ stored.terms = Rec(r)'.terms
                    /\ req'[r].pc # "save" => Rec(r)'.step <= stored.step
  BY DEF MemoryBehind
<1> DEFINE id == req[r].id
<1>1. \A i \in RecordIds : records[i].step \in Nat /\ records'[i].step \in Nat
  <2>1. \A i \in RecordIds : records[i] \in Issuances /\ records'[i] \in Issuances
    BY <1>0 DEF TypeInv, StoreOK
  <2> QED BY <2>1, IssuanceAssumption DEF Issuances, NoticeStep
<1>2. req[r].pc \in DocLabels => id \in RecordIds /\ Rec(r).step \in Nat
  <2>1. req[r].pc \in DocLabels => id \in RecordIds /\ Rec(r) \in Issuances
    BY <1>0, RecOK DEF TypeInv, StoreOK
  <2> QED BY <2>1, IssuanceAssumption DEF Issuances, NoticeStep
<1>3. ASSUME req[r].pc \in DocLabels \ {"beginWrite"}
      PROVE  /\ records'[id].present /\ records'[id].terms = Rec(r).terms
             /\ req[r].pc # "save" => Rec(r).step <= records'[id].step
  <2>1. /\ records[id].present /\ records[id].terms = Rec(r).terms
        /\ req[r].pc # "save" => Rec(r).step <= records[id].step
    BY <1>3 DEF MemoryBehind
  <2>2. records'[id].terms = records[id].terms /\ records'[id].present
        /\ records'[id].step >= records[id].step
    BY <1>2, <1>3, <2>1, PresentStays
  <2> HIDE DEF id
  <2> QED BY <1>1, <1>2, <1>3, <2>1, <2>2
<1>4. CASE req'[r] = req[r]
  BY <1>3, <1>4 DEF Rec
<1>5. CASE Reads(r)
  <2>1. id \in RecordIds /\ records[id].present /\ req'[r].id = id
        /\ Rec(r)' = records[id]
    BY <1>5 DEF Reads, Moved, Active
  <2>2. records'[id].terms = records[id].terms /\ records'[id].present
        /\ records'[id].step >= records[id].step
    BY <2>1, PresentStays
  <2> HIDE DEF id
  <2> QED BY <1>1, <2>1, <2>2
<1>6. CASE req[r].pc \in DocLabels /\ Progresses(r) /\ req'[r] # req[r]
  <2>1. /\ req'[r].id = id /\ Rec(r)'.terms = Rec(r).terms
        /\ req'[r].pc # "save" => Rec(r)'.step = Rec(r).step
    BY <1>0, <1>6, ProgressKeeps
  <2>2. req[r].pc # "save" /\ (req[r].pc = "beginWrite" => records'[id] = Rec(r))
    BY <1>0, <1>6, SavedFirst
  <2>3. /\ records'[id].present /\ records'[id].terms = Rec(r).terms
        /\ Rec(r).step <= records'[id].step
    <3>1. CASE req[r].pc = "beginWrite"
      <4>1. Rec(r).present
        BY <1>0, <1>6, RecOK DEF TypeInv, StoreOK
      <4> QED BY <1>2, <1>6, <2>2, <3>1, <4>1
    <3> QED BY <1>3, <1>6, <2>2, <3>1
  <2> HIDE DEF id
  <2> QED BY <2>1, <2>3
<1>7. ~Composes(r)
  BY DEF Composes
<1> QED BY <1>0, <1>4, <1>5, <1>6, <1>7, MemoryMoves

(* Only a request that has published its notice keeps it. *)
LEMMA WhoNotices ==
    ASSUME [Next]_vars
    PROVE  UNCHANGED notices \/ \E r \in Requests : RecordNotice(r)
<1>1. ASSUME NEW r \in Requests, HandlerStep(r), ~RecordNotice(r) PROVE UNCHANGED notices
  BY <1>1 DEF HandlerStep, IssuanceStep, BeginRead, BeginWrite, ReserveRead, ReserveWrite,
     AdvanceRead, Verify, FindNotice, PublishNotice, CheckReceipt, ChooseAttempt,
     ReviewWrite, Sign, Persist, Attempt, AssertOwned, Broadcast, Poll, SaveProgress,
     SaveRecords, ResetStep, ResetRead, ResetWrite, ResetFree, Finish, TickClaim,
     OtherSends, OtherEnds, noticeVars
<1>2. CASE Next /\ ~\E r \in Requests : HandlerStep(r)
  BY <1>2 DEF Next, StartBegin, StartReset, StartAdvance, StartConsent, Start, TickLook,
     Throw, Die, LeaseExpires, NetworkStep, Mine, Lose, noticeVars
<1> QED BY <1>1, <1>2 DEF vars, noticeVars

(* A notice that is out has its record, which is past it. *)
LEMMA NoticedStep ==
    ASSUME LeaseInv, NoReset, MemoryBehind, Noticed, [Next]_vars
    PROVE  Noticed' /\ notices \subseteq notices'
<1>0. TypeInv /\ TypeInv'
  BY EveryStep DEF LeaseInv, LeaseStep
<1>1. \A i \in RecordIds : records[i].step \in Nat /\ records'[i].step \in Nat
  <2>1. \A i \in RecordIds : records[i] \in Issuances /\ records'[i] \in Issuances
    BY <1>0 DEF TypeInv, StoreOK
  <2> QED BY <2>1, IssuanceAssumption DEF Issuances, NoticeStep
<1>2. NoticeStep \in Nat
  BY IssuanceAssumption DEF NoticeStep
<1>3. ASSUME NEW id \in RecordIds, records[id].present, records[id].step >= NoticeStep
      PROVE  /\ records'[id].present /\ records'[id].terms = records[id].terms
             /\ records'[id].step >= NoticeStep
  BY <1>1, <1>2, <1>3, PresentStays
<1>4. \A n \in notices : \E id \in RecordIds :
         records'[id].present /\ records'[id].terms = n /\ records'[id].step >= NoticeStep
  BY <1>3 DEF Noticed
<1>5. ASSUME NEW r \in Requests, RecordNotice(r) PROVE Noticed' /\ notices \subseteq notices'
  <2>1. notices' = notices \cup {Rec(r).terms}
    BY <1>5 DEF RecordNotice
  <2>2. req[r].pc = "record" /\ req[r].pc \in DocLabels \ {"beginWrite"}
    BY <1>5 DEF RecordNotice, At, DocLabels
  <2>3. Rec(r).step = NoticeStep /\ req[r].id \in RecordIds
    BY <1>0, <2>2, RecOK DEF TypeInv, StoreOK, ReqOK, LocalOK, Rec
  <2>4. /\ records[req[r].id].present /\ records[req[r].id].terms = Rec(r).terms
        /\ records[req[r].id].step >= NoticeStep
    BY <1>1, <1>2, <2>2, <2>3 DEF MemoryBehind
  <2>5. /\ records'[req[r].id].present /\ records'[req[r].id].terms = Rec(r).terms
        /\ records'[req[r].id].step >= NoticeStep
    BY <1>3, <2>3, <2>4
  <2> QED BY <1>4, <2>1, <2>3, <2>5 DEF Noticed, NoticeStep
<1> QED BY <1>4, <1>5, WhoNotices DEF Noticed, NoticeStep

(* The notice that is found for a symbol is the record's own. *)
LEMMA FoundOwn ==
    ASSUME LeaseInv, RateInv, NEW r \in Requests, FindNotice(r),
           NEW n \in notices, n.symbol = Rec(r).terms.symbol
    PROVE  n = Rec(r).terms
<1> DEFINE id == req[r].id
<1>0. TypeInv
  BY DEF LeaseInv
<1>1. \A i \in RecordIds : records[i].step \in Nat
  <2>1. \A i \in RecordIds : records[i] \in Issuances
    BY <1>0 DEF TypeInv, StoreOK
  <2> QED BY <2>1, IssuanceAssumption DEF Issuances, NoticeStep
<1>2. ASSUME NEW i \in RecordIds, records[i].present, records[i].step >= NoticeStep
      PROVE  Takes(records[i])
  <2>1. records[i].step > ChainSteps
    BY <1>1, <1>2, IssuanceAssumption DEF NoticeStep
  <2>2. records[i].state = "queued"
    BY <1>2, <2>1 DEF LeaseInv, StageInv
  <2> QED BY <1>2, <2>2 DEF Takes, Active, Halted
<1>3. req[r].pc = "step" /\ req[r].pc \in DocLabels \ {"beginWrite"} /\ Rec(r).step = NoticeStep
  BY DEF FindNotice, At, DocLabels
<1>4. id \in RecordIds
  BY <1>0, <1>3, RecOK DEF TypeInv, StoreOK
<1>5. records[id].present /\ records[id].terms = Rec(r).terms /\ NoticeStep <= records[id].step
  BY <1>3 DEF RateInv, MemoryBehind
<1>6. PICK j \in RecordIds : /\ records[j].present /\ records[j].terms = n
                             /\ records[j].step >= NoticeStep
  BY DEF RateInv, Noticed
<1> HIDE DEF id
<1>7. NoticeStep <= records[id].step => records[id].step >= NoticeStep
  BY <1>1, <1>4, IssuanceAssumption DEF NoticeStep
<1>8. Takes(records[id]) /\ Takes(records[j])
  BY <1>2, <1>4, <1>5, <1>6, <1>7
<1>9. id = j
  BY <1>4, <1>5, <1>6, <1>8 DEF RateInv, OneTaker
<1> QED BY <1>5, <1>6, <1>9

LEMMA MemoryRateStep ==
    ASSUME LeaseInv, RateInv, [Next]_vars, notices \subseteq notices'
    PROVE  MemoryRate'
<1>0. TypeInv
  BY DEF LeaseInv
<1> SUFFICES ASSUME NEW r \in Requests, req'[r].pc \in DocLabels, Rec(r)'.step > NoticeStep
             PROVE  Rec(r)'.terms \in notices'
  BY DEF MemoryRate, NoticeStep
<1>1. CASE req'[r] = req[r]
  BY <1>1 DEF RateInv, MemoryRate, Rec
<1>2. CASE Composes(r)
  <2>1. PICK t : Rec(r)' = NewRecord(req[r].user, t)
    BY <1>2 DEF Composes
  <2>2. Rec(r)'.step = 1
    BY <2>1 DEF NewRecord, Absent
  <2> QED BY <2>2, IssuanceAssumption DEF NoticeStep
<1>3. CASE Reads(r)
  BY <1>3 DEF Reads, Moved, RateInv, NoticeCarriesTheRate, Present, Active
<1>4. CASE req[r].pc \in DocLabels /\ Progresses(r)
  <2>1. /\ Rec(r)'.terms = Rec(r).terms
        /\ \/ Rec(r)'.step = Rec(r).step
           \/ /\ Rec(r)'.step = Rec(r).step + 1
              /\ FindNotice(r) \/ RecordNotice(r) \/ Rec(r).step <= ChainSteps
    BY <1>0, <1>4, ProgressKeeps
  <2>2. Rec(r).step \in Nat
    <3>1. Rec(r) \in Issuances
      BY <1>0, <1>4, RecOK DEF TypeInv, StoreOK
    <3> QED BY <3>1, IssuanceAssumption DEF Issuances, NoticeStep
  <2>3. CASE Rec(r)'.step = Rec(r).step
    BY <1>4, <2>1, <2>3 DEF RateInv, MemoryRate
  <2>4. CASE RecordNotice(r)
    BY <2>1, <2>4 DEF RecordNotice
  <2>5. CASE Rec(r)'.step = Rec(r).step + 1 /\ Rec(r).step <= ChainSteps
    BY <2>2, <2>5, IssuanceAssumption DEF NoticeStep
  <2>6. CASE FindNotice(r) /\ Rec(r)'.step = Rec(r).step + 1
    <3>1. CASE \E n \in notices : n.symbol = Rec(r).terms.symbol
      BY <2>1, <2>6, <3>1, FoundOwn
    <3>2. CASE Goto(r, "publish")
      <4>1. Rec(r)' = Rec(r)
        BY <1>0, <3>2, GotoMoves DEF Moved
      <4> QED BY <2>1, <2>2, <2>6, <4>1
    <3> QED BY <2>6, <3>1, <3>2 DEF FindNotice
  <2> QED BY <2>1, <2>3, <2>4, <2>5, <2>6
<1> QED BY <1>0, <1>1, <1>2, <1>3, <1>4, MemoryMoves

LEMMA StoredRateStep ==
    ASSUME LeaseInv, NoReset, MemoryRate, NoticeCarriesTheRate, [Next]_vars,
           notices \subseteq notices'
    PROVE  NoticeCarriesTheRate'
<1> SUFFICES ASSUME NEW id \in RecordIds, records'[id].present, records'[id].step > NoticeStep
             PROVE  records'[id].terms \in notices'
  BY DEF NoticeCarriesTheRate, Present, RecordIds, NoticeStep
<1>1. CASE records'[id] = records[id]
  BY <1>1 DEF NoticeCarriesTheRate, Present
<1>2. ASSUME NEW r \in Requests, WritesOwn(r), id = req[r].id
      PROVE  records'[id].terms \in notices'
  <2>1. Rec(r) \in Issuances
    BY <1>2, RecOK DEF WritesOwn, LeaseInv, TypeInv, StoreOK
  <2>2. records'[id].terms = Rec(r).terms /\ records'[id].step = Rec(r).step
    BY <1>2, <2>1 DEF WritesOwn, Issuances
  <2> QED BY <1>2, <2>2 DEF MemoryRate, WritesOwn
<1> QED BY <1>1, <1>2, OneRecordWritten DEF WritesOwn

(* While nobody may reset, a completed asset's committed notice has the    *)
(* rate of its terms: of the notices only the symbol is compared           *)
(* (issuance.ts, commitNotice), and still the one found is the asset's own. *)
THEOREM NoticeRate ==
    ASSUME Resetters = {}
    PROVE  Spec => []NoticeCarriesTheRate
<1>1. Init => RateInv
  BY DEF Init, RateInv, NoReset, ResetLabels, OneTaker, Noticed, SymbolFree, MemoryBehind,
     MemoryRate, NoticeCarriesTheRate, Takes, Present, NoDoc, Absent, Idle, DocLabels
<1>2. LeaseInv /\ RateInv /\ [Next]_vars => (LeaseInv /\ RateInv)'
  <2> SUFFICES ASSUME LeaseInv, RateInv, [Next]_vars
               PROVE  LeaseInv' /\ RateInv'
    OBVIOUS
  <2>1. LeaseInv'
    BY EveryStep DEF LeaseStep
  <2>2. NoReset'
    BY StaysAway DEF RateInv, LeaseInv
  <2>3. OneTaker' /\ SymbolFree' /\ MemoryBehind' /\ Noticed' /\ notices \subseteq notices'
    BY OneTakerStep, SymbolFreeStep, MemoryBehindStep, NoticedStep DEF RateInv
  <2>4. MemoryRate' /\ NoticeCarriesTheRate'
    BY <2>3, MemoryRateStep, StoredRateStep DEF RateInv
  <2> QED BY <2>1, <2>2, <2>3, <2>4 DEF RateInv
<1>3. RateInv => NoticeCarriesTheRate
  BY DEF RateInv
<1> QED BY <1>1, <1>2, <1>3, InitLease, PTL DEF Spec

---------------------------------------------------------------------------
(***************************************************************************)
(* 7. Signed transactions stay minable                                     *)
(*                                                                         *)
(* While the agent bank's account is left to issuance and nobody resets,   *)
(* one undecided transaction exists at most: it is its record's current    *)
(* one, the record holds the reservation (OpenRecorded), and nothing is    *)
(* signed while it is open (FreshNonce).                                   *)
(***************************************************************************)

OutsideLabels == {"tickLease", "send"}
IssuanceOnly ==
    /\ \A r \in Requests : req[r].pc \notin OutsideLabels
    /\ \A t \in broadcast : t.rec # 0
OpenRecorded ==
    \A t \in Issued : HasReceipt(t) \/
        /\ t.nonce >= chainNonce
        /\ records[t.rec].present /\ records[t.rec].tx = t
        /\ records[t.rec].state \in {"pending", "review"}
(* A request that calls its step failed saw its transaction revert. *)
Reverted(tx) == \E x \in receipts : x.tx = tx /\ x.outcome = "reverted"
FailureSeen ==
    \A r \in Requests : (req[r].pc \in DocLabels /\ Rec(r).state = "failed")
                            => Reverted(Rec(r).tx)
(* What the owner has signed and not yet stored can still execute. *)
FreshNonce ==
    \A r \in Requests : (lease = r /\ req[r].pc = "persist") =>
        /\ Rec(r).tx.nonce >= chainNonce
        /\ \A t \in Issued : HasReceipt(t)
MinableInv == NoReset /\ IssuanceOnly /\ OpenRecorded /\ FailureSeen /\ FreshNonce

LEMMA OutsideStaysAway ==
    ASSUME Resetters = {}, OtherJobs = {}, TypeInv, NoReset, IssuanceOnly, [Next]_vars
    PROVE  IssuanceOnly'
<1>1. ASSUME NEW r \in Requests, req'[r].pc \in OutsideLabels PROVE FALSE
  <2>1. req'[r].pc # req[r].pc /\ req'[r].pc \notin PlainLabels
    BY <1>1 DEF IssuanceOnly, OutsideLabels, PlainLabels, DocLabels
  <2>2. ~ResetStep(r) /\ \A u : ~StartReset(r, u)
    BY DEF NoReset, ResetLabels, ResetStep, ResetRead, ResetWrite, ResetFree, At, StartReset
  <2>3. ~StartConsent(r) /\ ~TickLook(r) /\ ~TickClaim(r)
    BY DEF StartConsent, TickLook, TickClaim, At, IssuanceOnly, OutsideLabels
  <2> QED BY <2>1, <2>2, <2>3, WhereTo DEF Elsewhere
<1>2. \A r \in Requests : ~OtherSends(r)
  BY DEF IssuanceOnly, OutsideLabels, OtherSends, At
<1>3. ASSUME NEW r \in Requests, Broadcast(r) PROVE \A t \in broadcast' : t.rec # 0
  <2>1. broadcast' = broadcast \cup {Rec(r).tx}
    BY <1>3 DEF Broadcast, Send
  <2>2. req[r].pc = "broadcast" /\ req[r].pc \in DocLabels
    BY <1>3 DEF Broadcast, At, DocLabels
  <2>3. Rec(r).tx # NoTx
    BY <2>2 DEF TypeInv, ReqOK, LocalOK, SentLabels, Rec
  <2>4. Rec(r).tx.rec = req[r].id /\ req[r].id \in RecordIds
    BY <2>2, <2>3, RecOK DEF TypeInv, StoreOK, WellFormed
  <2> QED BY <2>1, <2>4 DEF IssuanceOnly, RecordIds
<1>4. ASSUME NEW r \in Requests, HandlerStep(r), ~Broadcast(r) PROVE UNCHANGED broadcast
  BY <1>2, <1>4 DEF HandlerStep, IssuanceStep, BeginRead, BeginWrite, ReserveRead,
     ReserveWrite, AdvanceRead, Verify, FindNotice, PublishNotice, RecordNotice,
     CheckReceipt, ChooseAttempt, ReviewWrite, Sign, Persist, Attempt, AssertOwned, Poll,
     SaveProgress, SaveRecords, ResetStep, ResetRead, ResetWrite, ResetFree, Finish,
     TickClaim, OtherEnds
<1>5. ASSUME Next, ~\E r \in Requests : HandlerStep(r) PROVE UNCHANGED broadcast
  BY <1>5 DEF Next, StartBegin, StartReset, StartAdvance, StartConsent, Start, TickLook,
     Throw, Die, LeaseExpires, NetworkStep, Mine, Lose
<1>6. \A t \in broadcast' : t.rec # 0
  BY <1>3, <1>4, <1>5 DEF IssuanceOnly, vars
<1>7. \A r \in Requests : req'[r].pc \notin OutsideLabels
  BY <1>1
<1> QED BY <1>6, <1>7 DEF IssuanceOnly, OutsideLabels

(* The nonce moves on, and receipts come, when a transaction executes.     *)
LEMMA ChainMoves ==
    ASSUME [Next]_vars
    PROVE  \/ UNCHANGED <<chainNonce, receipts>>
           \/ \E tx \in pool : \E outcome : Mine(tx, outcome)
<1>1. ASSUME NEW r \in Requests, HandlerStep(r) PROVE UNCHANGED <<chainNonce, receipts>>
  BY <1>1 DEF HandlerStep, IssuanceStep, BeginRead, BeginWrite, ReserveRead, ReserveWrite,
     AdvanceRead, Verify, FindNotice, PublishNotice, RecordNotice, CheckReceipt,
     ChooseAttempt, ReviewWrite, Sign, Persist, Attempt, AssertOwned, Broadcast, Poll, Send,
     SaveProgress, SaveRecords, ResetStep, ResetRead, ResetWrite, ResetFree, Finish,
     TickClaim, OtherSends, OtherEnds, chainVars
<1>2. CASE Next /\ ~(\E r \in Requests : HandlerStep(r)) /\ ~NetworkStep
  BY <1>2 DEF Next, StartBegin, StartReset, StartAdvance, StartConsent, Start, TickLook,
     Throw, Die, LeaseExpires, chainVars
<1>3. CASE NetworkStep
  BY <1>3 DEF NetworkStep, Lose
<1> QED BY <1>1, <1>2, <1>3 DEF vars, chainVars

(* A transaction whose record holds the reservation is the only one open.  *)
LEMMA OneOpen ==
    ASSUME LeaseInv, OpenRecorded, NEW t \in Issued, ~HasReceipt(t)
    PROVE  /\ t.rec = marker /\ t.rec \in RecordIds /\ records[t.rec].present
           /\ records[t.rec].tx = t /\ t # NoTx
<1>1. /\ records[t.rec].present /\ records[t.rec].tx = t
      /\ records[t.rec].state \in {"pending", "review"}
  BY DEF OpenRecorded
<1>2. t.rec \in 1..begun /\ begun \in 0..MaxRecords
  BY DEF LeaseInv, IssuedInv, TypeInv, StoreOK
<1>3. t.rec \in RecordIds /\ t.rec # 0
  BY <1>2, IssuanceAssumption DEF RecordIds
<1> QED BY <1>1, <1>3 DEF LeaseInv, UnresolvedHoldsReservation, NoTx

LEMMA PoolOpen ==
    ASSUME TypeInv, DecidedInv, IssuanceOnly, NEW tx \in pool
    PROVE  tx \in Issued /\ ~HasReceipt(tx)
<1>1. tx \in Issued
  BY DEF DecidedInv, IssuanceOnly, Issued
<1>2. tx.nonce \in Nat /\ chainNonce \in Nat
  BY DEF TypeInv, ChainOK, Txs
<1>3. \A x \in receipts : x.tx # tx
  BY <1>2 DEF DecidedInv
<1> QED BY <1>1, <1>3 DEF HasReceipt

LEMMA ReceiptStays ==
    ASSUME [Next]_vars, NEW t, HasReceipt(t)
    PROVE  HasReceipt(t)'
BY ReceiptsGrow DEF HasReceipt

(* While a transaction is open its nonce is not used up by another.        *)
LEMMA NonceKept ==
    ASSUME LeaseInv, DecidedInv, IssuanceOnly, OpenRecorded, [Next]_vars,
           NEW t \in Issued, ~HasReceipt(t)
    PROVE  HasReceipt(t)' \/ t.nonce >= chainNonce'
<1>1. t.nonce >= chainNonce
  BY DEF OpenRecorded
<1>2. ASSUME NEW tx \in pool, NEW outcome, Mine(tx, outcome) PROVE HasReceipt(t)'
  <2>1. tx \in Issued /\ ~HasReceipt(tx)
    BY PoolOpen DEF LeaseInv
  <2>2. tx = t
    BY <2>1, OneOpen
  <2>3. t.rec # 0
    BY OneOpen DEF RecordIds
  <2>4. [tx |-> t, outcome |-> outcome] \in receipts'
    BY <1>2, <2>2, <2>3 DEF Mine
  <2> QED BY <2>4 DEF HasReceipt
<1> QED BY <1>1, <1>2, ChainMoves

LEMMA NothingOpen ==
    ASSUME TypeInv, DecidedInv, IssuanceOnly, [Next]_vars, \A t \in Issued : HasReceipt(t)
    PROVE  UNCHANGED chainNonce
BY PoolOpen, ChainMoves

---------------------------------------------------------------------------
(* What becomes of a transaction that is open *)

(* Its record is still the one that has it, or moves on with its receipt.  *)
LEMMA OpenStays ==
    ASSUME LeaseInv, DecidedInv, SeenInv, MinableInv, [Next]_vars, NEW t \in Issued,
           ~HasReceipt(t)
    PROVE  /\ records'[t.rec].present /\ records'[t.rec].tx = t
           /\ records'[t.rec].state \in {"pending", "review"}
<1> DEFINE id == t.rec
           old == records[id]
           new == records'[id]
<1>1. id \in RecordIds /\ old.present /\ old.tx = t /\ t # NoTx
  BY OneOpen DEF MinableInv
<1>2. old.state \in {"pending", "review"}
  BY DEF MinableInv, OpenRecorded
<1>3. TypeInv /\ TypeInv' /\ Legal(id)
  BY <1>1, EveryStep DEF LeaseStep, LeaseInv
<1>4. old \in Issuances /\ WellFormed(old, id)
  BY <1>1, <1>3 DEF TypeInv, StoreOK, WellFormedDoc
<1>5. new.present
  BY <1>1, PresentStays DEF MinableInv
<1>6. old.step \in 1..ChainSteps /\ t.step = old.step /\ NoticeStep > old.step
  <2>1. old.step <= ChainSteps /\ t.step = old.step /\ old.step \in Nat \ {0}
    BY <1>1, <1>4, IssuanceAssumption DEF WellFormed, Issuances, NoticeStep
  <2> HIDE DEF old
  <2> QED BY <2>1, IssuanceAssumption DEF NoticeStep
<1>7. Succeeded(id, new.step)
  BY <1>1, <1>5, StoreStep
<1>8. ~(new.step > old.step)
  <2> SUFFICES ASSUME new.step > old.step PROVE FALSE
    OBVIOUS
  <2>1. PICK x \in receipts : x.tx.rec = id /\ x.tx.step = old.step
    BY <1>6, <1>7 DEF Succeeded, HasOk
  <2>2. x.tx \in Issued
    BY <2>1 DEF DecidedInv, Issued
  <2>3. x.tx = t
    BY <1>6, <2>1, <2>2 DEF LeaseInv, IssuedInv
  <2> QED BY <2>3 DEF HasReceipt
<1>9. ASSUME new = [old EXCEPT !.state = "failed"] PROVE FALSE
  <2>1. new.tx = t /\ new.state = "failed" /\ records' # records
    BY <1>1, <1>2, <1>4, <1>9 DEF Issuances
  <2>2. PICK r \in Requests : WritesOwn(r)
    BY <2>1, OneRecordWritten DEF MinableInv
  <2>3. id = req[r].id
    <3>1. new # old
      BY <1>2, <2>1
    <3> QED BY <1>1, <2>2, <3>1 DEF WritesOwn
  <2>4. PICK n : new = [Rec(r) EXCEPT !.attempts = n]
    BY <2>2, <2>3 DEF WritesOwn
  <2>5. Rec(r) \in Issuances
    BY <1>3, <2>2, RecOK DEF WritesOwn, TypeInv, StoreOK
  <2>6. Rec(r).tx = t /\ Rec(r).state = "failed"
    BY <2>1, <2>4, <2>5 DEF Issuances
  <2> QED BY <2>2, <2>6 DEF MinableInv, FailureSeen, Reverted, HasReceipt, WritesOwn
<1>10. CASE new = old
  BY <1>1, <1>2, <1>10
<1>11. ASSUME NEW n, new = [old EXCEPT !.attempts = n]
       PROVE  new.tx = t /\ new.state \in {"pending", "review"}
  BY <1>1, <1>2, <1>4, <1>11 DEF Issuances
<1>12. CASE new = [old EXCEPT !.state = "review"]
  BY <1>1, <1>4, <1>5, <1>12 DEF Issuances
<1>13. new # NextStep(old)
  <2> SUFFICES ASSUME new = NextStep(old) PROVE FALSE
    OBVIOUS
  <2>1. new.step = old.step + 1
    BY <1>4 DEF NextStep, Issuances
  <2> HIDE DEF new, old
  <2> QED BY <1>6, <1>8, <2>1
<1>14. ~Signs(old, new) /\ new # Absent /\ ~Born(id)
  BY <1>1, <1>5 DEF Signs, Absent, Born
<1>15. ~(old.step > NoticeStep)
  <2> HIDE DEF old
  <2> QED BY <1>6, IssuanceAssumption DEF NoticeStep
<1>16. new = old \/ (\E n : new = [old EXCEPT !.attempts = n])
         \/ new = [old EXCEPT !.state = "review"]
  BY <1>3, <1>9, <1>13, <1>14, <1>15 DEF Legal, Grown, Change
<1> QED BY <1>5, <1>10, <1>11, <1>12, <1>16

(* What has just been signed can execute. *)
LEMMA SignedOpen ==
    ASSUME LeaseInv, DecidedInv, MinableInv, [Next]_vars, NEW t, SignedNow(t)
    PROVE  /\ t.nonce >= chainNonce' /\ t.rec \in RecordIds
           /\ records'[t.rec].present /\ records'[t.rec].tx = t
           /\ records'[t.rec].state = "pending"
<1>1. PICK id \in RecordIds : /\ Active(records[id]) /\ t = records'[id].tx
                              /\ Signs(records[id], records'[id])
  BY DEF SignedNow
<1> DEFINE old == records[id]
           new == records'[id]
<1>2. TypeInv /\ TypeInv'
  BY EveryStep DEF LeaseStep, LeaseInv
<1>3. old \in Issuances /\ WellFormed(new, id)
  BY <1>2 DEF TypeInv, StoreOK, WellFormedDoc
<1>4. new.present /\ new.state = "pending" /\ t # NoTx /\ old.tx = NoTx
  BY <1>1, <1>3 DEF Signs, Issuances, Active
<1>5. t.rec = id
  BY <1>1, <1>3, <1>4 DEF WellFormed
<1>6. PICK r \in Requests : WritesOwn(r)
  BY <1>1, <1>4, OneRecordWritten DEF MinableInv
<1>7. req[r].id = id
  <2>1. new # old
    BY <1>1, <1>4
  <2> QED BY <1>6, <2>1 DEF WritesOwn
<1>8. Rec(r).tx = t
  <2>1. Rec(r) \in Issuances
    BY <1>2, <1>6, RecOK DEF WritesOwn, TypeInv, StoreOK
  <2> QED BY <1>1, <1>6, <1>7, <2>1 DEF WritesOwn, Issuances
<1>9. ASSUME Change(old, Rec(r)) PROVE FALSE
  <2>1. NextStep(old).tx = NoTx /\ [old EXCEPT !.completed = TRUE].tx = old.tx
        /\ \A s : [old EXCEPT !.state = s].tx = old.tx
    BY <1>3 DEF NextStep, Issuances
  <2> HIDE DEF old
  <2> QED BY <1>4, <1>8, <1>9, <2>1 DEF Change
<1>10. OwnerOK(req[r], records, marker, Issued) /\ req[r].pc \in DocLabels
  BY <1>6 DEF WritesOwn, LeaseInv, OwnerInv, Owned
<1>11. req[r].pc = "persist"
  <2>1. req[r].pc # "beginWrite"
    BY <1>1, <1>7, <1>10 DEF OwnerOK, Active
  <2>2. req[r].pc \notin CleanLabels
    BY <1>4, <1>7, <1>8, <1>10 DEF OwnerOK, Rec
  <2>3. req[r].pc # "reviewWrite"
    BY <1>7, <1>9, <1>10 DEF OwnerOK, Rec
  <2>4. req[r].pc # "save"
    BY <1>4, <1>7, <1>8, <1>9, <1>10 DEF OwnerOK, Rec
  <2> QED BY <1>10, <2>1, <2>2, <2>3, <2>4 DEF CleanLabels
<1>12. t.nonce >= chainNonce /\ \A s \in Issued : HasReceipt(s)
  BY <1>6, <1>8, <1>11 DEF MinableInv, FreshNonce, WritesOwn
<1>13. chainNonce' = chainNonce
  BY <1>2, <1>12, NothingOpen DEF MinableInv
<1> QED BY <1>1, <1>4, <1>5, <1>12, <1>13

LEMMA OpenRecordedStep ==
    ASSUME LeaseInv, DecidedInv, SeenInv, MinableInv, [Next]_vars
    PROVE  OpenRecorded'
<1> SUFFICES ASSUME NEW t \in Issued'
             PROVE  \/ HasReceipt(t)'
                    \/ /\ t.nonce >= chainNonce'
                       /\ records'[t.rec].present /\ records'[t.rec].tx = t
                       /\ records'[t.rec].state \in {"pending", "review"}
  BY DEF OpenRecorded
<1>1. CASE t \in Issued /\ HasReceipt(t)
  BY <1>1, ReceiptStays
<1>2. CASE t \in Issued /\ ~HasReceipt(t)
  BY <1>2, OpenStays, NonceKept DEF MinableInv
<1>3. CASE SignedNow(t)
  BY <1>3, SignedOpen
<1> QED BY <1>1, <1>2, <1>3, EveryStep DEF LeaseStep, IssuedGrows

LEMMA FailureSeenStep ==
    ASSUME LeaseInv, FailureSeen, [Next]_vars
    PROVE  FailureSeen'
<1>0. TypeInv
  BY DEF LeaseInv
<1> SUFFICES ASSUME NEW r \in Requests, req'[r].pc \in DocLabels, Rec(r)'.state = "failed"
             PROVE  Reverted(Rec(r).tx)'
  BY DEF FailureSeen
<1>1. ASSUME req[r].pc \in DocLabels, Rec(r)'.tx = Rec(r).tx, Rec(r)'.state = Rec(r).state
      PROVE  Reverted(Rec(r).tx)'
  BY <1>1, ReceiptsGrow DEF FailureSeen, Reverted
<1>2. CASE req'[r] = req[r]
  BY <1>1, <1>2 DEF Rec
<1>3. ~Composes(r)
  <2>1. \A u, t : NewRecord(u, t).state = "queued"
    BY DEF NewRecord, Absent
  <2> QED BY <2>1 DEF Composes
<1>4. ~Reads(r)
  BY DEF Reads, Moved, Active, Halted
<1>5. ASSUME req[r].pc \in DocLabels, Progresses(r)
      PROVE  Reverted(Rec(r).tx)'
  <2>1. Rec(r) \in Issuances
    BY <1>0, <1>5, RecOK DEF TypeInv, StoreOK
  <2>2. ASSUME NEW label, Moved(r, label, Rec(r)) PROVE Reverted(Rec(r).tx)'
    BY <1>1, <1>5, <2>2 DEF Moved
  <2>3. NextStep(Rec(r)).state = "queued"
    BY <2>1 DEF NextStep, Issuances
  <2>4. ~Moved(r, "save", NextStep(Rec(r)))
    BY <2>3 DEF Moved
  <2>5. ASSUME NEW b, Moved(r, "save", [Rec(r) EXCEPT !.completed = b])
        PROVE  Reverted(Rec(r).tx)'
    BY <1>1, <1>5, <2>1, <2>5 DEF Moved, Issuances
  <2>6. ASSUME NEW x \in receipts, x.tx = Rec(r).tx,
               Moved(r, "save", Confirmed(Rec(r), x.outcome))
        PROVE  Reverted(Rec(r).tx)'
    <3>1. x.outcome \in {"ok", "reverted", "eventless"}
      BY <1>0 DEF TypeInv, ChainOK
    <3>2. \E s : Rec(r)' = [Rec(r) EXCEPT !.state = s]
      BY <2>4, <2>6, <3>1 DEF Moved, Confirmed
    <3>3. Rec(r)'.tx = x.tx
      BY <2>1, <2>6, <3>2 DEF Issuances
    <3>4. x.outcome = "reverted"
      <4>1. [Rec(r) EXCEPT !.state = "review"].state = "review"
        BY <2>1 DEF Issuances
      <4> QED BY <2>4, <2>6, <3>1, <4>1 DEF Moved, Confirmed
    <3> QED BY <3>3, <3>4, ReceiptsGrow DEF Reverted
  <2>7. ~Moved(r, "reviewWrite", [Rec(r) EXCEPT !.state = "review"])
    BY <2>1 DEF Moved, Issuances
  <2>8. \A t : ~Moved(r, "persist", [Rec(r) EXCEPT !.tx = t, !.state = "pending"])
    BY <2>1 DEF Moved, Issuances
  <2>9. ASSUME NEW n, Moved(r, "assertOwned", [Rec(r) EXCEPT !.attempts = n])
        PROVE  Reverted(Rec(r).tx)'
    BY <1>1, <1>5, <2>1, <2>9 DEF Moved, Issuances
  <2> QED BY <1>5, <2>2, <2>4, <2>5, <2>6, <2>7, <2>8, <2>9 DEF Progresses
<1> QED BY <1>0, <1>2, <1>3, <1>4, <1>5, MemoryMoves

LEMMA FreshNonceStep ==
    ASSUME LeaseInv, DecidedInv, MinableInv, [Next]_vars
    PROVE  FreshNonce'
<1>0. TypeInv
  BY DEF LeaseInv
<1> SUFFICES ASSUME NEW r \in Requests, lease' = r, req'[r].pc = "persist"
             PROVE  /\ Rec(r)'.tx.nonce >= chainNonce'
                    /\ \A t \in Issued' : HasReceipt(t)'
  BY DEF FreshNonce
<1>1. req'[r].pc \in DocLabels
  BY DEF DocLabels
<1>2. lease = r
  BY <1>0, <1>1, LeaseKept
<1>3. ASSUME \A t \in Issued : HasReceipt(t), records' = records
      PROVE  \A t \in Issued' : HasReceipt(t)'
  <2>1. \A t \in Issued' : t \in Issued \/ SignedNow(t)
    BY EveryStep DEF LeaseStep, IssuedGrows
  <2>2. \A t : ~SignedNow(t)
    BY <1>3 DEF SignedNow, Signs
  <2> QED BY <1>3, <2>1, <2>2, ReceiptStays
<1>4. CASE req'[r] = req[r]
  <2>1. Rec(r).tx.nonce >= chainNonce /\ \A t \in Issued : HasReceipt(t)
    BY <1>2, <1>4 DEF MinableInv, FreshNonce
  <2>2. records' = records
    BY <1>2, <1>4, OneRecordWritten DEF MinableInv, WritesOwn
  <2>3. chainNonce' = chainNonce
    BY <1>0, <2>1, NothingOpen DEF MinableInv
  <2> QED BY <1>3, <1>4, <2>1, <2>2, <2>3 DEF Rec
<1>5. ~Composes(r) /\ ~Reads(r)
  BY DEF Composes, Reads, Moved
<1>6. ASSUME req[r].pc \in DocLabels, Progresses(r)
      PROVE  /\ Rec(r)'.tx.nonce >= chainNonce'
             /\ \A t \in Issued' : HasReceipt(t)'
  <2> DEFINE tx == [rec |-> req[r].id, step |-> Rec(r).step, nonce |-> PendingNonce, by |-> r]
  <2>1. Sign(r) /\ Rec(r)' = [Rec(r) EXCEPT !.tx = tx, !.state = "pending"]
    BY <1>6 DEF Progresses, Moved
  <2>2. Rec(r) \in Issuances
    BY <1>0, <1>6, RecOK DEF TypeInv, StoreOK
  <2>3. Rec(r)'.tx.nonce = PendingNonce
    BY <2>1, <2>2 DEF Issuances
  <2>4. chainNonce' = chainNonce /\ records' = records /\ req[r].pc = "sign"
    BY <2>1 DEF Sign, chainVars, storeVars, At
  <2>5. PendingNonce >= chainNonce
    BY <1>0, PendingNonceType DEF TypeInv
  <2>6. Rec(r).tx = NoTx
    BY <1>0, <2>4 DEF TypeInv, ReqOK, LocalOK, Rec
  <2>7. marker = req[r].id /\ Rec(r) = records[req[r].id]
    <3>1. OwnerOK(req[r], records, marker, Issued)
      BY <1>2 DEF LeaseInv, OwnerInv, Owned
    <3>2. req[r].pc \in ReservedLabels /\ req[r].pc \in CleanLabels
      BY <2>4 DEF ReservedLabels, CleanLabels, DocLabels
    <3> QED BY <3>1, <3>2 DEF OwnerOK, Rec
  <2>8. \A t \in Issued : HasReceipt(t)
    BY <2>6, <2>7, OneOpen DEF MinableInv
  <2> QED BY <1>3, <2>3, <2>4, <2>5, <2>8
<1> QED BY <1>0, <1>1, <1>4, <1>5, <1>6, MemoryMoves

(* While only issuance signs with the account and nobody may reset, a      *)
(* transaction signed for a step has its receipt or can still execute, so  *)
(* a retry of its bytes, or a step under review, is never void.            *)
THEOREM SignedMinable ==
    ASSUME OtherJobs = {}, Resetters = {}
    PROVE  Spec => []SignedStaysMinable
<1>1. Init => DecidedInv /\ SeenInv /\ MinableInv
  <2> SUFFICES ASSUME Init PROVE DecidedInv /\ SeenInv /\ MinableInv
    OBVIOUS
  <2>1. DecidedInv /\ SeenInv
    BY DEF Init, DecidedInv, SeenInv, NoDoc, Absent, Idle, DocLabels
  <2>2. Issued = {}
    BY DEF Init, Issued, NoDoc, Absent, Idle, HeldLabels, DocLabels
  <2>3. NoReset /\ IssuanceOnly /\ FailureSeen /\ FreshNonce
    BY DEF Init, NoReset, ResetLabels, IssuanceOnly, OutsideLabels, FailureSeen, FreshNonce,
       Idle, DocLabels
  <2> QED BY <2>1, <2>2, <2>3 DEF MinableInv, OpenRecorded
<1>2. LeaseInv /\ DecidedInv /\ SeenInv /\ MinableInv /\ [Next]_vars
         => ((LeaseInv /\ DecidedInv /\ SeenInv)' => MinableInv')
  <2> SUFFICES ASSUME LeaseInv, DecidedInv, SeenInv, MinableInv, [Next]_vars
               PROVE  MinableInv'
    OBVIOUS
  <2>1. NoReset' /\ IssuanceOnly'
    BY StaysAway, OutsideStaysAway DEF LeaseInv, MinableInv
  <2>2. OpenRecorded' /\ FailureSeen' /\ FreshNonce'
    BY OpenRecordedStep, FailureSeenStep, FreshNonceStep DEF MinableInv
  <2> QED BY <2>1, <2>2 DEF MinableInv
<1>3. MinableInv => SignedStaysMinable
  <2> SUFFICES ASSUME OpenRecorded, NEW id \in Present(records), records[id].tx # NoTx
               PROVE  HasReceipt(records[id].tx) \/ records[id].tx.nonce >= chainNonce
    BY DEF MinableInv, SignedStaysMinable
  <2>1. records[id].tx \in Issued
    BY DEF Issued, Present
  <2> QED BY <2>1 DEF OpenRecorded
<1> QED BY <1>1, <1>2, <1>3, ChainInvariant, PTL DEF Spec

---------------------------------------------------------------------------
(***************************************************************************)
(* 8. Serial issuance                                                      *)
(*                                                                         *)
(* The refinement mapping reads the status and the confirmed steps off the *)
(* store, the postings off what was ever sent and the runs off the         *)
(* receipts.  Every step changes one of the three at most (StepParts); a   *)
(* save is Begin, Confirm, Complete, Fail or Review, a reset is Drop, a    *)
(* first broadcast is Post and a success is Run.  SerialInv says why these *)
(* are allowed: a failed record's transaction reverted, only a record that *)
(* confirmed all its steps is completed, and a transaction is issued for a *)
(* step when every step before it succeeded.                               *)
(***************************************************************************)

FailedStored ==
    \A id \in RecordIds :
        (records[id].present /\ records[id].state = "failed") => Reverted(records[id].tx)
CompletedLast ==
    \A id \in RecordIds :
        (records[id].present /\ records[id].completed) => records[id].step > NoticeStep
IssuedDue ==
    \A t \in Issued : t.step \in 1..ChainSteps /\ Succeeded(t.rec, t.step)
SerialInv == FailureSeen /\ FailedStored /\ CompletedLast /\ IssuedDue

(* A record is stored as failed by a request that saw the revert.          *)
LEMMA FailedStoredStep ==
    ASSUME LeaseInv, FailureSeen, FailedStored, [Next]_vars
    PROVE  FailedStored'
<1> SUFFICES ASSUME NEW id \in RecordIds, records'[id].present, records'[id].state = "failed"
             PROVE  Reverted(records[id].tx)'
  BY DEF FailedStored
<1>1. TypeInv
  BY DEF LeaseInv
<1>2. ASSUME NEW t, Reverted(t), records'[id].tx = t
      PROVE  Reverted(records[id].tx)'
  BY <1>2, ReceiptsGrow DEF Reverted
<1>3. CASE records'[id] = records[id]
  BY <1>2, <1>3 DEF FailedStored
<1>4. ASSUME NEW r \in Requests, req[r].pc \in DocLabels, lease = r,
             \/ records' = req[r].doc
             \/ \E n : records' = [req[r].doc EXCEPT ![req[r].id].attempts = n]
      PROVE  Reverted(records[id].tx)'
  <2>1. req[r].doc \in [RecordIds -> Issuances]
    BY <1>1, <1>4, RecOK DEF TypeInv, StoreOK
  <2>2. CASE id = req[r].id
    <3>1. Rec(r) \in Issuances
      BY <2>1, <2>2 DEF Rec
    <3>2. \/ records'[id] = Rec(r)
          \/ \E n : records'[id] = [Rec(r) EXCEPT !.attempts = n]
      BY <1>4, <2>1, <2>2 DEF Rec
    <3>3. records'[id].tx = Rec(r).tx /\ records'[id].state = Rec(r).state
      BY <3>1, <3>2 DEF Issuances
    <3> QED BY <1>2, <1>4, <3>3 DEF FailureSeen
  <2>3. CASE id # req[r].id
    <3>1. records'[id] = req[r].doc[id]
      BY <1>4, <2>1, <2>3
    <3>2. req[r].doc[id] = records[id]
      BY <1>4, <2>3 DEF LeaseInv, OwnerInv, Owned, OwnerOK
    <3> QED BY <1>3, <3>1, <3>2
  <2> QED BY <2>2, <2>3
<1>5. ASSUME NEW r \in Requests, req[r].pc = "resetWrite", lease = r, records' = Kept(r)
      PROVE  Reverted(records[id].tx)'
  <2>1. req[r].doc = records
    BY <1>5 DEF LeaseInv, OwnerInv, Owned, OwnerOK
  <2>2. records'[id] = records[id]
    BY <1>5, <2>1 DEF Kept, Absent
  <2> QED BY <1>3, <2>2
<1> QED BY <1>1, <1>3, <1>4, <1>5, WhoWrites DEF Writes

LEMMA CompletedLastStep ==
    ASSUME LeaseInv, CompletedLast, [Next]_vars
    PROVE  CompletedLast'
<1> SUFFICES ASSUME NEW id \in RecordIds, records'[id].present, records'[id].completed
             PROVE  records'[id].step > NoticeStep
  BY DEF CompletedLast
<1> DEFINE old == records[id]
           new == records'[id]
<1>1. Legal(id) /\ old \in Issuances
  BY EveryStep DEF LeaseStep, LeaseInv, TypeInv, StoreOK
<1>2. ~Born(id) /\ new # Absent
  <2>1. \A u, t : ~NewRecord(u, t).completed
    BY DEF NewRecord, Absent
  <2> QED BY <2>1 DEF Born, Absent
<1>3. CASE new = old
  BY <1>3 DEF CompletedLast
<1>4. CASE Active(old) /\ Grown(old, new)
  <2>1. ~old.completed
    BY <1>4 DEF Active
  <2>2. ~NextStep(old).completed /\ [old EXCEPT !.completed = TRUE].step = old.step
    BY <1>1, <2>1 DEF NextStep, Issuances
  <2>3. \A s : ~[old EXCEPT !.state = s].completed
    BY <1>1, <2>1 DEF Issuances
  <2>4. \A t : ~[old EXCEPT !.tx = t, !.state = "pending"].completed
    BY <1>1, <2>1 DEF Issuances
  <2>5. \A n : ~[old EXCEPT !.attempts = n].completed
    BY <1>1, <2>1 DEF Issuances
  <2> HIDE DEF old, new
  <2>6. new.completed
    BY DEF new
  <2>7. new.step > NoticeStep
    BY <1>4, <2>2, <2>3, <2>4, <2>5, <2>6 DEF Grown, Change, Signs
  <2> QED BY <2>7 DEF new
<1> QED BY <1>1, <1>2, <1>3, <1>4 DEF Legal

(* A step is signed for when the store has confirmed every step before it. *)
LEMMA IssuedDueStep ==
    ASSUME LeaseInv, SeenInv, IssuedDue, [Next]_vars
    PROVE  IssuedDue'
<1> SUFFICES ASSUME NEW t \in Issued'
             PROVE  t.step \in 1..ChainSteps /\ Succeeded(t.rec, t.step)'
  BY DEF IssuedDue
<1>1. Succeeded(t.rec, t.step) => Succeeded(t.rec, t.step)'
  BY ReceiptsGrow DEF Succeeded, HasOk
<1>2. CASE t \in Issued
  BY <1>1, <1>2 DEF IssuedDue
<1>3. CASE SignedNow(t)
  <2>1. PICK id \in RecordIds : /\ Active(records[id]) /\ t = records'[id].tx
                                /\ Signs(records[id], records'[id])
    BY <1>3 DEF SignedNow
  <2>2. records[id] \in Issuances /\ records'[id] \in Issuances /\ WellFormed(records'[id], id)
    BY EveryStep DEF LeaseStep, LeaseInv, TypeInv, StoreOK, WellFormedDoc
  <2>3. records'[id].present /\ t # NoTx
    BY <2>1, <2>2 DEF Signs, Issuances, Active
  <2>4. t.rec = id /\ t.step = records'[id].step /\ t.step <= ChainSteps
    BY <2>1, <2>2, <2>3 DEF WellFormed
  <2>5. t.step \in 1..ChainSteps
    BY <2>2, <2>4, IssuanceAssumption DEF Issuances, NoticeStep
  <2>6. Succeeded(id, records'[id].step)
    BY <2>3, StoreStep
  <2> QED BY <1>1, <2>4, <2>5, <2>6
<1> QED BY <1>2, <1>3, EveryStep DEF LeaseStep, IssuedGrows

(* The inductive invariant. *)
LEMMA SerialInvariant == Spec => [](LeaseInv /\ DecidedInv /\ SeenInv /\ SerialInv)
<1>1. Init => SerialInv
  <2> SUFFICES ASSUME Init PROVE SerialInv
    OBVIOUS
  <2>1. Issued = {}
    BY DEF Init, Issued, NoDoc, Absent, Idle, HeldLabels, DocLabels
  <2>2. FailureSeen /\ FailedStored /\ CompletedLast
    BY DEF Init, FailureSeen, FailedStored, CompletedLast, NoDoc, Absent, Idle, DocLabels
  <2> QED BY <2>1, <2>2 DEF SerialInv, IssuedDue
<1>2. LeaseInv /\ DecidedInv /\ SeenInv /\ SerialInv /\ [Next]_vars => SerialInv'
  BY FailureSeenStep, FailedStoredStep, CompletedLastStep, IssuedDueStep DEF SerialInv
<1> QED BY <1>1, <1>2, ChainInvariant, PTL DEF Spec

---------------------------------------------------------------------------
(* What a step changes *)

LEMMA StepParts ==
    ASSUME [Next]_vars
    PROVE  \/ UNCHANGED <<receipts, broadcast>>
           \/ \E r \in Requests : \E t :
                 /\ UNCHANGED <<records, receipts>>
                 /\ broadcast' = broadcast \cup {t}
                 /\ \/ t.rec = 0
                    \/ Broadcast(r) /\ t = Rec(r).tx
           \/ \E t \in pool : \E outcome : Mine(t, outcome)
<1>1. ASSUME NEW r \in Requests, HandlerStep(r), ~Broadcast(r), ~OtherSends(r)
      PROVE  UNCHANGED <<receipts, broadcast>>
  BY <1>1 DEF HandlerStep, IssuanceStep, BeginRead, BeginWrite, ReserveRead,
     ReserveWrite, AdvanceRead, Verify, FindNotice, PublishNotice, RecordNotice,
     CheckReceipt, ChooseAttempt, ReviewWrite, Sign, Persist, Attempt, AssertOwned, Poll,
     SaveProgress, SaveRecords, ResetStep, ResetRead, ResetWrite, ResetFree, Finish,
     TickClaim, OtherEnds, chainVars
<1>2. ASSUME NEW r \in Requests, Broadcast(r)
      PROVE  UNCHANGED <<records, receipts>> /\ broadcast' = broadcast \cup {Rec(r).tx}
  BY <1>2 DEF Broadcast, Send, storeVars
<1>3. ASSUME NEW r \in Requests, OtherSends(r)
      PROVE  \E t : /\ UNCHANGED <<records, receipts>>
                    /\ broadcast' = broadcast \cup {t} /\ t.rec = 0
  <2> DEFINE t == [rec |-> 0, step |-> 0, nonce |-> PendingNonce, by |-> r]
  <2>1. Send(t) /\ UNCHANGED records /\ t.rec = 0
    BY <1>3 DEF OtherSends, storeVars
  <2> HIDE DEF t
  <2> QED BY <2>1 DEF Send
<1>4. CASE Next /\ ~(\E r \in Requests : HandlerStep(r)) /\ ~NetworkStep
  BY <1>4 DEF Next, StartBegin, StartReset, StartAdvance, StartConsent, Start, TickLook,
     Throw, Die, LeaseExpires, chainVars
<1>5. CASE NetworkStep
  BY <1>5 DEF NetworkStep, Lose
<1> QED BY <1>1, <1>2, <1>3, <1>4, <1>5 DEF vars, chainVars
---------------------------------------------------------------------------
(* How the mapping reads the chain *)

(* All that was sent for a step is one transaction. *)
LEMMA PostedOnce ==
    ASSUME LeaseInv, NEW t \in broadcast, t.rec # 0
    PROVE  Posted(t.rec, t.step) = {t} /\ Cardinality(Posted(t.rec, t.step)) = 1
<1>1. Posted(t.rec, t.step) = {t}
  BY DEF Posted, LeaseInv, IssuedInv, Issued
<1> QED BY <1>1, FS_Singleton

(* A transaction that has no receipt of success has not run its step.      *)
LEMMA NotRun ==
    ASSUME LeaseInv, DecidedInv, NEW t \in Issued,
           \A x \in receipts : x.tx = t => x.outcome # "ok"
    PROVE  Executed(t.rec, t.step) = {} /\ Cardinality(Executed(t.rec, t.step)) = 0
<1>1. \A x \in receipts : x.tx.rec = t.rec /\ x.tx.step = t.step => x.tx = t
  BY DEF DecidedInv, LeaseInv, IssuedInv, Issued
<1>2. Executed(t.rec, t.step) = {}
  BY <1>1 DEF Executed
<1> QED BY <1>2, FS_EmptySet

(* An undecided transaction's record, while it is listed, has it as its    *)
(* current one and is neither failed nor completed.                        *)
LEMMA StillDue ==
    ASSUME LeaseInv, DecidedInv, SeenInv, SerialInv, NEW t \in Issued,
           ~HasReceipt(t), records[t.rec].present
    PROVE  /\ t.step = records[t.rec].step
           /\ StatusOf(records[t.rec]) \in {"open", "review"}
<1> DEFINE rec == records[t.rec]
<1>1. t.rec \in RecordIds
  BY IssuanceAssumption DEF LeaseInv, IssuedInv, TypeInv, StoreOK, RecordIds
<1>2. rec \in Issuances /\ WellFormed(rec, t.rec) /\ t.step \in 1..ChainSteps
  BY <1>1 DEF LeaseInv, TypeInv, StoreOK, WellFormedDoc, SerialInv, IssuedDue
<1>3. rec.tx = t
  <2>1. ~HasOk(t.rec, t.step)
    BY DEF HasOk, DecidedInv, LeaseInv, IssuedInv, Issued, HasReceipt
  <2>2. ~(t.step < rec.step)
    BY <1>1, <1>2, <2>1 DEF SeenInv, Succeeded
  <2> QED BY <2>2 DEF LeaseInv, IssuedInv
<1>4. t # NoTx
  BY <1>1 DEF NoTx, RecordIds
<1>5. t.step = rec.step /\ rec.step <= ChainSteps
  BY <1>2, <1>3, <1>4 DEF WellFormed
<1>6. ~rec.completed
  <2>1. ~(rec.step > NoticeStep)
    <3>1. rec.step \in Int
      BY <1>2, <1>5
    <3> HIDE DEF rec
    <3> QED BY <1>5, <3>1, IssuanceAssumption DEF NoticeStep
  <2> QED BY <1>1, <2>1 DEF SerialInv, CompletedLast
<1>7. rec.state # "failed"
  BY <1>1, <1>3 DEF SerialInv, FailedStored, Reverted, HasReceipt
<1>8. StatusOf(rec) \in {"open", "review"}
  <2> HIDE DEF rec
  <2> QED BY <1>2, <1>6, <1>7 DEF StatusOf, Active, Halted, rec
<1> QED BY <1>5, <1>8

(* What went before an issued transaction has run. *)
LEMMA BeforeRan ==
    ASSUME LeaseInv, DecidedInv, SerialInv, NEW t \in Issued, NEW k \in 1..ChainSteps,
           k < t.step
    PROVE  Cardinality(Executed(t.rec, k)) = 1
BY RunOnce DEF SerialInv, IssuedDue, Succeeded

---------------------------------------------------------------------------
(* Postings and runs *)

(* The mapped variables. *)
Statuses == [id \in RecordIds |-> StatusOf(records[id])]
ConfirmedSteps == [id \in RecordIds |-> ConfirmedOf(records[id])]
Postings == [id \in RecordIds |-> [s \in 1..ChainSteps |-> Cardinality(Posted(id, s))]]
Runs == [id \in RecordIds |-> [s \in 1..ChainSteps |-> Cardinality(Executed(id, s))]]

(* Two tables that differ in one cell. *)
IsTable(f, A, B) == f = [x \in A |-> [y \in B |-> f[x][y]]]
DifferAt(f, g, A, B, a, b) ==
    /\ a \in A /\ b \in B
    /\ IsTable(f, A, B) /\ IsTable(g, A, B)
    /\ \A x \in A, y \in B : x # a \/ y # b => g[x][y] = f[x][y]
Sets(f, g, a, b, v) == g = [f EXCEPT ![a][b] = v]
LEMMA OneCell ==
    ASSUME NEW A, NEW B, NEW a, NEW b, NEW f, NEW g, DifferAt(f, g, A, B, a, b)
    PROVE  Sets(f, g, a, b, g[a][b])
<1> DEFINE v == g[a][b]
<1>0. /\ a \in A /\ b \in B /\ IsTable(f, A, B) /\ IsTable(g, A, B)
      /\ \A x \in A, y \in B : x # a \/ y # b => g[x][y] = f[x][y]
  BY DEF DifferAt
<1>1. \A x \in A : /\ f[x] = [y \in B |-> f[x][y]]
                   /\ g[x] = [y \in B |-> g[x][y]]
  <2> DEFINE F == [x \in A |-> [y \in B |-> f[x][y]]]
             G == [x \in A |-> [y \in B |-> g[x][y]]]
  <2>1. \A x \in A : F[x] = [y \in B |-> f[x][y]] /\ G[x] = [y \in B |-> g[x][y]]
    OBVIOUS
  <2>2. F = f /\ G = g
    BY <1>0 DEF IsTable
  <2> HIDE DEF F, G
  <2> QED BY <2>1, <2>2
<1>2. g[a] = [f[a] EXCEPT ![b] = v]
  BY <1>0, <1>1
<1>3. \A x \in A : x # a => g[x] = f[x]
  BY <1>0, <1>1
<1>4. DOMAIN f = A /\ DOMAIN g = A /\ f = [x \in A |-> f[x]] /\ g = [x \in A |-> g[x]]
  BY <1>0 DEF IsTable
<1>5. \A x \in A : g[x] = [f EXCEPT ![a] = [f[a] EXCEPT ![b] = v]][x]
  BY <1>2, <1>3, <1>4
<1>6. g = [f EXCEPT ![a] = [f[a] EXCEPT ![b] = v]]
  BY <1>4, <1>5
<1> QED BY <1>6 DEF Sets

(* How a status is read off a record. *)
LEMMA StatusCases ==
    ASSUME NEW rec
    PROVE  /\ ~rec.present => StatusOf(rec) = "absent"
           /\ rec.present /\ rec.completed => StatusOf(rec) = "issued"
           /\ rec.present /\ ~rec.completed /\ Halted(rec) => StatusOf(rec) = rec.state
           /\ Active(rec) => StatusOf(rec) = "open"
           /\ ~Active(rec) => StatusOf(rec) # "open"
<1>1. ~rec.present => StatusOf(rec) = "absent"
  BY DEF StatusOf, Active
<1>2. rec.present /\ rec.completed => StatusOf(rec) = "issued"
  BY DEF StatusOf, Active
<1>3. rec.present /\ ~rec.completed /\ Halted(rec) => StatusOf(rec) = rec.state
  BY DEF StatusOf, Active
<1>4. Active(rec) => StatusOf(rec) = "open"
  BY DEF StatusOf, Active
<1>5. ~Active(rec) => StatusOf(rec) # "open"
  BY <1>1, <1>2, <1>3 DEF Active, Halted
<1> QED BY <1>1, <1>2, <1>3, <1>4, <1>5

(* An undecided transaction is of the step its record works on. *)
DueIs(t) ==
    /\ Statuses[t.rec] \in {"absent", "open", "review"}
    /\ Statuses[t.rec] # "absent" => t.step = ConfirmedSteps[t.rec] + 1
LEMMA DueNow ==
    ASSUME LeaseInv, DecidedInv, SeenInv, SerialInv, NEW t \in Issued, ~HasReceipt(t),
           t.rec \in RecordIds, t.step \in 1..ChainSteps
    PROVE  DueIs(t)
<1>1. CASE ~records[t.rec].present
  BY <1>1, StatusCases DEF DueIs, Statuses
<1>2. CASE records[t.rec].present
  <2>1. t.step = records[t.rec].step /\ StatusOf(records[t.rec]) \in {"open", "review"}
    BY <1>2, StillDue
  <2>2. ConfirmedSteps[t.rec] = t.step - 1
    BY <1>2, <2>1 DEF ConfirmedSteps, ConfirmedOf
  <2> QED BY <2>1, <2>2 DEF DueIs, Statuses
<1> QED BY <1>1, <1>2

(* The first broadcast of a step posts it, its success runs it.            *)
LEMMA PostStep ==
    ASSUME LeaseInv, DecidedInv, SeenInv, SerialInv, NEW t \in Issued, t \notin broadcast,
           broadcast' = broadcast \cup {t}, UNCHANGED <<records, receipts>>
    PROVE  Serial!Next
<1>1. t.rec \in RecordIds /\ t.step \in 1..ChainSteps
  BY IssuanceAssumption DEF LeaseInv, IssuedInv, TypeInv, StoreOK, RecordIds,
     SerialInv, IssuedDue
<1>2. ~HasReceipt(t)
  BY DEF HasReceipt, DecidedInv
<1>3. Posted(t.rec, t.step) = {}
  BY <1>1 DEF Posted, LeaseInv, IssuedInv, Issued, RecordIds
<1>4. Posted(t.rec, t.step)' = {t}
  BY <1>3 DEF Posted
<1>5. \A id, s : id # t.rec \/ s # t.step => Posted(id, s)' = Posted(id, s)
  BY DEF Posted
<1>6. Cardinality({}) = 0 /\ Cardinality({t}) = 1
  BY FS_EmptySet, FS_Singleton
<1>7. Postings' = [Postings EXCEPT ![t.rec][t.step] = 1]
  <2> DEFINE P == Postings
             Q == Postings'
             N == 1..ChainSteps
  <2>1. IsTable(P, RecordIds, N) /\ IsTable(Q, RecordIds, N)
    BY DEF IsTable, Postings
  <2>2. Q[t.rec][t.step] = 1
    BY <1>1, <1>4, <1>6 DEF Postings
  <2>3. \A id \in RecordIds, s \in N : id # t.rec \/ s # t.step => Q[id][s] = P[id][s]
    BY <1>5 DEF Postings
  <2>4. t.rec \in RecordIds /\ t.step \in N
    BY <1>1
  <2> HIDE DEF P, Q, N
  <2>5. DifferAt(P, Q, RecordIds, N, t.rec, t.step)
    BY <2>1, <2>3, <2>4 DEF DifferAt
  <2>6. Sets(P, Q, t.rec, t.step, Q[t.rec][t.step])
    BY <2>5, OneCell
  <2> QED BY <2>2, <2>6 DEF Sets, P, Q
<1>8. Postings[t.rec][t.step] = 0
  BY <1>1, <1>3, <1>6 DEF Postings
<1>9. \A k \in 1..ChainSteps : k < t.step => Runs[t.rec][k] = 1
  BY <1>1, BeforeRan DEF Runs
<1>10. UNCHANGED <<Statuses, ConfirmedSteps, Runs>>
  BY DEF Statuses, ConfirmedSteps, Runs, Executed
<1>11. DueIs(t)
  BY <1>1, <1>2, DueNow
<1>12. Serial!Post(t.rec, t.step)
  BY <1>7, <1>8, <1>9, <1>10, <1>11 DEF Serial!Post, Serial!Due, Serial!Steps, DueIs, Statuses,
     ConfirmedSteps, Postings, Runs
<1> QED BY <1>1, <1>12 DEF Serial!Next, Serial!Steps
LEMMA RunStep ==
    ASSUME LeaseInv, DecidedInv, SeenInv, SerialInv, NEW t \in pool, NEW outcome,
           Mine(t, outcome)
    PROVE  Serial!Next \/ UNCHANGED <<Statuses, ConfirmedSteps, Postings, Runs>>
<1> DEFINE x == [tx |-> t, outcome |-> outcome]
<1>1. UNCHANGED <<Statuses, ConfirmedSteps, Postings>>
  BY DEF Mine, storeVars, Statuses, ConfirmedSteps, Postings, Posted
<1>2. receipts' = IF t.rec = 0 THEN receipts ELSE receipts \cup {x}
  BY DEF Mine
<1>3. CASE t.rec = 0 \/ outcome # "ok"
  <2>1. \A id, s : Executed(id, s)' = Executed(id, s)
    BY <1>2, <1>3 DEF Executed
  <2> QED BY <1>1, <2>1 DEF Runs
<1>4. CASE t.rec # 0 /\ outcome = "ok"
  <2>1. t \in broadcast /\ t \in Issued /\ ~HasReceipt(t)
    <3>1. t \in broadcast /\ t.nonce >= chainNonce
      BY DEF DecidedInv
    <3>2. t.nonce \in Nat /\ chainNonce \in Nat
      BY DEF LeaseInv, TypeInv, ChainOK, Txs
    <3> QED BY <1>4, <3>1, <3>2 DEF Issued, HasReceipt, DecidedInv
  <2>2. t.rec \in RecordIds /\ t.step \in 1..ChainSteps
    BY <2>1, IssuanceAssumption DEF LeaseInv, IssuedInv, TypeInv, StoreOK, RecordIds,
       SerialInv, IssuedDue
  <2>3. Executed(t.rec, t.step) = {} /\ Cardinality(Executed(t.rec, t.step)) = 0
    BY <2>1, NotRun DEF HasReceipt
  <2>4. Executed(t.rec, t.step)' = {x} /\ Cardinality({x}) = 1
    <3>1. x.tx = t /\ x.outcome = "ok"
      BY <1>4
    <3> HIDE DEF x
    <3> QED BY <1>2, <1>4, <2>3, <3>1, FS_Singleton DEF Executed
  <2>5. \A id, s : id # t.rec \/ s # t.step => Executed(id, s)' = Executed(id, s)
    BY <1>2, <1>4 DEF Executed
  <2>6. Runs' = [Runs EXCEPT ![t.rec][t.step] = 1]
    <3> DEFINE P == Runs
               Q == Runs'
               N == 1..ChainSteps
    <3>1. IsTable(P, RecordIds, N) /\ IsTable(Q, RecordIds, N)
      BY DEF IsTable, Runs
    <3>2. Q[t.rec][t.step] = 1
      BY <2>2, <2>4 DEF Runs
    <3>3. \A id \in RecordIds, s \in N : id # t.rec \/ s # t.step => Q[id][s] = P[id][s]
      BY <2>5 DEF Runs
    <3>4. t.rec \in RecordIds /\ t.step \in N
      BY <2>2
    <3> HIDE DEF P, Q, N
    <3>5. DifferAt(P, Q, RecordIds, N, t.rec, t.step)
      BY <3>1, <3>3, <3>4 DEF DifferAt
    <3>6. Sets(P, Q, t.rec, t.step, Q[t.rec][t.step])
      BY <3>5, OneCell
    <3> QED BY <3>2, <3>6 DEF Sets, P, Q
  <2>7. Runs[t.rec][t.step] = 0 /\ Postings[t.rec][t.step] = 1
    BY <1>4, <2>1, <2>2, <2>3, PostedOnce DEF Runs, Postings
  <2>8. \A k \in 1..ChainSteps : k < t.step => Runs[t.rec][k] = 1
    BY <2>1, <2>2, BeforeRan DEF Runs
  <2>9. DueIs(t)
    BY <2>1, <2>2, DueNow
  <2>10. Serial!Run(t.rec, t.step)
    BY <1>1, <2>6, <2>7, <2>8, <2>9 DEF Serial!Run, Serial!Due, Serial!Steps, DueIs, Statuses,
       ConfirmedSteps, Postings, Runs
  <2> QED BY <2>2, <2>10 DEF Serial!Next, Serial!Steps
<1> QED BY <1>3, <1>4
---------------------------------------------------------------------------
(* Saves and resets *)

(* A save changes the writer's record, which stays in the list; a reset    *)
(* takes its user's unfinished records out.                                *)
LEMMA SaveOrReset ==
    ASSUME LeaseInv, [Next]_vars
    PROVE  \/ UNCHANGED records
           \/ \E id \in RecordIds :
                 /\ \A k \in RecordIds \ {id} : records'[k] = records[k]
                 /\ records'[id].present
           \/ \E ids \in SUBSET RecordIds : \A id \in RecordIds :
                 IF id \in ids THEN /\ records'[id] = Absent
                                   /\ records[id].present /\ ~records[id].completed
                              ELSE records'[id] = records[id]
<1>1. TypeInv
  BY DEF LeaseInv
<1>2. ASSUME NEW r \in Requests, Writes(r), req[r].pc \in DocLabels
      PROVE  \E id \in RecordIds :
                /\ \A k \in RecordIds \ {id} : records'[k] = records[k]
                /\ records'[id].present
  <2>1. WritesOwn(r)
    BY <1>2, OwnRecordWritten
  <2>2. Rec(r) \in Issuances /\ req[r].id \in RecordIds /\ Rec(r).present
    BY <1>1, <1>2, RecOK DEF TypeInv, StoreOK
  <2>3. records'[req[r].id].present
    BY <2>1, <2>2 DEF WritesOwn, Issuances
  <2> QED BY <2>1, <2>2, <2>3 DEF WritesOwn
<1>3. ASSUME NEW r \in Requests, lease = r, req[r].pc = "resetWrite", records' = Kept(r)
      PROVE  \E ids \in SUBSET RecordIds : \A id \in RecordIds :
                IF id \in ids THEN /\ records'[id] = Absent
                                  /\ records[id].present /\ ~records[id].completed
                             ELSE records'[id] = records[id]
  <2>1. req[r].doc = records
    BY <1>3 DEF LeaseInv, OwnerInv, Owned, OwnerOK
  <2>2. Dropped(r) \in SUBSET RecordIds
    BY DEF Dropped, Present
  <2>3. \A id \in Dropped(r) : records[id].present /\ ~records[id].completed
    BY <2>1 DEF Dropped, Present
  <2>4. \A id \in RecordIds : records'[id] = IF id \in Dropped(r) THEN Absent ELSE records[id]
    BY <1>3, <2>1 DEF Kept
  <2> QED BY <2>2, <2>3, <2>4
<1> QED BY <1>1, <1>2, <1>3, WhoWrites DEF Writes

LEMMA SaveStep ==
    ASSUME LeaseInv, DecidedInv, SeenInv, SerialInv, LeaseInv', SerialInv', [Next]_vars,
           UNCHANGED <<receipts, broadcast>>, NEW id \in RecordIds, records'[id].present,
           \A k \in RecordIds \ {id} : records'[k] = records[k]
    PROVE  Serial!Next \/ UNCHANGED <<Statuses, ConfirmedSteps, Postings, Runs>>
<1> DEFINE old == records[id]
           new == records'[id]
<1>1. UNCHANGED <<Postings, Runs>>
  BY DEF Postings, Runs, Posted, Executed
<1>2. /\ Statuses' = [Statuses EXCEPT ![id] = StatusOf(new)]
      /\ ConfirmedSteps' = [ConfirmedSteps EXCEPT ![id] = ConfirmedOf(new)]
  <2>1. /\ Statuses' = [k \in RecordIds |-> StatusOf(records'[k])]
        /\ ConfirmedSteps' = [k \in RecordIds |-> ConfirmedOf(records'[k])]
    BY DEF Statuses, ConfirmedSteps, StatusOf, ConfirmedOf, Active, Halted
  <2> QED BY <2>1 DEF Statuses, ConfirmedSteps
<1>3. /\ old \in Issuances /\ new \in Issuances
      /\ WellFormed(new, id) /\ Legal(id)
  BY EveryStep DEF LeaseStep, LeaseInv, TypeInv, StoreOK, WellFormedDoc
<1>4. Statuses[id] = StatusOf(old) /\ ConfirmedSteps[id] = ConfirmedOf(old)
  BY DEF Statuses, ConfirmedSteps
<1>5. ASSUME StatusOf(new) = StatusOf(old), ConfirmedOf(new) = ConfirmedOf(old)
      PROVE  UNCHANGED <<Statuses, ConfirmedSteps, Postings, Runs>>
  <2>1. Statuses = [Statuses EXCEPT ![id] = Statuses[id]]
        /\ ConfirmedSteps = [ConfirmedSteps EXCEPT ![id] = ConfirmedSteps[id]]
    BY DEF Statuses, ConfirmedSteps
  <2> QED BY <1>1, <1>2, <1>4, <1>5, <2>1
<1>6. ASSUME ConfirmedOf(new) = ConfirmedOf(old)
      PROVE  ConfirmedSteps' = ConfirmedSteps
  <2>1. ConfirmedSteps = [ConfirmedSteps EXCEPT ![id] = ConfirmedSteps[id]]
    BY DEF ConfirmedSteps
  <2> QED BY <1>2, <1>4, <1>6, <2>1
<1>7. CASE Born(id)
  <2>1. ~old.present /\ new.step = 1 /\ Active(new)
    BY <1>7 DEF Born, NewRecord, Absent, Active, Halted
  <2>2. /\ StatusOf(old) = "absent" /\ StatusOf(new) = "open"
        /\ ConfirmedOf(new) = 0 /\ ConfirmedOf(old) = 0
    BY <2>1, StatusCases DEF ConfirmedOf, Active
  <2>3. \A s : Posted(id, s) = {} /\ Executed(id, s) = {}
    <3>1. id # 0
      BY IssuanceAssumption DEF RecordIds
    <3>2. \A t \in broadcast : t.rec # id
      BY <1>7, <3>1 DEF Born, Issued
    <3> QED BY <3>2 DEF Posted, Executed, DecidedInv
  <2>4. Postings[id] = Serial!Never /\ Runs[id] = Serial!Never
    BY <2>3, FS_EmptySet DEF Postings, Runs, Serial!Never, Serial!Steps
  <2>5. \A k \in RecordIds : Statuses[k] # "open"
    BY <1>7, StatusCases DEF Born, Statuses
  <2>6. Serial!Begin(id)
    BY <1>1, <1>2, <1>4, <1>6, <2>2, <2>4, <2>5 DEF Serial!Begin, Statuses, ConfirmedSteps,
       Postings, Runs
  <2> QED BY <2>6 DEF Serial!Next
<1>8. CASE Active(old) /\ Grown(old, new)
  <2>1. /\ old.present /\ ~old.completed /\ StatusOf(old) = "open"
        /\ ConfirmedOf(old) = old.step - 1 /\ ConfirmedOf(new) = new.step - 1
        /\ ~Halted(old)
    BY <1>8, StatusCases DEF Active, ConfirmedOf
  <2>2. old.step \in 1..(NoticeStep + 1) /\ new.step \in 1..(NoticeStep + 1)
    BY <1>3 DEF Issuances
  <2>3. ChainSteps \in Nat /\ NoticeStep = ChainSteps + 1
    BY IssuanceAssumption DEF NoticeStep
  <2>4. Succeeded(id, old.step) /\ Succeeded(id, new.step)
    BY <2>1, StoreStep DEF SeenInv
  <2>5. ASSUME NEW s \in 1..ChainSteps, NEW n, Succeeded(id, n), s < n PROVE Runs[id][s] = 1
    BY <2>5, RunOnce DEF Runs, Succeeded
  <2>6. CASE new = NextStep(old)
    <3>1. /\ new.step = old.step + 1 /\ new.present /\ ~new.completed
          /\ new.state = "queued"
      BY <1>3, <2>1, <2>6 DEF NextStep, Issuances
    <3>2. StatusOf(new) = "open"
      BY <3>1, StatusCases DEF Active, Halted
    <3> HIDE DEF old, new
    <3>3. old.step <= ChainSteps => Runs[id][old.step] = 1
      BY <2>2, <2>3, <2>4, <2>5, <3>1
    <3>4. ConfirmedSteps[id] \in 0..ChainSteps /\ ConfirmedSteps[id] + 1 = old.step
          /\ ConfirmedOf(new) = ConfirmedSteps[id] + 1
      BY <1>4, <2>1, <2>2, <2>3, <3>1
    <3>5. ConfirmedSteps[id] < ChainSteps => Runs[id][ConfirmedSteps[id] + 1] = 1
      <4>1. ConfirmedSteps[id] < ChainSteps => old.step <= ChainSteps
        BY <2>3, <3>4
      <4> QED BY <3>3, <3>4, <4>1
    <3>6. Statuses' = Statuses
      <4>1. Statuses = [Statuses EXCEPT ![id] = Statuses[id]]
        BY DEF Statuses
      <4> QED BY <1>2, <1>4, <2>1, <3>2, <4>1
    <3>7. ConfirmedSteps[id] <= ChainSteps /\ ConfirmedOf(new) = ConfirmedSteps[id] + 1
      BY <2>3, <3>4
    <3>8. Serial!Confirm(id)
      BY <1>1, <1>2, <1>4, <2>1, <3>5, <3>6, <3>7 DEF Serial!Confirm, Statuses,
         ConfirmedSteps, Postings, Runs
    <3> QED BY <3>8 DEF Serial!Next
  <2>7. ASSUME NEW st \in {"failed", "review"}, new = [old EXCEPT !.state = st],
               old.step <= ChainSteps
        PROVE  Serial!Next
    <3>1. /\ new.present /\ ~new.completed /\ new.state = st /\ new.step = old.step
      BY <1>3, <2>1, <2>7 DEF Issuances
    <3>2. StatusOf(new) = st /\ ConfirmedOf(new) = ConfirmedOf(old)
      BY <2>1, <3>1, StatusCases DEF Halted
    <3>3. old.step \in 1..ChainSteps /\ ConfirmedSteps[id] + 1 = old.step
          /\ ConfirmedSteps[id] < ChainSteps
      <4> HIDE DEF old, new
      <4> QED BY <1>4, <2>1, <2>2, <2>3, <2>7
    <3>4. CASE st = "review"
      <4>1. Serial!Review(id)
        BY <1>1, <1>2, <1>4, <1>6, <2>1, <3>2, <3>3, <3>4 DEF Serial!Review, Statuses,
           ConfirmedSteps, Postings, Runs
      <4> QED BY <4>1 DEF Serial!Next
    <3>5. CASE st = "failed"
      <4>1. PICK x \in receipts : x.tx = new.tx /\ x.outcome = "reverted"
        BY <3>1, <3>5 DEF SerialInv, FailedStored, Reverted
      <4>2. x.tx \in broadcast /\ x.tx.rec # 0
        BY <4>1 DEF DecidedInv
      <4>3. x.tx.rec = id /\ x.tx.step = old.step
        BY <1>3, <3>1, <4>1, <4>2 DEF WellFormed, NoTx
      <4>4. Postings[id][old.step] = 1
        BY <3>3, <4>2, <4>3, PostedOnce DEF Postings
      <4>5. \A y \in receipts : y.tx = x.tx => y.outcome # "ok"
        BY <4>1 DEF DecidedInv
      <4>6. x.tx \in Issued
        BY <4>2 DEF Issued
      <4>7. Runs[id][old.step] = 0
        BY <3>3, <4>3, <4>5, <4>6, NotRun DEF Runs
      <4>8. Serial!Fail(id)
        BY <1>1, <1>2, <1>4, <1>6, <2>1, <3>2, <3>3, <3>5, <4>4, <4>7 DEF Serial!Fail,
           Statuses, ConfirmedSteps, Postings, Runs
      <4> QED BY <4>8 DEF Serial!Next
    <3> QED BY <3>4, <3>5
  <2>8. CASE old.step > NoticeStep /\ new = [old EXCEPT !.completed = TRUE]
    <3>1. new.present /\ new.completed /\ new.step = old.step
      BY <1>3, <2>1, <2>8 DEF Issuances
    <3>2. StatusOf(new) = "issued" /\ ConfirmedOf(new) = ConfirmedOf(old)
      BY <2>1, <3>1, StatusCases
    <3>3. ConfirmedSteps[id] = ChainSteps + 1 /\ \A s \in 1..ChainSteps : Runs[id][s] = 1
      <4> HIDE DEF old, new
      <4> QED BY <1>4, <2>1, <2>2, <2>3, <2>4, <2>5, <2>8
    <3>4. Serial!Complete(id)
      BY <1>1, <1>2, <1>4, <1>6, <2>1, <3>2, <3>3 DEF Serial!Complete, Serial!Steps, Statuses,
         ConfirmedSteps, Postings, Runs
    <3> QED BY <3>4 DEF Serial!Next
  <2>9. CASE Signs(old, new) \/ new = [old EXCEPT !.attempts = old.attempts + 1]
    <3>1. Active(new) /\ new.step = old.step
      BY <1>3, <1>8, <2>9 DEF Signs, Active, Halted, Issuances
    <3>2. StatusOf(new) = StatusOf(old) /\ ConfirmedOf(new) = ConfirmedOf(old)
      BY <2>1, <3>1, StatusCases
    <3> QED BY <1>5, <3>2
  <2> QED BY <1>8, <2>6, <2>7, <2>8, <2>9 DEF Grown, Change
<1>9. CASE new = old
  BY <1>5, <1>9
<1>10. new # Absent
  BY DEF Absent
<1> QED BY <1>3, <1>7, <1>8, <1>9, <1>10 DEF Legal

LEMMA DropStep ==
    ASSUME LeaseInv, UNCHANGED <<receipts, broadcast>>, NEW ids \in SUBSET RecordIds,
           \A id \in RecordIds :
              IF id \in ids THEN /\ records'[id] = Absent
                                /\ records[id].present /\ ~records[id].completed
                           ELSE records'[id] = records[id]
    PROVE  Serial!Next
<1>1. UNCHANGED <<Postings, Runs>>
  BY DEF Postings, Runs, Posted, Executed
<1>2. StatusOf(Absent) = "absent" /\ ConfirmedOf(Absent) = 0
  BY StatusCases DEF Absent, ConfirmedOf
<1>3. \A id \in RecordIds :
        /\ StatusOf(records'[id]) = IF id \in ids THEN "absent" ELSE Statuses[id]
        /\ ConfirmedOf(records'[id]) = IF id \in ids THEN 0 ELSE ConfirmedSteps[id]
  BY <1>2 DEF Statuses, ConfirmedSteps
<1>4. /\ Statuses' = [id \in RecordIds |-> IF id \in ids THEN "absent" ELSE Statuses[id]]
      /\ ConfirmedSteps' = [id \in RecordIds |-> IF id \in ids THEN 0 ELSE ConfirmedSteps[id]]
  <2>1. /\ Statuses' = [k \in RecordIds |-> StatusOf(records'[k])]
        /\ ConfirmedSteps' = [k \in RecordIds |-> ConfirmedOf(records'[k])]
    BY DEF Statuses, ConfirmedSteps, StatusOf, ConfirmedOf, Active, Halted
  <2> QED BY <1>3, <2>1
<1>5. ASSUME NEW id \in ids PROVE Statuses[id] \in {"open", "review", "failed"}
  <2>1. records[id].present /\ ~records[id].completed /\ id \in RecordIds
    OBVIOUS
  <2>2. CASE Halted(records[id])
    BY <2>1, <2>2, StatusCases DEF Statuses, Halted
  <2>3. CASE ~Halted(records[id])
    BY <2>1, <2>3, StatusCases DEF Statuses, Active
  <2> QED BY <2>2, <2>3
<1>6. Serial!Drop(ids)
  BY <1>1, <1>4, <1>5 DEF Serial!Drop, Statuses, ConfirmedSteps, Postings, Runs
<1> QED BY <1>6 DEF Serial!Next

(* The requests that share the agent bank's account, with every throw,     *)
(* death, lost lease and lost transaction among their steps, implement the *)
(* serial issuance of loans (web/src/lib/issuance.ts, reset.ts).           *)
THEOREM IssuanceRefinement == Spec => ImplementsSerialIssuance
<1> DEFINE Inv == LeaseInv /\ DecidedInv /\ SeenInv /\ SerialInv
<1>1. Init => Serial!Init
  <2> SUFFICES ASSUME Init PROVE Serial!Init
    OBVIOUS
  <2>1. \A id \in RecordIds : StatusOf(records[id]) = "absent" /\ ConfirmedOf(records[id]) = 0
    BY StatusCases DEF Init, NoDoc, Absent, ConfirmedOf
  <2>2. \A id, s : Cardinality(Posted(id, s)) = 0 /\ Cardinality(Executed(id, s)) = 0
    <3>1. \A id, s : Posted(id, s) = {} /\ Executed(id, s) = {}
      BY DEF Init, Posted, Executed
    <3> QED BY <3>1, FS_EmptySet
  <2> QED BY <2>1, <2>2 DEF Serial!Init, Serial!Never, Serial!Steps
<1>2. Inv /\ Inv' /\ [Next]_vars => [Serial!Next]_(Serial!vars)
  <2> SUFFICES ASSUME Inv, Inv', [Next]_vars
               PROVE  Serial!Next \/ UNCHANGED Serial!vars
    OBVIOUS
  <2>1. ASSUME UNCHANGED <<Statuses, ConfirmedSteps, Postings, Runs>>
        PROVE  UNCHANGED Serial!vars
    BY <2>1 DEF Serial!vars, Statuses, ConfirmedSteps, Postings, Runs
  <2>2. CASE UNCHANGED <<receipts, broadcast>>
    <3>1. CASE UNCHANGED records
      <4>1. UNCHANGED <<Statuses, ConfirmedSteps, Postings, Runs>>
        BY <2>2, <3>1 DEF Statuses, ConfirmedSteps, Postings, Runs, Posted, Executed
      <4> QED BY <2>1, <4>1
    <3>2. ASSUME NEW id \in RecordIds, records'[id].present,
                 \A k \in RecordIds \ {id} : records'[k] = records[k]
          PROVE  Serial!Next \/ UNCHANGED Serial!vars
      BY <2>1, <2>2, <3>2, SaveStep
    <3>3. ASSUME NEW ids \in SUBSET RecordIds,
                 \A id \in RecordIds :
                    IF id \in ids THEN /\ records'[id] = Absent
                                      /\ records[id].present /\ ~records[id].completed
                                 ELSE records'[id] = records[id]
          PROVE  Serial!Next
      BY <2>2, <3>3, DropStep
    <3> QED BY <3>1, <3>2, <3>3, SaveOrReset
  <2>3. ASSUME NEW r \in Requests, NEW t, UNCHANGED <<records, receipts>>,
               broadcast' = broadcast \cup {t}, t.rec = 0 \/ (Broadcast(r) /\ t = Rec(r).tx)
        PROVE  Serial!Next \/ UNCHANGED Serial!vars
    <3>1. CASE t \in broadcast \/ t.rec = 0
      <4>1. \A id \in RecordIds : \A s : Posted(id, s)' = Posted(id, s)
        BY <2>3, <3>1 DEF Posted, RecordIds
      <4>2. UNCHANGED <<Statuses, ConfirmedSteps, Postings, Runs>>
        BY <2>3, <4>1 DEF Statuses, ConfirmedSteps, Postings, Runs, Executed
      <4> QED BY <2>1, <4>2
    <3>2. CASE t \notin broadcast /\ t.rec # 0
      <4>1. req[r].pc = "broadcast" /\ t = Rec(r).tx
        BY <2>3, <3>2 DEF Broadcast, At
      <4>2. t \in Issued
        <5>1. Rec(r).tx # NoTx
          BY <4>1 DEF LeaseInv, TypeInv, ReqOK, LocalOK, SentLabels, Rec
        <5> QED BY <4>1, <5>1 DEF Issued, HeldLabels, DocLabels
      <4> QED BY <2>3, <3>2, <4>2, PostStep
    <3> QED BY <3>1, <3>2
  <2>4. ASSUME NEW t \in pool, NEW outcome, Mine(t, outcome)
        PROVE  Serial!Next \/ UNCHANGED Serial!vars
    BY <2>1, <2>4, RunStep
  <2> QED BY <2>2, <2>3, <2>4, StepParts
<1> QED BY <1>1, <1>2, SerialInvariant, PTL DEF Spec, ImplementsSerialIssuance, Serial!Spec
===========================================================================
