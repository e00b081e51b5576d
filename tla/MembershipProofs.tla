-------------------------- MODULE MembershipProofs --------------------------
(***************************************************************************)
(* What an approval write acknowledges is in Redis, for any instances,     *)
(* users, requests and bounds (Membership).                                *)
(*                                                                         *)
(* The argument.  A request that waits for its SETs waits for a number of  *)
(* them, "due", counted from the head of its instance's queue.  The last   *)
(* of these, the due-th snapshot of the queue, carries the desk's progress *)
(* (Good); each SET that settles takes one from the queue and one from     *)
(* due, so the snapshot keeps its place; and when due is 0 and none was    *)
(* rejected, that snapshot is one that landed.                             *)
(***************************************************************************)
EXTENDS Membership, SequenceTheorems, TLAPS

Entries == [id : Nat, user : Users, setup : Nat]
Docs == SUBSET Entries
Phases == {"idle", "provision", "withdraw", "store", "work", "settle"}
CallSet == [inst : Instances \cup {NoInstance}, pc : Phases, desk : Nat,
            user : Users \cup {NoCall}, seen : Docs \cup {Unset, NoAnswer},
            due : Nat, bad : BOOLEAN]

DocsOK ==
    /\ durable \in Docs \cup {Unset}
    /\ cache \in [Instances -> Docs \cup {Unset}]
    /\ outbox \in [Instances -> Seq(Docs)]
    /\ answer \in [Instances -> Docs \cup {Unset, NoAnswer}]
TypeOK ==
    /\ DocsOK
    /\ wallets \in Seq(Users)
    /\ call \in [Calls -> CallSet]
    /\ lease \in Calls \cup {NoCall}
    /\ bad \in [Instances -> BOOLEAN]
    /\ acked \subseteq Nat /\ stored \subseteq Nat
    /\ approvals \in Nat /\ upsets \in Nat

Carries(doc, n) == \E d \in doc : d.id = n /\ d.setup > 0

(* A request is on an instance that has hydrated; one that settles waits   *)
(* for a snapshot that carries its desk's progress.                        *)
Good(k, copies, queues, held) ==
    k.pc # "idle" =>
        /\ k.inst \in Instances /\ copies[k.inst] \in Docs
        /\ k.pc = "provision" => k.user \in Users
        /\ k.pc = "store" => k.seen \in Docs \cup {Unset}
        /\ k.pc = "settle" =>
              /\ k.due <= Len(queues[k.inst])
              /\ k.due > 0 => Carries(queues[k.inst][k.due], k.desk)
              /\ k.due = 0 /\ ~k.bad => k.desk \in held

MemberInv ==
    /\ TypeOK
    /\ \A c \in Calls : Good(call[c], cache, outbox, stored)
    /\ AcknowledgedMeansStored

-----------------------------------------------------------------------------
(* Documents *)

Grows(q, p) == Len(q) <= Len(p) /\ \A n \in 1..Len(q) : p[n] = q[n]
Tame == \A j \in Instances : /\ cache[j] \in Docs => cache'[j] \in Docs
                             /\ Grows(outbox[j], outbox'[j])

LEMMA WriteTame ==
    ASSUME DocsOK, NEW i \in Instances, NEW doc \in Docs, Write(i, doc)
    PROVE  /\ DocsOK' /\ Tame
           /\ cache'[i] = doc
           /\ Len(outbox'[i]) = Len(outbox[i]) + 1 /\ outbox'[i][Len(outbox'[i])] = doc
<1>1. /\ cache' = [cache EXCEPT ![i] = doc] /\ outbox' = [outbox EXCEPT ![i] = Append(@, doc)]
      /\ durable' = durable /\ answer' = answer
  BY MembershipAssumption DEF Write
<1>2. outbox[i] \in Seq(Docs) /\ \A j \in Instances : Len(outbox[j]) \in Nat
  BY LenProperties DEF DocsOK
<1>3. /\ Append(outbox[i], doc) \in Seq(Docs)
      /\ Len(Append(outbox[i], doc)) = Len(outbox[i]) + 1
      /\ \A n \in 1..Len(outbox[i]) : Append(outbox[i], doc)[n] = outbox[i][n]
      /\ Append(outbox[i], doc)[Len(outbox[i]) + 1] = doc
  BY <1>2, AppendProperties
<1> DEFINE q == Append(outbox[i], doc)
<1> HIDE DEF q
<1>4. outbox' = [outbox EXCEPT ![i] = q]
  BY <1>1 DEF q
<1>5. DocsOK'
  BY <1>1, <1>3, <1>4 DEF DocsOK, q
<1>6. cache'[i] = doc /\ outbox'[i] = q
  BY <1>1, <1>4 DEF DocsOK
<1>7. \A j \in Instances \ {i} : cache'[j] = cache[j] /\ outbox'[j] = outbox[j]
  BY <1>1, <1>4 DEF DocsOK
<1>8. Tame
  <2>1. Len(outbox[i]) <= Len(q) /\ \A n \in 1..Len(outbox[i]) : q[n] = outbox[i][n]
    BY <1>2, <1>3 DEF q
  <2>2. cache'[i] \in Docs /\ Grows(outbox[i], outbox'[i])
    BY <1>6, <2>1 DEF Grows
  <2>3. ASSUME NEW j \in Instances \ {i}
        PROVE  cache'[j] = cache[j] /\ Grows(outbox[j], outbox'[j])
    BY <1>2, <1>7 DEF Grows
  <2> QED BY <2>2, <2>3 DEF Tame
<1> QED BY <1>3, <1>5, <1>6, <1>8 DEF q

LEMMA StillTame ==
    ASSUME DocsOK, UNCHANGED docVars
    PROVE  DocsOK' /\ Tame
<1>1. durable' = durable /\ cache' = cache /\ outbox' = outbox /\ answer' = answer
  BY DEF docVars
<1>2. \A j \in Instances : Len(outbox[j]) \in Nat
  BY LenProperties DEF DocsOK
<1> QED BY <1>1, <1>2 DEF DocsOK, Tame, Grows

LEMMA HydrateTame ==
    ASSUME DocsOK, NEW i \in Instances, HydrateAsks(i) \/ HydrateStores(i)
    PROVE  DocsOK' /\ Tame
<1>1. \A j \in Instances : Len(outbox[j]) \in Nat
  BY LenProperties DEF DocsOK
<1>2. CASE HydrateAsks(i)
  <2>1. /\ answer' = [answer EXCEPT ![i] = durable]
        /\ durable' = durable /\ cache' = cache /\ outbox' = outbox
    BY <1>2 DEF HydrateAsks
  <2> QED BY <1>1, <2>1 DEF DocsOK, Tame, Grows
<1>3. CASE HydrateStores(i)
  <2> DEFINE doc == Hydrated(cache[i], answer[i])
  <2>1. /\ answer[i] # NoAnswer /\ cache' = [cache EXCEPT ![i] = doc]
        /\ answer' = [answer EXCEPT ![i] = NoAnswer]
        /\ durable' = durable /\ outbox' = outbox
    BY <1>3 DEF HydrateStores, DocsOK
  <2>2. doc \in Docs
    BY <2>1, MembershipAssumption DEF Hydrated, DocsOK, Docs
  <2> HIDE DEF doc
  <2> QED BY <1>1, <2>1, <2>2 DEF DocsOK, Tame, Grows
<1> QED BY <1>2, <1>3

-----------------------------------------------------------------------------
(* Calls *)

LEMMA GoodStays ==
    ASSUME NEW k \in CallSet, NEW copies, NEW queues, NEW held, Good(k, copies, queues, held),
           NEW copies2, NEW queues2, NEW held2, held \subseteq held2,
           \A j \in Instances : /\ Len(queues[j]) \in Nat /\ Len(queues2[j]) \in Nat
                                /\ copies[j] \in Docs => copies2[j] \in Docs
                                /\ Grows(queues[j], queues2[j])
    PROVE  Good(k, copies2, queues2, held2)
<1> SUFFICES ASSUME k.pc # "idle"
             PROVE  Good(k, copies2, queues2, held2)
  BY DEF Good
<1>1. k.inst \in Instances /\ copies[k.inst] \in Docs /\ k.due \in Nat
  BY DEF Good, CallSet
<1>2. ASSUME k.pc = "settle"
      PROVE  /\ k.due <= Len(queues2[k.inst])
             /\ k.due > 0 => queues2[k.inst][k.due] = queues[k.inst][k.due]
  <2>1. k.due <= Len(queues[k.inst])
    BY <1>2 DEF Good
  <2>2. k.due > 0 => k.due \in 1..Len(queues[k.inst])
    BY <1>1, <2>1
  <2> QED BY <1>1, <2>1, <2>2 DEF Grows
<1> QED BY <1>1, <1>2 DEF Good

(* The documents lose nothing a call waits for, and no call but a good one *)
(* is changed.                                                             *)
LEMMA CallsMove ==
    ASSUME MemberInv, DocsOK', Tame, call' \in [Calls -> CallSet],
           \A x \in Calls : call'[x] = call[x] \/ Good(call'[x], cache', outbox', stored),
           wallets' \in Seq(Users), lease' \in Calls \cup {NoCall},
           bad' \in [Instances -> BOOLEAN], stored' = stored,
           acked' \subseteq stored, approvals' \in Nat, upsets' \in Nat
    PROVE  MemberInv'
<1>1. TypeOK /\ DocsOK /\ stored \subseteq Nat
  BY DEF MemberInv, TypeOK
<1>2. TypeOK'
  BY <1>1 DEF TypeOK
<1>3. \A j \in Instances : Len(outbox[j]) \in Nat /\ Len(outbox'[j]) \in Nat
  BY <1>1, LenProperties DEF DocsOK
<1>4. ASSUME NEW x \in Calls
      PROVE  Good(call'[x], cache', outbox', stored)
  <2>1. CASE call'[x] = call[x]
    <3>1. call[x] \in CallSet /\ Good(call[x], cache, outbox, stored)
      BY <1>1 DEF TypeOK, MemberInv
    <3> QED BY <1>3, <2>1, <3>1, GoodStays DEF Tame
  <2> QED BY <2>1
<1> QED BY <1>2, <1>4 DEF MemberInv, AcknowledgedMeansStored

(* The shape of a handler's step. *)
LEMMA OneCallMoves ==
    ASSUME MemberInv, DocsOK', Tame, NEW c \in Calls, NEW k \in CallSet,
           call' = [call EXCEPT ![c] = k], Good(k, cache', outbox', stored),
           wallets' \in Seq(Users), lease' \in Calls \cup {NoCall},
           bad' \in [Instances -> BOOLEAN], stored' = stored,
           acked' \subseteq stored, approvals' \in Nat, upsets' \in Nat
    PROVE  MemberInv'
<1>1. call \in [Calls -> CallSet]
  BY DEF MemberInv, TypeOK
<1>2. /\ call' \in [Calls -> CallSet]
      /\ \A x \in Calls : call'[x] = call[x] \/ Good(call'[x], cache', outbox', stored)
  BY <1>1
<1> QED BY <1>2, CallsMove

LEMMA IdleGood ==
    /\ Idle \in CallSet /\ Idle.pc = "idle"
    /\ \A copies, queues, held : Good(Idle, copies, queues, held)
BY DEF Idle, CallSet, Phases, Good

LEMMA CallFacts ==
    ASSUME MemberInv, NEW c \in Calls
    PROVE  /\ call[c] \in CallSet /\ call[c].due \in Nat /\ call[c].desk \in Nat
           /\ call[c].pc # "idle" => call[c].inst \in Instances /\ cache[call[c].inst] \in Docs
           /\ TypeOK /\ DocsOK /\ acked \subseteq stored
BY DEF MemberInv, TypeOK, CallSet, Good, AcknowledgedMeansStored

-----------------------------------------------------------------------------
(* Requests begin *)

LEMMA SignInKeeps ==
    ASSUME MemberInv, NEW c \in Calls, NEW i \in Instances, NEW u \in Users, SignIn(c, i, u)
    PROVE  MemberInv'
<1> DEFINE k == [Idle EXCEPT !.inst = i, !.user = u, !.pc = "provision"]
<1>1. /\ call' = [call EXCEPT ![c] = k] /\ Warm(i) /\ UNCHANGED docVars
      /\ wallets' = wallets /\ lease' = lease /\ bad' = bad /\ acked' = acked
      /\ stored' = stored /\ approvals' = approvals /\ upsets' = upsets
  BY DEF SignIn, history, bounds
<1>2. /\ k \in CallSet /\ k.pc = "provision" /\ k.inst = i /\ k.user = u
  BY DEF Idle, CallSet, Phases
<1>3. TypeOK /\ DocsOK /\ acked \subseteq stored
  BY CallFacts
<1>4. cache' = cache /\ cache[i] \in Docs
  BY <1>1, <1>3, MembershipAssumption DEF Warm, DocsOK, docVars
<1> HIDE DEF k
<1>5. Good(k, cache', outbox', stored)
  BY <1>2, <1>4 DEF Good
<1> QED BY <1>1, <1>2, <1>3, <1>5, StillTame, OneCallMoves DEF TypeOK

LEMMA BeginKeeps ==
    ASSUME MemberInv, NEW c \in Calls, NEW i \in Instances, Warm(i), NEW d \in Read(i),
           BeginReset(c, i, d) \/ BeginApproval(c, i, d)
    PROVE  MemberInv'
<1>1. TypeOK /\ DocsOK /\ acked \subseteq stored
  BY CallFacts
<1>2. cache[i] \in Docs /\ d.id \in Nat
  BY <1>1, MembershipAssumption DEF Warm, Read, DocsOK, Docs, Entries
<1>3. CASE BeginReset(c, i, d)
  <2> DEFINE k == [Idle EXCEPT !.inst = i, !.desk = d.id, !.pc = "withdraw"]
  <2>1. /\ call' = [call EXCEPT ![c] = k] /\ UNCHANGED docVars
        /\ wallets' = wallets /\ lease' = lease /\ bad' = bad /\ acked' = acked
        /\ stored' = stored /\ approvals' = approvals /\ upsets' = upsets + 1
    BY <1>3 DEF BeginReset, history
  <2>2. k \in CallSet /\ k.pc = "withdraw" /\ k.inst = i
    BY <1>2 DEF Idle, CallSet, Phases
  <2> HIDE DEF k
  <2>3. Good(k, cache', outbox', stored)
    BY <1>2, <2>1, <2>2 DEF Good, docVars
  <2>4. DocsOK' /\ Tame
    BY <1>1, <2>1, StillTame
  <2>5. /\ wallets' \in Seq(Users) /\ lease' \in Calls \cup {NoCall} /\ stored' = stored
        /\ bad' \in [Instances -> BOOLEAN] /\ acked' \subseteq stored
        /\ approvals' \in Nat /\ upsets' \in Nat
    BY <1>1, <2>1 DEF TypeOK
  <2> QED BY <2>1, <2>2, <2>3, <2>4, <2>5, OneCallMoves
<1>4. CASE BeginApproval(c, i, d)
  <2> DEFINE k == [Idle EXCEPT !.inst = i, !.desk = d.id, !.seen = durable, !.pc = "store"]
  <2>1. /\ call' = [call EXCEPT ![c] = k] /\ UNCHANGED docVars
        /\ wallets' = wallets /\ lease' = c /\ bad' = bad /\ acked' = acked
        /\ stored' = stored /\ approvals' = approvals + 1 /\ upsets' = upsets
    BY <1>4 DEF BeginApproval, history
  <2>2. k \in CallSet /\ k.pc = "store" /\ k.inst = i /\ k.seen \in Docs \cup {Unset}
    BY <1>1, <1>2 DEF Idle, CallSet, Phases, DocsOK
  <2> HIDE DEF k
  <2>3. Good(k, cache', outbox', stored)
    BY <1>2, <2>1, <2>2 DEF Good, docVars
  <2>4. DocsOK' /\ Tame
    BY <1>1, <2>1, StillTame
  <2>5. /\ wallets' \in Seq(Users) /\ lease' \in Calls \cup {NoCall} /\ stored' = stored
        /\ bad' \in [Instances -> BOOLEAN] /\ acked' \subseteq stored
        /\ approvals' \in Nat /\ upsets' \in Nat
    BY <1>1, <2>1 DEF TypeOK
  <2> QED BY <2>1, <2>2, <2>3, <2>4, <2>5, OneCallMoves
<1> QED BY <1>3, <1>4

-----------------------------------------------------------------------------
(* Requests go on *)

LEMMA DocumentKeeps ==
    ASSUME MemberInv, NEW c \in Calls, Provision(c) \/ DropDesk(c)
    PROVE  MemberInv'
<1> DEFINE i == call[c].inst
<1>1. /\ TypeOK /\ DocsOK /\ acked \subseteq stored /\ call[c] \in CallSet /\ call[c].desk \in Nat
      /\ call[c].pc # "idle" => i \in Instances /\ cache[i] \in Docs
  BY CallFacts
<1>2. Read(i) = cache[i]
  BY MembershipAssumption DEF Read
<1>3. CASE Provision(c)
  <2> DEFINE n == Len(wallets) + 1
             entry == [id |-> n, user |-> call[c].user, setup |-> 0]
             doc == Without(cache[i], n) \cup {entry}
  <2>1. /\ call[c].pc = "provision" /\ Write(i, doc)
        /\ wallets' = Append(wallets, call[c].user) /\ call' = [call EXCEPT ![c] = Idle]
        /\ lease' = lease /\ bad' = bad /\ acked' = acked
        /\ stored' = stored /\ approvals' = approvals /\ upsets' = upsets
    BY <1>2, <1>3 DEF Provision, At, Here, history, bounds
  <2>2. call[c].user \in Users
    BY <2>1 DEF MemberInv, Good
  <2>3. n \in Nat /\ wallets' \in Seq(Users)
    BY <1>1, <2>1, <2>2, LenProperties, AppendProperties DEF TypeOK
  <2>4. entry \in Entries
    BY <2>2, <2>3 DEF Entries
  <2>5. doc \in Docs /\ i \in Instances
    BY <1>1, <2>1, <2>4 DEF Docs, Without
  <2> HIDE DEF doc, n, entry, i
  <2>6. DocsOK' /\ Tame
    BY <1>1, <2>1, <2>5, WriteTame
  <2> QED BY <1>1, <2>1, <2>3, <2>6, IdleGood, OneCallMoves DEF TypeOK
<1>4. CASE DropDesk(c)
  <2> DEFINE doc == Without(cache[i], call[c].desk)
  <2>1. /\ call[c].pc = "withdraw" /\ Write(i, doc) /\ call' = [call EXCEPT ![c] = Idle]
        /\ wallets' = wallets /\ lease' = lease /\ bad' = bad /\ acked' = acked
        /\ stored' = stored /\ approvals' = approvals /\ upsets' = upsets
    BY <1>2, <1>4 DEF DropDesk, At, Here, history, bounds
  <2>2. doc \in Docs /\ i \in Instances
    BY <1>1, <2>1 DEF Docs, Without
  <2> HIDE DEF doc, i
  <2>3. DocsOK' /\ Tame
    BY <1>1, <2>1, <2>2, WriteTame
  <2> QED BY <1>1, <2>1, <2>3, IdleGood, OneCallMoves DEF TypeOK
<1> QED BY <1>3, <1>4

LEMMA RemoveKeeps ==
    ASSUME MemberInv, NEW i \in Instances, Warm(i), NEW d \in Read(i), RemoveDesk(i, d)
    PROVE  MemberInv'
<1> DEFINE doc == Without(cache[i], d.id)
<1>1. TypeOK /\ DocsOK /\ acked \subseteq stored
  BY DEF MemberInv, TypeOK, AcknowledgedMeansStored
<1>2. /\ Write(i, doc) /\ call' = call
      /\ wallets' = wallets /\ lease' = lease /\ bad' = bad /\ acked' = acked
      /\ stored' = stored /\ approvals' = approvals /\ upsets' = upsets + 1
  BY MembershipAssumption DEF RemoveDesk, Read, history
<1>3. doc \in Docs
  BY <1>1, MembershipAssumption DEF Warm, DocsOK, Docs, Without
<1> HIDE DEF doc
<1>4. DocsOK' /\ Tame
  BY <1>1, <1>2, <1>3, WriteTame
<1> QED BY <1>1, <1>2, <1>4, CallsMove DEF TypeOK

LEMMA StrictKeeps ==
    ASSUME MemberInv, NEW c \in Calls, StrictStores(c)
    PROVE  MemberInv'
<1> DEFINE i == call[c].inst
           doc == HydratedStrictly(call[c].seen)
           k == [call[c] EXCEPT !.seen = NoAnswer, !.pc = "work"]
<1>1. /\ TypeOK /\ DocsOK /\ acked \subseteq stored /\ call[c] \in CallSet
      /\ call[c].pc # "idle" => i \in Instances /\ cache[i] \in Docs
  BY CallFacts
<1>2. /\ call[c].pc = "store" /\ cache' = [cache EXCEPT ![i] = doc]
      /\ durable' = durable /\ outbox' = outbox /\ answer' = answer
      /\ wallets' = wallets /\ lease' = lease /\ bad' = bad /\ acked' = acked
      /\ stored' = stored /\ approvals' = approvals /\ upsets' = upsets
  BY DEF StrictStores, At, Here, history, bounds
<1>3. call' = [call EXCEPT ![c] = k]
  BY <1>1 DEF StrictStores, TypeOK, CallSet
<1>4. k \in CallSet /\ k.pc = "work" /\ k.inst = i
  BY <1>1 DEF CallSet, Phases
<1>5. call[c].seen \in Docs \cup {Unset}
  BY <1>2 DEF MemberInv, Good
<1>6. doc \in Docs
  BY <1>5, MembershipAssumption DEF HydratedStrictly, Docs
<1> HIDE DEF doc, k, i
<1>7. \A j \in Instances : Len(outbox[j]) \in Nat
  BY <1>1, LenProperties DEF DocsOK
<1>8. DocsOK' /\ Tame
  BY <1>1, <1>2, <1>6, <1>7 DEF DocsOK, Tame, Grows
<1>9. Good(k, cache', outbox', stored)
  BY <1>1, <1>2, <1>4, <1>6 DEF Good, DocsOK
<1> QED BY <1>1, <1>2, <1>3, <1>4, <1>8, <1>9, OneCallMoves DEF TypeOK

(* The snapshot a call will wait for is the last of its instance's queue.  *)
LEMMA ProgressKeeps ==
    ASSUME MemberInv, NEW c \in Calls, RecordProgress(c)
    PROVE  MemberInv'
<1> DEFINE i == call[c].inst
<1>1. /\ TypeOK /\ DocsOK /\ acked \subseteq stored /\ call[c] \in CallSet
      /\ call[c].pc # "idle" => i \in Instances /\ cache[i] \in Docs
  BY CallFacts
<1>2. Read(i) = cache[i]
  BY MembershipAssumption DEF Read
<1>3. PICK d \in cache[i] :
        /\ d.id = call[c].desk
        /\ Write(i, (cache[i] \ {d}) \cup {[d EXCEPT !.setup = @ + 1]})
  BY <1>2 DEF RecordProgress, Here
<1> DEFINE entry == [d EXCEPT !.setup = @ + 1]
           doc == (cache[i] \ {d}) \cup {entry}
           k == [call[c] EXCEPT !.pc = "settle", !.due = Len(outbox'[i]), !.bad = bad[i]]
<1>4. /\ call[c].pc = "work" /\ call' = [call EXCEPT ![c] = k]
      /\ bad' = [bad EXCEPT ![i] = FALSE]
      /\ wallets' = wallets /\ lease' = lease /\ acked' = acked
      /\ stored' = stored /\ approvals' = approvals /\ upsets' = upsets
  BY <1>1 DEF RecordProgress, At, Here, history, bounds, TypeOK, CallSet
<1>5. i \in Instances /\ d \in Entries
  BY <1>1, <1>3, <1>4 DEF Docs
<1>6. entry \in Entries /\ entry.id = call[c].desk /\ entry.setup > 0
  BY <1>3, <1>5 DEF Entries
<1> HIDE DEF entry
<1>7. doc \in Docs /\ Carries(doc, call[c].desk)
  BY <1>1, <1>4, <1>6 DEF Docs, Carries
<1>8. Write(i, doc)
  BY <1>3 DEF entry
<1> HIDE DEF doc, k, i
<1>9. /\ DocsOK' /\ Tame /\ cache'[i] = doc
      /\ Len(outbox'[i]) = Len(outbox[i]) + 1 /\ outbox'[i][Len(outbox'[i])] = doc
  BY <1>1, <1>5, <1>7, <1>8, WriteTame
<1>10. Len(outbox[i]) \in Nat /\ Len(outbox'[i]) \in Nat /\ bad[i] \in BOOLEAN
  BY <1>1, <1>5, <1>9, LenProperties DEF DocsOK, TypeOK
<1>11. /\ k \in CallSet /\ k.pc = "settle" /\ k.inst = i /\ k.desk = call[c].desk
       /\ k.due = Len(outbox'[i])
  BY <1>1, <1>10 DEF k, CallSet, Phases, i
<1>12. Good(k, cache', outbox', stored)
  BY <1>5, <1>7, <1>9, <1>10, <1>11 DEF Good
<1> QED BY <1>1, <1>4, <1>5, <1>9, <1>11, <1>12, OneCallMoves DEF TypeOK

LEMMA EndKeeps ==
    ASSUME MemberInv, NEW c \in Calls, LosesDesk(c) \/ Answer(c) \/ Throw(c)
    PROVE  MemberInv'
<1>1. TypeOK /\ DocsOK /\ acked \subseteq stored /\ call[c].due \in Nat
  BY CallFacts
<1>2. /\ call' = [call EXCEPT ![c] = Idle] /\ UNCHANGED docVars
      /\ wallets' = wallets /\ lease' \in Calls \cup {NoCall} /\ bad' = bad
      /\ stored' = stored /\ approvals' = approvals /\ upsets' \in Nat
  BY <1>1 DEF LosesDesk, Answer, Throw, history, bounds, TypeOK
<1>3. acked' \subseteq stored
  <2>1. CASE Answer(c)
    <3>1. call[c].pc = "settle" /\ call[c].due = 0
      BY <2>1 DEF Answer, At
    <3>2. ~call[c].bad => call[c].desk \in stored
      BY <1>1, <3>1 DEF MemberInv, Good
    <3> QED BY <1>1, <2>1, <3>2 DEF Answer, Confirmed
  <2>2. CASE ~Answer(c)
    BY <1>1, <2>2 DEF LosesDesk, Throw, history
  <2> QED BY <2>1, <2>2
<1>4. DocsOK' /\ Tame
  BY <1>1, <1>2, StillTame
<1> QED BY <1>1, <1>2, <1>3, <1>4, IdleGood, OneCallMoves DEF TypeOK

-----------------------------------------------------------------------------
(* SETs settle, instances hydrate and die *)

(* One SET of instance i settles: what its calls wait for moves up by one. *)
LEMMA SettleKeeps ==
    ASSUME MemberInv, NEW i \in Instances, Landed(i) \/ Rejected(i)
    PROVE  MemberInv'
<1> DEFINE q == outbox[i]
<1>1. /\ TypeOK /\ DocsOK /\ acked \subseteq stored
      /\ outbox' = [outbox EXCEPT ![i] = Tail(q)] /\ q # <<>> /\ cache' = cache /\ answer' = answer
  BY DEF MemberInv, TypeOK, AcknowledgedMeansStored, Landed, Rejected, SetLands, SetFails, DocsOK
<1>2. /\ q \in Seq(Docs) /\ Len(q) \in Nat /\ Head(q) = q[1] /\ Head(q) \in Docs
      /\ Tail(q) \in Seq(Docs) /\ Len(Tail(q)) = Len(q) - 1
      /\ \A n \in 1..Len(Tail(q)) : Tail(q)[n] = q[n + 1]
  BY <1>1, HeadTailProperties, LenProperties DEF DocsOK
<1> HIDE DEF q
<1>3. outbox'[i] = Tail(q) /\ \A j \in Instances \ {i} : outbox'[j] = outbox[j]
  BY <1>1 DEF DocsOK
<1>4. /\ DocsOK' /\ stored \subseteq stored' /\ stored' \subseteq Nat /\ acked' = acked
      /\ wallets' = wallets /\ lease' = lease /\ bad' \in [Instances -> BOOLEAN]
      /\ approvals' = approvals /\ upsets' \in Nat
      /\ Landed(i) => \A n : Carries(Head(q), n) => n \in stored'
  <2>1. CASE Landed(i)
    <3>1. /\ durable' = Head(q) /\ stored' = stored \cup {d.id : d \in {x \in Head(q) : x.setup > 0}}
          /\ acked' = acked /\ wallets' = wallets /\ lease' = lease /\ bad' = bad
          /\ approvals' = approvals /\ upsets' = upsets
      BY <2>1 DEF Landed, SetLands, bounds, q
    <3>2. \A d \in Head(q) : d.id \in Nat
      BY <1>2 DEF Docs, Entries
    <3>3. \A n : Carries(Head(q), n) => n \in stored'
      BY <3>1 DEF Carries
    <3> QED BY <1>1, <1>2, <3>1, <3>2, <3>3 DEF DocsOK, TypeOK
  <2>2. CASE ~Landed(i)
    <3>1. /\ durable' = durable /\ stored' = stored /\ acked' = acked /\ wallets' = wallets
          /\ lease' = lease /\ approvals' = approvals /\ upsets' = upsets + 1
          /\ bad' = [bad EXCEPT ![i] = @ \/ \A c \in Calls : ~Awaiting(c, i)]
      BY <2>2 DEF Rejected, SetFails, history
    <3>2. bad' \in [Instances -> BOOLEAN]
      BY <1>1, <3>1, Zenon DEF TypeOK
    <3> QED BY <1>1, <1>2, <2>2, <3>1, <3>2 DEF DocsOK, TypeOK
  <2> QED BY <2>1, <2>2
<1>5. ASSUME NEW x \in Calls
      PROVE  call'[x] \in CallSet /\ Good(call'[x], cache', outbox', stored')
  <2> DEFINE k == call[x]
  <2>1. k \in CallSet /\ k.due \in Nat /\ Good(k, cache, outbox, stored)
    BY CallFacts DEF MemberInv
  <2>2. CASE Awaiting(x, i)
    <3>1. k.pc = "settle" /\ k.inst = i /\ k.due > 0
      BY <2>2 DEF Awaiting, At, Here
    <3>2. /\ call'[x] \in CallSet /\ call'[x].pc = "settle" /\ call'[x].inst = i
          /\ call'[x].due = k.due - 1 /\ call'[x].desk = k.desk
          /\ ~Landed(i) => call'[x].bad
      <4>1. k.due - 1 \in Nat
        BY <2>1, <3>1
      <4>2. CASE Landed(i)
        <5>1. call'[x] = [k EXCEPT !.due = @ - 1]
          BY <2>2, <4>2 DEF Landed
        <5> HIDE DEF k
        <5> QED BY <2>1, <3>1, <4>1, <4>2, <5>1 DEF CallSet
      <4>3. CASE ~Landed(i)
        <5>1. call'[x] = [k EXCEPT !.due = @ - 1, !.bad = TRUE]
          BY <2>2, <4>3 DEF Rejected
        <5> HIDE DEF k
        <5> QED BY <2>1, <3>1, <4>1, <5>1 DEF CallSet
      <4> QED BY <4>2, <4>3
    <3>3. cache[i] \in Docs /\ k.due <= Len(q) /\ Carries(q[k.due], k.desk)
      BY <2>1, <3>1 DEF Good, q
    <3>4. k.due - 1 > 0 => Carries(Tail(q)[k.due - 1], k.desk)
      <4> SUFFICES ASSUME k.due - 1 > 0 PROVE Carries(Tail(q)[k.due - 1], k.desk)
        OBVIOUS
      <4>1. k.due - 1 \in 1..Len(Tail(q)) /\ (k.due - 1) + 1 = k.due
        BY <1>2, <2>1, <3>3
      <4>2. Tail(q)[k.due - 1] = q[k.due]
        BY <1>2, <4>1
      <4> QED BY <3>3, <4>2
    <3>5. k.due - 1 = 0 /\ Landed(i) => k.desk \in stored'
      <4> SUFFICES ASSUME k.due - 1 = 0, Landed(i) PROVE k.desk \in stored'
        OBVIOUS
      <4>1. k.due = 1
        BY <2>1
      <4> QED BY <1>2, <1>4, <3>3, <4>1
    <3> HIDE DEF k
    <3> QED BY <1>1, <1>2, <1>3, <2>1, <3>2, <3>3, <3>4, <3>5 DEF Good
  <2>3. CASE ~Awaiting(x, i)
    <3>1. call'[x] = k
      <4>1. CASE Landed(i)
        BY <2>3, <4>1 DEF Landed
      <4>2. CASE ~Landed(i)
        BY <2>3, <4>2 DEF Rejected
      <4> QED BY <4>1, <4>2
    <3>2. ~(k.pc = "settle" /\ k.inst = i /\ k.due > 0)
      BY <2>3 DEF Awaiting, At, Here
    <3> HIDE DEF k
    <3>3. Good(k, cache', outbox', stored')
      <4> SUFFICES ASSUME k.pc # "idle" PROVE Good(k, cache', outbox', stored')
        BY DEF Good
      <4>1. k.inst \in Instances
        BY <2>1 DEF Good
      <4>2. CASE k.inst = i
        <5>1. k.pc = "settle" => k.due = 0
          BY <2>1, <3>2, <4>2
        <5>2. Len(outbox'[i]) \in Nat
          BY <1>2, <1>3, LenProperties
        <5>3. cache' = cache /\ stored \subseteq stored'
          BY <1>1, <1>4
        <5> QED BY <2>1, <4>1, <4>2, <5>1, <5>2, <5>3 DEF Good
      <4>3. CASE k.inst # i
        BY <1>1, <1>3, <1>4, <2>1, <4>1, <4>3 DEF Good
      <4> QED BY <4>2, <4>3
    <3> QED BY <2>1, <3>1, <3>3
  <2> QED BY <2>2, <2>3
<1>6. call' \in [Calls -> CallSet]
  <2>1. CASE Landed(i)
    BY <1>5, <2>1 DEF Landed
  <2>2. CASE ~Landed(i)
    BY <1>5, <2>2 DEF Rejected
  <2> QED BY <2>1, <2>2
<1>7. TypeOK'
  BY <1>1, <1>4, <1>6 DEF TypeOK
<1> QED BY <1>1, <1>4, <1>5, <1>7 DEF MemberInv, AcknowledgedMeansStored

LEMMA HydratesKeeps ==
    ASSUME MemberInv, NEW i \in Instances, Hydrates(i)
    PROVE  MemberInv'
<1>1. TypeOK /\ DocsOK /\ acked \subseteq stored
  BY DEF MemberInv, TypeOK, AcknowledgedMeansStored
<1>2. /\ HydrateAsks(i) \/ HydrateStores(i)
      /\ wallets' = wallets /\ call' = call /\ lease' = lease /\ bad' = bad /\ acked' = acked
      /\ stored' = stored /\ approvals' = approvals /\ upsets' = upsets
  BY DEF Hydrates, history, bounds
<1>3. DocsOK' /\ Tame
  BY <1>1, <1>2, HydrateTame
<1> QED BY <1>1, <1>2, <1>3, CallsMove DEF TypeOK

LEMMA CrashKeeps ==
    ASSUME MemberInv, NEW i \in Instances, Crash(i)
    PROVE  MemberInv'
<1>1. TypeOK /\ DocsOK /\ acked \subseteq stored
  BY DEF MemberInv, TypeOK, AcknowledgedMeansStored
<1>2. /\ call' = [c \in Calls |-> IF call[c].inst = i THEN Idle ELSE call[c]]
      /\ bad' = [bad EXCEPT ![i] = FALSE] /\ lease' \in {NoCall, lease}
      /\ cache' = [cache EXCEPT ![i] = Unset] /\ outbox' = [outbox EXCEPT ![i] = <<>>]
      /\ answer' = [answer EXCEPT ![i] = NoAnswer] /\ durable' = durable
      /\ wallets' = wallets /\ acked' = acked /\ stored' = stored
      /\ approvals' = approvals /\ upsets' = upsets + 1
  BY DEF Crash, ColdStart, Here, history
<1>3. <<>> \in Seq(Docs)
  BY EmptySeq
<1>4. DocsOK'
  BY <1>1, <1>2, <1>3 DEF DocsOK
<1>5. \A j \in Instances \ {i} : cache'[j] = cache[j] /\ outbox'[j] = outbox[j]
  BY <1>1, <1>2 DEF DocsOK
<1>6. ASSUME NEW x \in Calls
      PROVE  call'[x] \in CallSet /\ Good(call'[x], cache', outbox', stored')
  <2>1. call[x] \in CallSet /\ Good(call[x], cache, outbox, stored)
    BY CallFacts DEF MemberInv
  <2>2. CASE call[x].inst = i
    BY <1>2, <2>2, IdleGood
  <2>3. CASE call[x].inst # i
    <3>1. call'[x] = call[x]
      BY <1>2, <2>3
    <3> QED BY <1>2, <1>5, <2>1, <2>3, <3>1 DEF Good
  <2> QED BY <2>2, <2>3
<1>7. TypeOK'
  BY <1>1, <1>2, <1>4, <1>6 DEF TypeOK
<1> QED BY <1>1, <1>2, <1>6, <1>7 DEF MemberInv, AcknowledgedMeansStored

-----------------------------------------------------------------------------
(* Every step *)

LEMMA InitMember == Init => MemberInv
<1> SUFFICES ASSUME Init PROVE MemberInv
  OBVIOUS
<1>1. /\ durable = Unset /\ cache = [i \in Instances |-> Unset]
      /\ outbox = [i \in Instances |-> <<>>] /\ answer = [i \in Instances |-> NoAnswer]
      /\ wallets = <<>> /\ call = [c \in Calls |-> Idle] /\ lease = NoCall
      /\ bad = [i \in Instances |-> FALSE] /\ acked = {} /\ stored = {}
      /\ approvals = 0 /\ upsets = 0
  BY MembershipAssumption DEF Init, InitStore
<1>2. <<>> \in Seq(Docs) /\ <<>> \in Seq(Users)
  BY EmptySeq
<1>3. DocsOK
  BY <1>1, <1>2 DEF DocsOK
<1>4. TypeOK /\ \A c \in Calls : call[c] = Idle
  BY <1>1, <1>2, <1>3, IdleGood DEF TypeOK
<1> QED BY <1>1, <1>4, IdleGood DEF MemberInv, AcknowledgedMeansStored

LEMMA StepMember == MemberInv /\ [Next]_vars => MemberInv'
<1> SUFFICES ASSUME MemberInv, [Next]_vars PROVE MemberInv'
  OBVIOUS
<1>1. ASSUME NEW c \in Calls, Step(c) \/ Throw(c) PROVE MemberInv'
  BY <1>1, DocumentKeeps, StrictKeeps, ProgressKeeps, EndKeeps DEF Step
<1>2. ASSUME NEW c \in Calls, NEW i \in Instances, NEW u \in Users, SignIn(c, i, u)
      PROVE  MemberInv'
  BY <1>2, SignInKeeps
<1>3. ASSUME NEW c \in Calls, NEW i \in Instances, NEW d \in (IF Warm(i) THEN Read(i) ELSE {}),
             BeginReset(c, i, d) \/ BeginApproval(c, i, d)
      PROVE  MemberInv'
  BY <1>3, BeginKeeps
<1>4. ASSUME NEW i \in Instances, NEW d \in (IF Warm(i) THEN Read(i) ELSE {}), RemoveDesk(i, d)
      PROVE  MemberInv'
  BY <1>4, RemoveKeeps
<1>5. ASSUME NEW i \in Instances, Landed(i) \/ Rejected(i) \/ Hydrates(i) \/ Crash(i)
      PROVE  MemberInv'
  BY <1>5, SettleKeeps, HydratesKeeps, CrashKeeps
<1>6. CASE UNCHANGED vars
  <2>1. DocsOK' /\ Tame
    BY <1>6, StillTame DEF vars, MemberInv, TypeOK
  <2> QED BY <1>6, <2>1, CallsMove DEF vars, history, bounds, MemberInv, TypeOK,
             AcknowledgedMeansStored
<1> QED BY <1>1, <1>2, <1>3, <1>4, <1>5, <1>6 DEF Next

(* store.ts, members.ts: the directory, its copies and the requests keep   *)
(* their shape, and no request works on a copy its instance does not have. *)
THEOREM TypeCorrect == Spec => []TypeOK
<1>1. MemberInv => TypeOK
  BY DEF MemberInv
<1> QED BY <1>1, InitMember, StepMember, PTL DEF Spec

(* sync-institution-approvals.ts 26-46: a progress an approval write       *)
(* acknowledges is one that Redis has held, on however many instances the  *)
(* directory is written meanwhile and whichever SET is rejected.           *)
THEOREM AcknowledgedSafety == Spec => []AcknowledgedMeansStored
<1>1. MemberInv => AcknowledgedMeansStored
  BY DEF MemberInv
<1> QED BY <1>1, InitMember, StepMember, PTL DEF Spec
=============================================================================
