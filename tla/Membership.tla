----------------------------- MODULE Membership -----------------------------
(***************************************************************************)
(* The institution directory on Redis: first sign-in (app/api/me,          *)
(* self-service.ts, provision.ts), desk reset (reset.ts), removal by an    *)
(* administrator, and the approval write that hydrates, works and flushes  *)
(* under the operator's lease (sync-institution-approvals.ts 26-46).       *)
(*                                                                         *)
(* Every instance works on its own copy of the directory and persists it   *)
(* whole (VenueStore), so requests on two instances overwrite each other.  *)
(* The lease outlives any handler (hosted-store.ts 14: 120 s against 60):  *)
(* it is given up by its holder, or by the death of its holder's instance. *)
(***************************************************************************)
EXTENDS VenueStore, FiniteSets

CONSTANTS
    Users,
    Calls,           \* requests in flight
    NoCall,
    NoInstance,
    MaxDesks,        \* bound: institutions provisioned in Privy
    MaxApprovals,    \* bound: approval writes
    MaxInFlight,     \* bound: requests and page loads under way
    MaxUpsets        \* bound: resets, removals, throws, failed SETs and deaths

ASSUME MembershipAssumption ==
    /\ Hosted
    /\ Empty = {}
    /\ NoCall \notin Calls
    /\ NoInstance \notin Instances
    /\ {MaxDesks, MaxApprovals, MaxInFlight, MaxUpsets} \subseteq Nat

VARIABLES
    wallets,         \* Privy: the user of each desk wallet, in order of creation
    call,
    lease,           \* the call that holds operator-transactions, or NoCall
    bad,             \* bad[i]: an unflushed SET of instance i has been rejected
    acked,           \* records whose approval write was acknowledged
    stored,          \* records with setup progress Redis has ever held
    approvals, upsets

bounds == <<approvals, upsets>>
history == <<acked, stored>>
vars == <<docVars, wallets, call, lease, bad, history, bounds>>

(* A record of the directory: desk "id" of Privy, how far its setup is.    *)
DesksOf(doc, u) == {d \in doc : d.user = u}                \* findMember
Without(doc, n) == {d \in doc : d.id # n}

Idle == [inst |-> NoInstance, pc |-> "idle", desk |-> 0, user |-> NoCall,
         seen |-> NoAnswer, due |-> 0, bad |-> FALSE]

Init ==
    /\ InitStore
    /\ wallets = <<>>
    /\ call = [c \in Calls |-> Idle]
    /\ lease = NoCall
    /\ bad = [i \in Instances |-> FALSE]
    /\ acked = {}
    /\ stored = {}
    /\ approvals = 0 /\ upsets = 0

At(c, label) == call[c].pc = label
Here(c) == call[c].inst
(* Room for another request or page load; slots are interchangeable.       *)
Room == Cardinality({c \in Calls : ~At(c, "idle")})
        + Cardinality({i \in Instances : answer[i] # NoAnswer}) < MaxInFlight
Free(c) == Room /\ At(c, "idle") /\ c = CHOOSE e \in Calls : At(e, "idle")

-----------------------------------------------------------------------------
(* GET /api/me: a user whose desk this copy does not have gets a new one.  *)
NeedsDesk(i, u) == DesksOf(Read(i), u) = {}

SignIn(c, i, u) ==
    /\ Free(c)
    /\ Warm(i)
    /\ NeedsDesk(i, u)
    /\ Len(wallets) + Cardinality({e \in Calls : At(e, "provision")}) < MaxDesks
    /\ call' = [call EXCEPT ![c] = [Idle EXCEPT !.inst = i, !.user = u,
                                                !.pc = "provision"]]
    /\ UNCHANGED <<docVars, wallets, lease, bad, history, bounds>>
(* provisionSelfServiceInstitution: quorum, policy and wallet in Privy,    *)
(* and with the answer to the last the record in the directory.            *)
Provision(c) ==
    /\ At(c, "provision")
    /\ wallets' = Append(wallets, call[c].user)
    /\ LET n == Len(wallets) + 1
       IN  Write(Here(c), Without(Read(Here(c)), n)
                          \cup {[id |-> n, user |-> call[c].user, setup |-> 0]})
    /\ call' = [call EXCEPT ![c] = Idle]
    /\ UNCHANGED <<lease, bad, history, bounds>>

(* resetDesk: the member's desk, its open RFQs withdrawn first; DELETE by  *)
(* an administrator reads and writes in one turn.                          *)
BeginReset(c, i, d) ==
    /\ Free(c)
    /\ upsets < MaxUpsets
    /\ Warm(i)
    /\ d \in Read(i)
    /\ upsets' = upsets + 1
    /\ call' = [call EXCEPT ![c] = [Idle EXCEPT !.inst = i, !.desk = d.id,
                                                !.pc = "withdraw"]]
    /\ UNCHANGED <<docVars, wallets, lease, bad, history, approvals>>
DropDesk(c) ==
    /\ At(c, "withdraw")
    /\ Write(Here(c), Without(Read(Here(c)), call[c].desk))
    /\ call' = [call EXCEPT ![c] = Idle]
    /\ UNCHANGED <<wallets, lease, bad, history, bounds>>
RemoveDesk(i, d) ==
    /\ upsets < MaxUpsets
    /\ Warm(i)
    /\ d \in Read(i)
    /\ Write(i, Without(Read(i), d.id))
    /\ upsets' = upsets + 1
    /\ UNCHANGED <<wallets, call, lease, bad, history, approvals>>

-----------------------------------------------------------------------------
(* withInstitutionApprovalWrite.  A second write for the same institution  *)
(* on this instance is refused; another waits for the lease.  With the     *)
(* lease, hydrateStrict reads the documents and stores what it read.       *)
BeginApproval(c, i, d) ==
    /\ Free(c)
    /\ approvals < MaxApprovals
    /\ Warm(i)
    /\ d \in Read(i)
    /\ lease = NoCall
    /\ lease' = c
    /\ approvals' = approvals + 1
    /\ call' = [call EXCEPT ![c] = [Idle EXCEPT !.inst = i, !.desk = d.id, !.seen = durable,
                                                !.pc = "store"]]
    /\ UNCHANGED <<docVars, wallets, bad, history, upsets>>
StrictStores(c) ==
    /\ At(c, "store")
    /\ cache' = [cache EXCEPT ![Here(c)] = HydratedStrictly(call[c].seen)]
    /\ call' = [call EXCEPT ![c].seen = NoAnswer, ![c].pc = "work"]
    /\ UNCHANGED <<durable, outbox, answer, wallets, lease, bad, history, bounds>>
(* The work, after its awaits, records the desk's progress; flushStrict    *)
(* then takes every pending SET of the instance, whoever wrote it, and     *)
(* waits until all have settled.                                           *)
RecordProgress(c) ==
    LET i == Here(c) IN
    /\ At(c, "work")
    /\ \E d \in Read(i) :
         /\ d.id = call[c].desk
         /\ Write(i, (Read(i) \ {d}) \cup {[d EXCEPT !.setup = @ + 1]})
    /\ call' = [call EXCEPT ![c].pc = "settle", ![c].due = Len(outbox'[i]), ![c].bad = bad[i]]
    /\ bad' = [bad EXCEPT ![i] = FALSE]
    /\ UNCHANGED <<wallets, lease, history, bounds>>
LosesDesk(c) ==
    /\ At(c, "work")
    /\ \A d \in Read(Here(c)) : d.id # call[c].desk
    /\ lease' = NoCall
    /\ call' = [call EXCEPT ![c] = Idle]
    /\ UNCHANGED <<docVars, wallets, bad, history, bounds>>
(* Seeded fault: legacy flush, allSettled without looking at the results.  *)
ConfirmedAnyhow(c) == TRUE
Confirmed(c) == ~call[c].bad
Answer(c) ==
    /\ At(c, "settle")
    /\ call[c].due = 0
    /\ acked' = IF Confirmed(c) THEN acked \cup {call[c].desk} ELSE acked
    /\ lease' = NoCall
    /\ call' = [call EXCEPT ![c] = Idle]
    /\ UNCHANGED <<docVars, wallets, bad, stored, bounds>>

-----------------------------------------------------------------------------
(* The SETs of an instance, counted down for the call that awaits them.    *)
Awaiting(c, i) == At(c, "settle") /\ Here(c) = i /\ call[c].due > 0
Landed(i) ==
    /\ SetLands(i)
    /\ stored' = stored \cup {d.id : d \in {x \in Head(outbox[i]) : x.setup > 0}}
    /\ call' = [c \in Calls |-> IF Awaiting(c, i) THEN [call[c] EXCEPT !.due = @ - 1] ELSE call[c]]
    /\ UNCHANGED <<wallets, lease, bad, acked, bounds>>
Rejected(i) ==
    /\ SetFails(i)
    /\ upsets < MaxUpsets
    /\ upsets' = upsets + 1
    /\ call' = [c \in Calls |-> IF Awaiting(c, i)
                                THEN [call[c] EXCEPT !.due = @ - 1, !.bad = TRUE] ELSE call[c]]
    /\ bad' = [bad EXCEPT ![i] = @ \/ \A c \in Calls : ~Awaiting(c, i)]
    /\ UNCHANGED <<wallets, lease, history, approvals>>
Hydrates(i) ==
    /\ (Room /\ HydrateAsks(i)) \/ HydrateStores(i)
    /\ UNCHANGED <<wallets, call, lease, bad, history, bounds>>

(* A request throws, at Privy, the topic or the chain; its lease is let go.*)
Throw(c) ==
    /\ call[c].pc \in {"provision", "store", "work"}
    /\ upsets < MaxUpsets
    /\ upsets' = upsets + 1
    /\ lease' = IF lease = c THEN NoCall ELSE lease
    /\ call' = [call EXCEPT ![c] = Idle]
    /\ UNCHANGED <<docVars, wallets, bad, history, approvals>>
(* An instance dies with its requests; their lease expires. *)
Crash(i) ==
    /\ upsets < MaxUpsets
    /\ upsets' = upsets + 1
    /\ lease' = IF lease # NoCall /\ Here(lease) = i THEN NoCall ELSE lease
    /\ call' = [c \in Calls |-> IF Here(c) = i THEN Idle ELSE call[c]]
    /\ bad' = [bad EXCEPT ![i] = FALSE]
    /\ ColdStart(i)
    /\ UNCHANGED <<wallets, history, approvals>>

Step(c) ==
    \/ Provision(c) \/ DropDesk(c) \/ StrictStores(c) \/ RecordProgress(c) \/ LosesDesk(c)
    \/ Answer(c)

Next ==
    \/ \E c \in Calls : Step(c) \/ Throw(c)
    \/ \E c \in Calls, i \in Instances, u \in Users : SignIn(c, i, u)
    \/ \E c \in Calls, i \in Instances :
          \E d \in (IF Warm(i) THEN Read(i) ELSE {}) : BeginReset(c, i, d) \/ BeginApproval(c, i, d)
    \/ \E i \in Instances : \E d \in (IF Warm(i) THEN Read(i) ELSE {}) : RemoveDesk(i, d)
    \/ \E i \in Instances : Landed(i) \/ Rejected(i) \/ Hydrates(i) \/ Crash(i)

(* Requests run to their end, SETs settle, and page loads keep every       *)
(* instance hydrating.                                                     *)
Fairness ==
    /\ \A c \in Calls : WF_vars(Step(c))
    /\ \A i \in Instances : WF_vars(Landed(i)) /\ SF_vars(Hydrates(i))

Spec == Init /\ [][Next]_vars /\ Fairness

-----------------------------------------------------------------------------
(* "propagate persistence errors before acknowledging a hosted operation"  *)
(* (store.ts 79): what an approval write reports as done, Redis has held,  *)
(* whichever of the instance's SETs failed before or meanwhile.            *)
AcknowledgedMeansStored == acked \subseteq stored

(* Once Redis has a directory and the writes stop, every instance has the  *)
(* directory Redis holds, whatever answer was on its way over which write. *)
CachesConverge == <>[](durable # Unset => \A i \in Instances : cache[i] = durable)
=============================================================================
