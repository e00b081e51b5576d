---------------------------- MODULE HostedStore ----------------------------
(***************************************************************************)
(* web/src/lib/demo/hosted-store.ts: the durable documents every server    *)
(* instance shares, and the lease that orders the requests which use the   *)
(* agent bank's signing account.                                           *)
(*                                                                         *)
(* The lease is a key holding the token of the request that took it, with  *)
(* an expiry.  Every write of a document is one atomic script that first   *)
(* compares the key with the writer's token, so a request whose lease ran  *)
(* out cannot write.  A request's token is modelled by the request itself. *)
(* Two documents matter here: "issuance-state", the list of issuance       *)
(* records, and "operator-workflow", the marker that reserves the signing  *)
(* account for one record beyond the end of a request.                     *)
(***************************************************************************)
EXTENDS Naturals

CONSTANTS
    Requests,     \* request slots of the server instances
    Nobody,       \* the lease key is absent
    NoWorkflow    \* the operator-workflow marker is null

VARIABLES
    lease,        \* key operator-transactions:lease
    records,      \* document issuance-state
    marker        \* document operator-workflow: the id it names

hostedVars == <<lease, records, marker>>

(* assertOwned, and the comparison every script starts with. *)
Owned(r) == lease = r

(* withHostedLease: SET NX; a request that finds the key set is busy. *)
Claim(r) == lease = Nobody /\ lease' = r

(* The finally of withHostedLease: RELEASE_LEASE deletes only one's own key. *)
Release(r) == lease' = IF Owned(r) THEN Nobody ELSE lease

(* Seeded fault: a plain SET, whoever holds the lease by now. *)
HostedWriteUnfenced(r, doc) == records' = doc /\ UNCHANGED <<lease, marker>>

(* hostedWrite of issuance-state and of operator-workflow: WRITE_LEASED. *)
HostedWriteRecords(r, doc) ==
    Owned(r) /\ records' = doc /\ UNCHANGED <<lease, marker>>
HostedWriteMarker(r, workflow) ==
    Owned(r) /\ marker' = workflow /\ UNCHANGED <<lease, records>>

(* hostedWriteAndReleaseOperator: FINISH_OPERATOR commits the document and *)
(* clears the marker together, and only a marker that names this workflow. *)
MayFinish(r, id) == Owned(r) /\ marker = id
HostedWriteAndReleaseOperator(r, doc, id) ==
    MayFinish(r, id) /\ records' = doc /\ marker' = NoWorkflow /\ UNCHANGED lease

(* LEASE_MS passed since the key was set or renewed. *)
Expire == lease # Nobody /\ lease' = Nobody /\ UNCHANGED <<records, marker>>
===========================================================================
