---------------------------- MODULE VenueStore ----------------------------
(***************************************************************************)
(* web/src/lib/store.ts: the JSON documents of the venue (institutions,    *)
(* trades, notices, market log) with a synchronous API and two backends.   *)
(*                                                                         *)
(* With files (Hosted = FALSE) there is one server instance and "durable"  *)
(* is the file: a read parses it and a write replaces it.  With Redis      *)
(* (Hosted = TRUE) "durable" is the Redis key, every instance works on its *)
(* own cached copy, and a write puts a snapshot of the whole document into *)
(* a queue from which one SET after the other lands.                       *)
(*                                                                         *)
(* The module is written for one document; the modules that extend it say  *)
(* what a document holds.  An MGET is answered in two steps: Redis reads   *)
(* the value, the instance stores it later, whatever it wrote meanwhile.   *)
(***************************************************************************)
EXTENDS Naturals, Sequences

CONSTANTS
    Instances,    \* server instances
    Hosted,       \* redisBacked
    Empty,        \* jsonStore's default: the document when there is none
    Unset,        \* no such Redis key; a cold instance's cache
    NoAnswer      \* no MGET is under way

VARIABLES
    durable,      \* the file, or the value of the Redis key
    cache,        \* cache[i]: the copy instance i works on
    outbox,       \* outbox[i]: snapshots whose SET has not landed
    answer        \* answer[i]: what an MGET of i read and i has not stored yet

docVars == <<durable, cache, outbox, answer>>

InitStore ==
    /\ durable = IF Hosted THEN Unset ELSE Empty
    /\ cache = [i \in Instances |-> Unset]
    /\ outbox = [i \in Instances |-> <<>>]
    /\ answer = [i \in Instances |-> NoAnswer]

(* A request begins on an instance whose cache it has hydrated             *)
(* (requireSession), so never on one that is still cold.                   *)
Warm(i) == ~Hosted \/ cache[i] # Unset

(* jsonStore.read. *)
Read(i) == IF Hosted THEN cache[i] ELSE durable

(* jsonStore.write: the cache and the file at once, Redis later (persist). *)
Write(i, doc) ==
    /\ IF Hosted
       THEN /\ cache' = [cache EXCEPT ![i] = doc]
            /\ outbox' = [outbox EXCEPT ![i] = Append(@, doc)]
            /\ UNCHANGED durable
       ELSE durable' = doc /\ UNCHANGED <<cache, outbox>>
    /\ UNCHANGED answer

(* persistenceTails: an instance's SETs of a document run one at a time,   *)
(* in the order of its writes; one that fails is logged and given up.      *)
SetLands(i) ==
    /\ outbox[i] # <<>>
    /\ durable' = Head(outbox[i])
    /\ outbox' = [outbox EXCEPT ![i] = Tail(@)]
    /\ UNCHANGED <<cache, answer>>
SetFails(i) ==
    /\ outbox[i] # <<>>
    /\ outbox' = [outbox EXCEPT ![i] = Tail(@)]
    /\ UNCHANGED <<durable, cache, answer>>

(* hydrate: nothing when the copy is less than 1.5 s old, otherwise one    *)
(* MGET, whose answer replaces the copy when it arrives.  A key that does  *)
(* not exist leaves the copy alone (hydrateStrict takes the default).      *)
HydrateAsks(i) ==
    /\ Hosted
    /\ answer[i] = NoAnswer
    /\ answer' = [answer EXCEPT ![i] = durable]
    /\ UNCHANGED <<durable, cache, outbox>>
(* Seeded fault: a copy that is there is kept.                             *)
HydratedOnce(copy, value) ==
    IF copy # Unset THEN copy ELSE IF value # Unset THEN value ELSE Empty
Hydrated(copy, value) ==
    IF value # Unset THEN value ELSE IF copy # Unset THEN copy ELSE Empty
HydratedStrictly(value) == IF value # Unset THEN value ELSE Empty
HydrateStores(i) ==
    /\ answer[i] # NoAnswer
    /\ cache' = [cache EXCEPT ![i] = Hydrated(@, answer[i])]
    /\ answer' = [answer EXCEPT ![i] = NoAnswer]
    /\ UNCHANGED <<durable, outbox>>

(* The instance dies and a cold one takes its place: the queue is gone.    *)
ColdStart(i) ==
    /\ cache' = [cache EXCEPT ![i] = Unset]
    /\ outbox' = [outbox EXCEPT ![i] = <<>>]
    /\ answer' = [answer EXCEPT ![i] = NoAnswer]
    /\ UNCHANGED durable
===========================================================================
