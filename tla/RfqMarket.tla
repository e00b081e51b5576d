----------------------------- MODULE RfqMarket -----------------------------
(***************************************************************************)
(* The RFQ market: web/src/lib/rfq.ts up to the accepted quote, the RFQ    *)
(* routes, the market-making half of the tick (automated-desk.ts), the     *)
(* cancels of a desk reset (reset.ts) and the transfer demonstration       *)
(* (demo/transfer-request.ts), over the HCS topic (hcs.ts).                *)
(*                                                                         *)
(* A handler folds the topic into a book, decides on it, and publishes one *)
(* or more messages, each an await: a call is its queue of drafts.  The    *)
(* mirror node shows a prefix of the topic, so a handler may decide on a   *)
(* book that lacks the latest messages, its own among them.                *)
(***************************************************************************)
EXTENDS Integers, Sequences, FiniteSets, SequencesExt

CONSTANTS
    Desks,          \* institutions with a wallet
    Bot,            \* the market maker, automatedDesk()
    Seller,         \* the demonstration counterparty (demoCounterparty)
    NoDesk,
    Calls,          \* requests in flight
    Sides,          \* sides a desk publishes RFQs for
    MaxIds,         \* bound: RFQ and quote ids drawn
    MaxUserIds,     \* bound: those the users may draw, the tick has the rest
    MaxRequests,    \* bound: requests of users
    MaxTopic,       \* bound: messages the tick may bring the topic to
    MaxLapses,      \* bound: deadlines that pass
    MaxFaults       \* bound: failed publications and deaths

ASSUME MarketAssumption ==
    /\ {Bot, Seller} \subseteq Desks
    /\ Bot # Seller
    /\ NoDesk \notin Desks
    /\ Sides \subseteq {"sell", "buy"}
    /\ {MaxIds, MaxUserIds, MaxRequests, MaxTopic, MaxLapses,
        MaxFaults} \subseteq Nat
    /\ MaxUserIds <= MaxIds

VARIABLES
    topic,          \* the messages in consensus order
    agreed,         \* the book they fold to
    visible,        \* how many of them the mirror node shows
    shown,          \* the book these fold to
    lapsed,         \* ids of RFQs and quotes whose deadline has passed
    desks,          \* institutions on the venue now
    records,        \* the trades document: accepted quotes in order
    call,
    drawn,          \* ids drawn (newId never repeats one)
    requests,
    faults

topicVars == <<topic, agreed>>
mirrorVars == <<visible, shown>>
vars == <<topicVars, mirrorVars, lapsed, desks, records, call, drawn, requests, faults>>

Ids == 1..MaxIds
RfqEvent(r, side, d) == [type |-> "rfq", rfq |-> r, quote |-> 0, side |-> side, by |-> d]
QuoteEvent(r, q, d) == [type |-> "quote", rfq |-> r, quote |-> q, side |-> "", by |-> d]
AcceptEvent(r, q, d) == [type |-> "accept", rfq |-> r, quote |-> q, side |-> "", by |-> d]
CancelEvent(r, d) == [type |-> "cancel", rfq |-> r, quote |-> 0, side |-> "", by |-> d]
NoRfq == [status |-> "none", desk |-> NoDesk, side |-> "", quotes |-> {}, accepted |-> 0]
NoBook == [r \in Ids |-> NoRfq]

(* Seeded fault: an accept is folded whatever became of the RFQ before.    *)
ApplyLastAccept(book, e) ==
    LET r == book[e.rfq] IN
    CASE e.type = "rfq" -> [book EXCEPT ![e.rfq] = [NoRfq EXCEPT !.status = "open",
                                                     !.desk = e.by, !.side = e.side]]
      [] e.type = "quote" /\ r.status = "open" ->
            [book EXCEPT ![e.rfq].quotes = @ \cup {[quote |-> e.quote, desk |-> e.by]}]
      [] e.type = "accept" /\ (\E q \in r.quotes : q.quote = e.quote) ->
            [book EXCEPT ![e.rfq].status = "accepted", ![e.rfq].accepted = e.quote]
      [] e.type = "cancel" /\ r.status = "open" -> [book EXCEPT ![e.rfq].status = "cancelled"]
      [] OTHER -> book

(* loadRfqs: what one message does to the book. *)
Apply(book, e) ==
    LET r == book[e.rfq] IN
    CASE e.type = "rfq" -> [book EXCEPT ![e.rfq] = [NoRfq EXCEPT !.status = "open",
                                                     !.desk = e.by, !.side = e.side]]
      [] e.type = "quote" /\ r.status = "open" ->
            [book EXCEPT ![e.rfq].quotes = @ \cup {[quote |-> e.quote, desk |-> e.by]}]
      [] e.type = "accept" /\ r.status = "open" /\ (\E q \in r.quotes : q.quote = e.quote) ->
            [book EXCEPT ![e.rfq].status = "accepted", ![e.rfq].accepted = e.quote]
      [] e.type = "cancel" /\ r.status = "open" -> [book EXCEPT ![e.rfq].status = "cancelled"]
      [] OTHER -> book

(* readTopic and loadRfqs on what the mirror shows, deadlines applied.     *)
Book == [r \in Ids |-> IF shown[r].status = "open" /\ r \in lapsed
                       THEN [shown[r] EXCEPT !.status = "expired"] ELSE shown[r]]

(* Seeded fault: the desk that asked for quotes is taken for the seller.   *)
SellerAsked(rfq, quoter) == rfq.desk

SellerOf(rfq, quoter) == IF rfq.side = "sell" THEN rfq.desk ELSE quoter
BuyerOf(rfq, quoter) == IF rfq.side = "sell" THEN quoter ELSE rfq.desk

(* acceptQuote: the record, with the parties the RFQ's side makes them.    *)
Record(r, q, rfq, quoter) ==
    [rfq |-> r, quote |-> q, seller |-> SellerOf(rfq, quoter), buyer |-> BuyerOf(rfq, quoter)]
NoRecord == [rfq |-> 0, quote |-> 0, seller |-> NoDesk, buyer |-> NoDesk]

(* A call: what it still publishes, the record each accept leads to, and   *)
(* the record to write now that an accept is published.                    *)
Idle == [job |-> "none", desk |-> NoDesk, drafts |-> <<>>, record |-> NoRecord]
Draft(e) == [event |-> e, record |-> NoRecord]
Acceptance(r, q, rfq, quoter, by) ==
    [event |-> AcceptEvent(r, q, by), record |-> Record(r, q, rfq, quoter)]

Init ==
    /\ topic = <<>> /\ agreed = NoBook
    /\ visible = 0 /\ shown = NoBook
    /\ lapsed = {}
    /\ desks = Desks
    /\ records = <<>>
    /\ call = [c \in Calls |-> Idle]
    /\ drawn = 0
    /\ requests = 0
    /\ faults = 0

Free(c) == call[c].job = "none"
(* A member of a desk sends a request; the automated desks have no members. *)
Asks(c, d) == Free(c) /\ requests < MaxRequests /\ d \in desks \ {Bot, Seller}
Begin(c, job, d, drafts, ids) ==
    /\ drawn' = drawn + ids
    /\ call' = [call EXCEPT ![c] = [job |-> job, desk |-> d, drafts |-> drafts,
                                    record |-> NoRecord]]
    /\ UNCHANGED <<topicVars, mirrorVars, lapsed, desks, records, faults>>
Request(c, job, d, drafts, ids) ==
    /\ drawn + ids <= MaxUserIds
    /\ requests' = requests + 1
    /\ Begin(c, job, d, drafts, ids)

(* POST rfqs *)
PublishRfq(c, d) ==
    /\ Asks(c, d)
    /\ \E side \in Sides : Request(c, "rfq", d, <<Draft(RfqEvent(drawn + 1, side, d))>>, 1)

MayQuote(d, rfq) == rfq.status = "open" /\ rfq.desk # d
(* POST rfqs/[id]/quote *)
QuoteRfq(c, d, r) ==
    /\ Asks(c, d)
    /\ MayQuote(d, Book[r])
    /\ Request(c, "quote", d, <<Draft(QuoteEvent(r, drawn + 1, d))>>, 1)

(* acceptQuote: both desks are on the venue when the call begins. *)
BothDesks(rfq, quoter) == {rfq.desk, quoter} \subseteq desks

(* POST rfqs/[id]/accept *)
AcceptRoute(c, d, r) ==
    LET rfq == Book[r] IN
    /\ Asks(c, d)
    /\ rfq.status = "open"
    /\ rfq.desk = d
    /\ \E q \in rfq.quotes :
         /\ q.quote \notin lapsed
         /\ BothDesks(rfq, q.desk)
         /\ Request(c, "accept", d, <<Acceptance(r, q.quote, rfq, q.desk, d)>>, 0)

(* POST rfqs/[id]/cancel *)
CancelRoute(c, d, r) ==
    /\ Asks(c, d)
    /\ Book[r].status = "open"
    /\ Book[r].desk = d
    /\ Request(c, "cancel", d, <<Draft(CancelEvent(r, d))>>, 0)

(* resetDesk: cancel the desk's open RFQs; the desk goes when they are out. *)
ResetDesk(c, d) ==
    /\ Asks(c, d)
    /\ LET own == {r \in Ids : Book[r].status = "open" /\ Book[r].desk = d}
       IN  Request(c, "reset", d,
                   SetToSeq({Draft(CancelEvent(r, d)) : r \in own}), 0)

(* createTransferRequest: nothing while a demonstration trade is open;     *)
(* otherwise RFQ, quote and acceptance, on events it made and never reads. *)
ActiveTransferDemo ==
    \E i \in 1..Len(records) : records[i].seller = Seller /\ records[i].quote \notin lapsed
TransferDemo(c) ==
    LET r == drawn + 1
        q == drawn + 2
        rfq == [NoRfq EXCEPT !.desk = Seller, !.side = "sell"]
    IN  /\ Free(c) /\ requests < MaxRequests
        /\ ~ActiveTransferDemo
        /\ Request(c, "demo", Seller,
                   <<Draft(RfqEvent(r, "sell", Seller)), Draft(QuoteEvent(r, q, Bot)),
                     Acceptance(r, q, rfq, Bot, Seller)>>, 2)

(* marketTick, step 4 of tick, on one reading of the book: a quote for     *)
(* every RFQ the bot has not quoted, the best live quote on each of its    *)
(* own, and an RFQ on each side where it has none.  The lease and the rate *)
(* limit let one tick run at a time.  Prices only choose among live quotes.*)
(* Seeded fault: an RFQ that already has a quote, from anyone, is skipped. *)
UnquotedByAnyone(book) ==
    {r \in Ids : /\ MayQuote(Bot, book[r])
                 /\ book[r].desk \in desks \ {Seller}
                 /\ book[r].quotes = {}}
Unquoted(book) ==
    {r \in Ids : /\ MayQuote(Bot, book[r])
                 /\ book[r].desk \in desks \ {Seller}
                 /\ ~\E q \in book[r].quotes : q.desk = Bot}
Live(rfq) == {q \in rfq.quotes : q.desk # Bot /\ q.quote \notin lapsed /\ q.desk \in desks}
OwnOpen(book) == {r \in Ids : book[r].status = "open" /\ book[r].desk = Bot}
Acceptable(book) == {r \in OwnOpen(book) : Live(book[r]) # {}}
Missing(book) == {s \in Sides : ~\E r \in OwnOpen(book) : book[r].side = s}
(* bound: what a tick would publish still fits *)
TickFits(book) ==
    LET ids == Cardinality(Unquoted(book)) + Cardinality(Missing(book)) IN
    /\ drawn + ids <= MaxIds
    /\ Len(topic) + ids + Cardinality(Acceptable(book)) <= MaxTopic
MarketTick(c) ==
    /\ Free(c)
    /\ \A other \in Calls : call[other].job # "tick"
    /\ LET book == Book
           quotes == SetToSeq(Unquoted(book))
           sides == SetToSeq(Missing(book))
           own == Acceptable(book)
           n == Len(quotes)
       IN  /\ TickFits(book)
           /\ quotes # <<>> \/ sides # <<>> \/ own # {}
           /\ \E best \in [own -> UNION {Live(book[r]) : r \in own}] :
                /\ \A r \in own : best[r] \in Live(book[r])
                /\ Begin(c, "tick", Bot,
                      [i \in 1..n |-> Draft(QuoteEvent(quotes[i], drawn + i, Bot))]
                      \o SetToSeq({Acceptance(r, best[r].quote, book[r], best[r].desk, Bot)
                                    : r \in own})
                      \o [i \in 1..Len(sides) |-> Draft(RfqEvent(drawn + n + i, sides[i], Bot))],
                      n + Len(sides))
    /\ UNCHANGED requests

(* When the drafts are out a reset drops the institution; others return.   *)
AfterDrafts(c, k) ==
    IF k.drafts = <<>> /\ k.record = NoRecord
    THEN /\ call' = [call EXCEPT ![c] = Idle]
         /\ desks' = IF k.job = "reset" THEN desks \ {k.desk} ELSE desks
    ELSE call' = [call EXCEPT ![c] = k] /\ UNCHANGED desks

Reaches(e) == topic' = Append(topic, e) /\ agreed' = Apply(agreed, e)
(* publish: the message has consensus and the receipt arrived. *)
Publish(c) ==
    /\ call[c].record = NoRecord
    /\ call[c].drafts # <<>>
    /\ LET draft == Head(call[c].drafts) IN
         /\ Reaches(draft.event)
         /\ AfterDrafts(c, [call[c] EXCEPT !.drafts = Tail(@), !.record = draft.record])
    /\ UNCHANGED <<mirrorVars, lapsed, records, drawn, requests, faults>>

(* publish throws, perhaps after the message reached the topic.  A reset   *)
(* goes on to drop the desk, the tick goes on when it was accepting, any   *)
(* other handler answers with the error.                                   *)
PublishThrows(c) ==
    /\ call[c].record = NoRecord
    /\ call[c].drafts # <<>>
    /\ faults < MaxFaults
    /\ faults' = faults + 1
    /\ LET draft == Head(call[c].drafts)
           caught == call[c].job = "tick" /\ draft.event.type = "accept"
           k == [call[c] EXCEPT !.drafts = IF caught THEN Tail(@) ELSE <<>>]
       IN  /\ Reaches(draft.event) \/ UNCHANGED topicVars
           /\ AfterDrafts(c, k)
    /\ UNCHANGED <<mirrorVars, lapsed, records, drawn, requests>>

(* acceptQuote, after the await: the trade goes into the document.         *)
RecordTrade(c) ==
    /\ call[c].record # NoRecord
    /\ records' = Append(records, call[c].record)
    /\ AfterDrafts(c, [call[c] EXCEPT !.record = NoRecord])
    /\ UNCHANGED <<topicVars, mirrorVars, lapsed, drawn, requests, faults>>

(* Nothing to publish: a reset without open RFQs. *)
FinishEmpty(c) ==
    /\ call[c].job = "reset" /\ call[c].drafts = <<>>
    /\ AfterDrafts(c, call[c])
    /\ UNCHANGED <<topicVars, mirrorVars, lapsed, records, drawn, requests, faults>>

(* The instance dies with the request. *)
Die(c) ==
    /\ ~Free(c)
    /\ faults < MaxFaults
    /\ faults' = faults + 1
    /\ call' = [call EXCEPT ![c] = Idle]
    /\ UNCHANGED <<topicVars, mirrorVars, lapsed, desks, records, drawn, requests>>

MirrorShows ==
    /\ visible < Len(topic)
    /\ visible' = visible + 1
    /\ shown' = Apply(shown, topic[visible + 1])
    /\ UNCHANGED <<topicVars, lapsed, desks, records, call, drawn, requests, faults>>
DeadlinePasses(i) ==
    /\ i <= drawn
    /\ Cardinality(lapsed) < MaxLapses
    /\ i \notin lapsed
    /\ lapsed' = lapsed \cup {i}
    /\ UNCHANGED <<topicVars, mirrorVars, desks, records, call, drawn, requests, faults>>

Handle(c) == Publish(c) \/ RecordTrade(c) \/ FinishEmpty(c)

Next ==
    \/ \E c \in Calls : \/ \E d \in Desks : PublishRfq(c, d) \/ ResetDesk(c, d)
                        \/ \E d \in Desks, r \in Ids :
                              QuoteRfq(c, d, r) \/ AcceptRoute(c, d, r) \/ CancelRoute(c, d, r)
                        \/ TransferDemo(c)
                        \/ MarketTick(c)
                        \/ Handle(c)
                        \/ PublishThrows(c)
                        \/ Die(c)
    \/ MirrorShows
    \/ \E i \in Ids : DeadlinePasses(i)

(* Page loads drive the tick (after()), requests run to their end, and the *)
(* mirror node catches up with consensus.                                  *)
Fairness ==
    /\ WF_vars(MirrorShows)
    /\ \A c \in Calls : WF_vars(Handle(c))
    /\ WF_vars(\E c \in Calls : MarketTick(c))

Spec == Init /\ [][Next]_vars /\ Fairness

-----------------------------------------------------------------------------
Published(e) == \E i \in 1..Len(topic) : topic[i] = e

(* Whatever fails between the publication of an acceptance and the record  *)
(* of the trade, every recorded trade can be told from the topic alone:    *)
(* its RFQ, its quote and its acceptance are there, its seller is the desk *)
(* that sold, and no desk trades with itself.                              *)
RecordMatchesTopic ==
    \A i \in 1..Len(records) :
        LET t == records[i] IN
        /\ t.seller # t.buyer
        /\ \E d \in Desks : Published(AcceptEvent(t.rfq, t.quote, d))
        /\ \/ /\ Published(RfqEvent(t.rfq, "sell", t.seller))
              /\ Published(QuoteEvent(t.rfq, t.quote, t.buyer))
           \/ /\ Published(RfqEvent(t.rfq, "buy", t.buyer))
              /\ Published(QuoteEvent(t.rfq, t.quote, t.seller))

(* The first conclusion of an RFQ in consensus order stands: a later       *)
(* accept or cancel of a handler that had not seen it changes nothing.     *)
Concluded == {"accepted", "cancelled"}
ConclusionStands ==
    [][\A r \in Ids : agreed[r].status \in Concluded
          => /\ agreed'[r].status = agreed[r].status
             /\ agreed'[r].accepted = agreed[r].accepted]_vars

(* "a judge always has a counterparty: it quotes every open RFQ from       *)
(* another desk" (automated-desk.ts 17): again and again there is a moment *)
(* when every RFQ is quoted by the market maker or has ended, its desk     *)
(* gone, or the bound on ids stops the tick.                               *)
Ended(r) ==
    LET rfq == agreed[r] IN
    \/ rfq.status # "open" \/ rfq.desk \notin desks \ {Bot, Seller}
    \/ r \in lapsed
    \/ ~TickFits(Book)
    \/ \E q \in rfq.quotes : q.desk = Bot
EveryRfqIsQuoted == []<>(\A r \in Ids : Ended(r))
=============================================================================
