-------------------------- MODULE RfqMarketProofs --------------------------
(***************************************************************************)
(* Safety of RfqMarket, for any desks, any number of requests in flight,   *)
(* and every bound.                                                        *)
(*                                                                         *)
(* The argument.  An id is drawn once and its RFQ published once, so a     *)
(* message about an RFQ that any book shows is about the one RFQ of that   *)
(* id (OneRfq).  A book is always true of the topic, however much of the   *)
(* topic it lacks (TrueBook), so what a handler decided on a book may be   *)
(* stale but is never false (DraftOK), and what it records is on the topic.*)
(***************************************************************************)
EXTENDS RfqMarket, FiniteSetTheorems, SequenceTheorems, TLAPS

-----------------------------------------------------------------------------
(* Types *)

Known == Desks \cup {NoDesk}
Messages == [type : {"rfq", "quote", "accept", "cancel"}, rfq : Ids, quote : Nat,
             side : {"sell", "buy", ""}, by : Desks]
Events == {e \in Messages : /\ e.type = "rfq" => e.quote = 0 /\ e.side # ""
                            /\ e.type # "rfq" => e.side = ""}
QuoteSet == [quote : Nat, desk : Desks]
Rfqs == [status : {"none", "open", "accepted", "cancelled"}, desk : Known,
         side : {"sell", "buy", ""}, quotes : SUBSET QuoteSet, accepted : Nat]
Books == [Ids -> Rfqs]
Trades == [rfq : Nat, quote : Nat, seller : Known, buyer : Known]
Drafts == [event : Events, record : Trades]
Jobs == {"none", "rfq", "quote", "accept", "cancel", "reset", "demo", "tick"}
CallStates == [job : Jobs, desk : Known, drafts : Seq(Drafts), record : Trades]

TypeOK ==
    /\ topic \in Seq(Events)
    /\ agreed \in Books
    /\ visible \in 0..Len(topic)
    /\ shown \in Books
    /\ desks \subseteq Desks
    /\ records \in Seq(Trades)
    /\ call \in [Calls -> CallStates]
    /\ drawn \in Nat

-----------------------------------------------------------------------------
(* What is true of a set E of messages *)

Out == {topic[i] : i \in 1..Len(topic)}

(* The RFQ of an id is published once, and no desk quotes its own.         *)
OneRfq(E, ids) ==
    /\ \A e \in E : e.rfq <= ids
    /\ \A e, f \in E : e.type = "rfq" /\ f.type = "rfq" /\ e.rfq = f.rfq => e = f
    /\ \A e, f \in E : e.type = "rfq" /\ f.type = "quote" /\ e.rfq = f.rfq => e.by # f.by

TrueBook(book, E) ==
    \A r \in Ids : book[r].status # "none" =>
        /\ book[r].desk \in Desks /\ book[r].side \in {"sell", "buy"}
        /\ RfqEvent(r, book[r].side, book[r].desk) \in E
        /\ \A q \in book[r].quotes : QuoteEvent(r, q.quote, q.desk) \in E

TrueTrade(t, E) ==
    /\ t.seller # t.buyer
    /\ \/ /\ RfqEvent(t.rfq, "sell", t.seller) \in E
          /\ QuoteEvent(t.rfq, t.quote, t.buyer) \in E
       \/ /\ RfqEvent(t.rfq, "buy", t.buyer) \in E
          /\ QuoteEvent(t.rfq, t.quote, t.seller) \in E
Accepted(t, E) == \E d \in Desks : AcceptEvent(t.rfq, t.quote, d) \in E

(* What a call has drafted: the messages before the i-th of its drafts.    *)
Said(drafts, i) == {drafts[j].event : j \in 1..(i - 1)}
Slots(drafts) == 1..Len(drafts)
DraftOK(drafts, i, E) ==
    LET d == drafts[i] IN
    IF d.event.type = "accept"
    THEN /\ \E by \in Desks : d.event = AcceptEvent(d.record.rfq, d.record.quote, by)
         /\ TrueTrade(d.record, E \cup Said(drafts, i))
    ELSE d.record = NoRecord

(* Every message that is out or drafted. *)
AllEvents == Out \cup {e \in Events : \E c \in Calls : \E i \in Slots(call[c].drafts) :
                                        e = call[c].drafts[i].event}

(* A drafted RFQ is not out, and drafted in one place.                     *)
RfqDraftsFresh ==
    \A c \in Calls : \A i \in Slots(call[c].drafts) : call[c].drafts[i].event.type = "rfq" =>
        /\ \A e \in Out : e.type = "rfq" => e.rfq # call[c].drafts[i].event.rfq
        /\ \A d \in Calls : \A j \in Slots(call[d].drafts) :
              /\ call[d].drafts[j].event.type = "rfq"
              /\ call[d].drafts[j].event.rfq = call[c].drafts[i].event.rfq
              => d = c /\ j = i

MarketInv ==
    /\ TypeOK
    /\ OneRfq(AllEvents, drawn)
    /\ RfqDraftsFresh
    /\ TrueBook(agreed, Out) /\ TrueBook(shown, Out)
    /\ \A c \in Calls : \A i \in Slots(call[c].drafts) : DraftOK(call[c].drafts, i, Out)
    /\ \A c \in Calls : call[c].record # NoRecord =>
          TrueTrade(call[c].record, Out) /\ Accepted(call[c].record, Out)
    /\ \A i \in 1..Len(records) :
          TrueTrade(records[i], Out) /\ Accepted(records[i], Out)

-----------------------------------------------------------------------------
(* Books and messages *)

LEMMA Shapes ==
    ASSUME NEW e \in Events
    PROVE  /\ e.type = "rfq" => e = RfqEvent(e.rfq, e.side, e.by) /\ e.side \in {"sell", "buy"}
           /\ e.type = "quote" => e = QuoteEvent(e.rfq, e.quote, e.by)
BY DEF Events, Messages, RfqEvent, QuoteEvent

LEMMA EventTypes ==
    ASSUME NEW r \in Ids, NEW q \in Nat, NEW d \in Desks, NEW side \in {"sell", "buy"}
    PROVE  /\ RfqEvent(r, side, d) \in Events /\ QuoteEvent(r, q, d) \in Events
           /\ AcceptEvent(r, q, d) \in Events /\ CancelEvent(r, d) \in Events
BY DEF Events, Messages, RfqEvent, QuoteEvent, AcceptEvent, CancelEvent

(* What a message does to a book. *)
LEMMA ApplyTrue ==
    ASSUME NEW book \in Books, NEW E, TrueBook(book, E), NEW e \in Events, NEW F,
           E \subseteq F, e \in F
    PROVE  /\ Apply(book, e) \in Books
           /\ TrueBook(Apply(book, e), F)
<1> DEFINE r == e.rfq
           new == Apply(book, e)
<1>1. r \in Ids /\ e.by \in Desks /\ e.quote \in Nat /\ book[r] \in Rfqs
      /\ book[r].quotes \subseteq QuoteSet
  BY DEF Events, Messages, Books, Rfqs
<1>2. TrueBook(book, F)
  BY DEF TrueBook
<1>3. CASE e.type = "rfq"
  <2> DEFINE made == [NoRfq EXCEPT !.status = "open", !.desk = e.by, !.side = e.side]
  <2>1. e = RfqEvent(r, e.side, e.by) /\ e.side \in {"sell", "buy"}
    BY <1>3, Shapes
  <2>2. made \in Rfqs /\ made.quotes = {} /\ made.desk = e.by /\ made.side = e.side
    BY <1>1, <2>1 DEF NoRfq, Rfqs, Known
  <2>3. new = [book EXCEPT ![r] = made]
    BY <1>3 DEF Apply
  <2> HIDE DEF made, new
  <2> QED BY <1>1, <1>2, <2>1, <2>2, <2>3 DEF Books, TrueBook, new
<1>4. CASE e.type = "quote" /\ book[r].status = "open"
  <2> DEFINE q == [quote |-> e.quote, desk |-> e.by]
             made == [book[r] EXCEPT !.quotes = @ \cup {q}]
  <2>1. e = QuoteEvent(r, e.quote, e.by)
    BY <1>4, Shapes
  <2>2. q \in QuoteSet /\ q.quote = e.quote /\ q.desk = e.by
    BY <1>1 DEF QuoteSet
  <2> HIDE DEF q
  <2>3. /\ made \in Rfqs /\ made.quotes = book[r].quotes \cup {q}
        /\ made.status = book[r].status /\ made.desk = book[r].desk /\ made.side = book[r].side
    BY <1>1, <2>2 DEF Rfqs
  <2>4. new = [book EXCEPT ![r] = made]
    BY <1>1, <1>4 DEF Apply, q, Books, Rfqs
  <2> HIDE DEF made, new
  <2> QED BY <1>1, <1>2, <2>1, <2>2, <2>3, <2>4 DEF Books, TrueBook, new
<1>5. CASE /\ e.type = "accept" /\ book[r].status = "open"
           /\ \E q \in book[r].quotes : q.quote = e.quote
  <2> DEFINE made == [book[r] EXCEPT !.status = "accepted", !.accepted = e.quote]
  <2>1. /\ made \in Rfqs /\ made.quotes = book[r].quotes
        /\ made.desk = book[r].desk /\ made.side = book[r].side
    BY <1>1 DEF Rfqs
  <2>2. new = [book EXCEPT ![r] = made]
    BY <1>1, <1>5 DEF Apply, Books, Rfqs
  <2> HIDE DEF made, new
  <2> QED BY <1>1, <1>2, <1>5, <2>1, <2>2 DEF Books, TrueBook, new
<1>6. CASE e.type = "cancel" /\ book[r].status = "open"
  <2> DEFINE made == [book[r] EXCEPT !.status = "cancelled"]
  <2>1. /\ made \in Rfqs /\ made.quotes = book[r].quotes
        /\ made.desk = book[r].desk /\ made.side = book[r].side
    BY <1>1 DEF Rfqs
  <2>2. new = [book EXCEPT ![r] = made]
    BY <1>1, <1>6 DEF Apply, Books, Rfqs
  <2> HIDE DEF made, new
  <2> QED BY <1>1, <1>2, <1>6, <2>1, <2>2 DEF Books, TrueBook, new
<1>7. CASE /\ ~(e.type = "rfq") /\ ~(e.type = "quote" /\ book[r].status = "open")
           /\ ~(/\ e.type = "accept" /\ book[r].status = "open"
                /\ \E q \in book[r].quotes : q.quote = e.quote)
           /\ ~(e.type = "cancel" /\ book[r].status = "open")
  <2>1. new = book
    BY <1>7, Zenon DEF Apply
  <2> QED BY <1>2, <2>1
<1> QED BY <1>3, <1>4, <1>5, <1>6, <1>7, Zenon

(* More messages make no book and no trade false. *)
LEMMA BookMono ==
    ASSUME NEW book, NEW E, NEW F, E \subseteq F, TrueBook(book, E)
    PROVE  TrueBook(book, F)
BY DEF TrueBook

LEMMA TradeMono ==
    ASSUME NEW t, NEW E, NEW F, TrueTrade(t, E), \A e \in E : e.type # "accept" => e \in F
    PROVE  TrueTrade(t, F)
BY DEF TrueTrade, RfqEvent, QuoteEvent

LEMMA OutGrows ==
    ASSUME topic \in Seq(Events), NEW e \in Events, topic' = Append(topic, e)
    PROVE  Out' = Out \cup {e} /\ topic' \in Seq(Events) /\ Len(topic') = Len(topic) + 1
<1>1. /\ topic' \in Seq(Events) /\ Len(topic') = Len(topic) + 1 /\ Len(topic) \in Nat
      /\ \A i \in 1..Len(topic) : topic'[i] = topic[i]
      /\ topic'[Len(topic) + 1] = e
  BY AppendProperties, LenProperties
<1>2. \A i \in 1..Len(topic) + 1 : i \in 1..Len(topic) \/ i = Len(topic) + 1
  BY <1>1
<1> QED BY <1>1, <1>2 DEF Out

-----------------------------------------------------------------------------
(* A call begins *)

(* What new drafts must be, "ids" of them drawn.                           *)
NewDrafts(D, ids) ==
    /\ D \in Seq(Drafts) /\ ids \in Nat
    /\ \A i \in 1..Len(D) : LET e == D[i].event IN
          /\ e.rfq <= drawn + ids
          /\ e.type = "rfq" =>
                /\ e.rfq > drawn
                /\ \A j \in 1..Len(D) : D[j].event.type = "rfq" /\ D[j].event.rfq = e.rfq => j = i
          /\ e.type = "quote" =>
                \/ \E f \in Out : f.type = "rfq" /\ f.rfq = e.rfq /\ f.by # e.by
                \/ /\ e.rfq > drawn
                   /\ \A j \in 1..Len(D) :
                         D[j].event.type = "rfq" /\ D[j].event.rfq = e.rfq => D[j].event.by # e.by
          /\ DraftOK(D, i, Out)

LEMMA CallTypes ==
    ASSUME TypeOK, NEW c \in Calls
    PROVE  /\ call[c] \in CallStates /\ call[c].drafts \in Seq(Drafts)
           /\ Len(call[c].drafts) \in Nat /\ call[c].record \in Trades
           /\ \A i \in Slots(call[c].drafts) : /\ call[c].drafts[i] \in Drafts
                                  /\ call[c].drafts[i].event \in Events
                                  /\ call[c].drafts[i].event.rfq \in Ids
<1>1. call[c] \in CallStates /\ call[c].drafts \in Seq(Drafts) /\ call[c].record \in Trades
  BY DEF TypeOK, CallStates
<1>2. /\ Len(call[c].drafts) \in Nat
      /\ \A i \in Slots(call[c].drafts) : call[c].drafts[i] \in Drafts
  BY <1>1, LenProperties, ElementOfSeq DEF Slots
<1> QED BY <1>1, <1>2 DEF Drafts, Events, Messages

LEMMA IdsNat == Ids \subseteq Nat
BY MarketAssumption DEF Ids

LEMMA NoRecordType == NoRecord \in Trades
BY DEF NoRecord, Trades, Known

LEMMA BeginKeeps ==
    ASSUME MarketInv, NEW c \in Calls, NEW job \in Jobs, NEW d \in Desks, NEW D, NEW ids,
           Begin(c, job, d, D, ids), NewDrafts(D, ids)
    PROVE  MarketInv'
<1> DEFINE k == [job |-> job, desk |-> d, drafts |-> D, record |-> NoRecord]
<1>1. /\ topic' = topic /\ agreed' = agreed /\ visible' = visible /\ shown' = shown
      /\ desks' = desks /\ records' = records
      /\ drawn' = drawn + ids /\ call' = [call EXCEPT ![c] = k]
  BY DEF Begin, topicVars, mirrorVars
<1>2. k \in CallStates /\ k.drafts = D /\ k.record = NoRecord
  BY NoRecordType DEF CallStates, NewDrafts, Known
<1> HIDE DEF k
<1>3. TypeOK /\ drawn \in Nat /\ ids \in Nat
  BY DEF MarketInv, TypeOK, NewDrafts
<1>4. TypeOK'
  BY <1>1, <1>2, <1>3 DEF TypeOK
<1>5. Out' = Out
  BY <1>1 DEF Out
<1>6. /\ call'[c].drafts = D /\ call'[c].record = NoRecord
      /\ \A x \in Calls \ {c} : call'[x] = call[x]
  BY <1>1, <1>2, <1>3 DEF TypeOK
<1>7. /\ Slots(call'[c].drafts) = 1..Len(D)
      /\ \A x \in Calls \ {c} : Slots(call'[x].drafts) = Slots(call[x].drafts)
  BY <1>6 DEF Slots
<1>8. \A i \in 1..Len(D) : D[i].event \in Events /\ D[i].event.rfq \in Nat
  <2>1. \A i \in 1..Len(D) : D[i] \in Drafts
    BY ElementOfSeq DEF NewDrafts
  <2> QED BY <2>1, IdsNat DEF Drafts, Events, Messages
<1>9. \A e \in AllEvents' : e \in AllEvents \/ \E i \in 1..Len(D) : e = D[i].event
  BY <1>5, <1>6, <1>7 DEF AllEvents
<1>10. OneRfq(AllEvents, drawn) /\ Out \subseteq AllEvents
  BY DEF MarketInv, AllEvents
<1>11. \A e \in AllEvents : e.rfq \in Nat /\ e.rfq <= drawn
  <2>1. \A e \in Out : e \in Events
    BY <1>3, ElementOfSeq DEF TypeOK, Out
  <2>2. \A e \in Events : e.rfq \in Nat
    BY IdsNat DEF Events, Messages
  <2> QED BY <1>10, <2>1, <2>2 DEF OneRfq, AllEvents
<1>12. OneRfq(AllEvents', drawn')
  <2>1. \A e \in AllEvents' : e.rfq <= drawn'
    BY <1>1, <1>3, <1>8, <1>9, <1>11 DEF NewDrafts
  <2>2. ASSUME NEW e \in AllEvents', NEW f \in AllEvents', e.type = "rfq", f.type = "rfq",
               e.rfq = f.rfq
        PROVE  e = f
    <3>1. CASE e \in AllEvents /\ f \in AllEvents
      BY <1>10, <2>2, <3>1 DEF OneRfq
    <3>2. ASSUME NEW i \in 1..Len(D), e = D[i].event \/ f = D[i].event,
                 e \in AllEvents \/ f \in AllEvents
          PROVE  e = f
      BY <1>3, <1>8, <1>11, <2>2, <3>2 DEF NewDrafts
    <3>3. ASSUME NEW i \in 1..Len(D), NEW j \in 1..Len(D), e = D[i].event, f = D[j].event
          PROVE  e = f
      BY <2>2, <3>3 DEF NewDrafts
    <3> QED BY <1>9, <3>1, <3>2, <3>3
  <2>3. ASSUME NEW e \in AllEvents', NEW f \in AllEvents', e.type = "rfq", f.type = "quote",
               e.rfq = f.rfq
        PROVE  e.by # f.by
    <3>1. CASE e \in AllEvents /\ f \in AllEvents
      BY <1>10, <2>3, <3>1 DEF OneRfq
    <3>2. ASSUME NEW i \in 1..Len(D), e = D[i].event, f \in AllEvents
          PROVE  FALSE
      BY <1>3, <1>8, <1>11, <2>3, <3>2 DEF NewDrafts
    <3>3. ASSUME NEW i \in 1..Len(D), f = D[i].event, e \in AllEvents
          PROVE  e.by # f.by
      <4>1. \/ \E g \in Out : g.type = "rfq" /\ g.rfq = f.rfq /\ g.by # f.by
            \/ f.rfq > drawn
        BY <2>3, <3>3 DEF NewDrafts
      <4> QED BY <1>3, <1>8, <1>10, <1>11, <2>3, <3>3, <4>1 DEF OneRfq
    <3>4. ASSUME NEW i \in 1..Len(D), NEW j \in 1..Len(D), e = D[j].event, f = D[i].event
          PROVE  e.by # f.by
      <4>1. e.rfq > drawn /\ e.rfq \in Nat
        BY <1>8, <2>3, <3>4 DEF NewDrafts
      <4>2. ~\E g \in Out : g.rfq = f.rfq
        BY <1>3, <1>10, <1>11, <2>3, <4>1
      <4> QED BY <2>3, <3>4, <4>2 DEF NewDrafts
    <3> QED BY <1>9, <3>1, <3>2, <3>3, <3>4
  <2> QED BY <2>1, <2>2, <2>3 DEF OneRfq
<1>13. RfqDraftsFresh'
  <2> SUFFICES ASSUME NEW x \in Calls, NEW i \in Slots(call'[x].drafts),
                      call'[x].drafts[i].event.type = "rfq"
               PROVE  /\ \A e \in Out : e.type = "rfq" => e.rfq # call'[x].drafts[i].event.rfq
                      /\ \A y \in Calls : \A j \in Slots(call'[y].drafts) :
                            /\ call'[y].drafts[j].event.type = "rfq"
                            /\ call'[y].drafts[j].event.rfq = call'[x].drafts[i].event.rfq
                            => y = x /\ j = i
    BY <1>5 DEF RfqDraftsFresh
  <2>1. \A y \in Calls : \A j \in Slots(call[y].drafts) : call[y].drafts[j].event \in AllEvents
    BY <1>3, CallTypes DEF AllEvents
  <2>2. \A y \in Calls \ {c} : \A j \in Slots(call'[y].drafts) :
            call'[y].drafts[j].event \in AllEvents
    BY <1>6, <1>7, <2>1
  <2>3. CASE x = c
    <3>1. /\ i \in 1..Len(D) /\ call'[x].drafts[i] = D[i]
          /\ D[i].event.type = "rfq" /\ D[i].event.rfq > drawn
      BY <1>6, <1>7, <2>3 DEF NewDrafts
    <3>2. \A e \in AllEvents : e.rfq # D[i].event.rfq
      BY <1>3, <1>8, <1>11, <3>1
    <3>3. \A j \in 1..Len(D) :
             D[j].event.type = "rfq" /\ D[j].event.rfq = D[i].event.rfq => j = i
      BY <3>1 DEF NewDrafts
    <3> QED BY <1>6, <1>7, <1>10, <2>2, <2>3, <3>1, <3>2, <3>3
  <2>4. CASE x # c
    <3>1. /\ i \in Slots(call[x].drafts) /\ call'[x].drafts[i] = call[x].drafts[i]
          /\ call[x].drafts[i].event.rfq \in Nat /\ call[x].drafts[i].event.rfq <= drawn
      BY <1>6, <1>7, <1>11, <2>1, <2>4
    <3>2. \A e \in Out : e.type = "rfq" => e.rfq # call[x].drafts[i].event.rfq
      BY <3>1 DEF MarketInv, RfqDraftsFresh
    <3>3. ASSUME NEW y \in Calls, NEW j \in Slots(call'[y].drafts), call'[y].drafts[j].event.type = "rfq",
                 call'[y].drafts[j].event.rfq = call'[x].drafts[i].event.rfq
          PROVE  y = x /\ j = i
      <4>1. CASE y = c
        <5>1. j \in 1..Len(D) /\ call'[y].drafts[j] = D[j] /\ D[j].event.type = "rfq"
          BY <1>6, <1>7, <3>3, <4>1
        <5>2. D[j].event.rfq > drawn
          BY <5>1 DEF NewDrafts
        <5>3. D[j].event.rfq \in Nat /\ drawn \in Nat
          BY <1>3, <1>8, <5>1
        <5> QED BY <3>1, <3>3, <5>1, <5>2, <5>3
      <4>2. CASE y # c
        BY <1>6, <1>7, <3>1, <3>3, <4>2 DEF MarketInv, RfqDraftsFresh
      <4> QED BY <4>1, <4>2
    <3> QED BY <3>1, <3>2, <3>3
  <2> QED BY <2>3, <2>4
<1>14. \A x \in Calls : \A i \in Slots(call'[x].drafts) : DraftOK(call'[x].drafts, i, Out')
  <2> SUFFICES ASSUME NEW x \in Calls, NEW i \in Slots(call'[x].drafts)
               PROVE  DraftOK(call'[x].drafts, i, Out)
    BY <1>5 DEF DraftOK
  <2>1. CASE x = c
    BY <1>6, <1>7, <2>1 DEF NewDrafts
  <2>2. CASE x # c
    BY <1>6, <1>7, <2>2 DEF MarketInv
  <2> QED BY <2>1, <2>2
<1>15. /\ TrueBook(agreed', Out') /\ TrueBook(shown', Out')
       /\ \A x \in Calls : call'[x].record # NoRecord =>
             TrueTrade(call'[x].record, Out') /\ Accepted(call'[x].record, Out')
       /\ \A i \in 1..Len(records') :
             TrueTrade(records'[i], Out') /\ Accepted(records'[i], Out')
  <2>1. TrueBook(agreed', Out') /\ TrueBook(shown', Out')
    BY <1>1, <1>5 DEF MarketInv, TrueBook
  <2>2. \A x \in Calls : call'[x].record # NoRecord => call'[x] = call[x]
    BY <1>6
  <2> QED BY <1>1, <1>5, <1>6, <2>1, <2>2 DEF MarketInv
<1> QED BY <1>4, <1>12, <1>13, <1>14, <1>15 DEF MarketInv


-----------------------------------------------------------------------------
(* A call goes on *)

(* What a call is after a step of it: what remains of its drafts, and the  *)
(* record it is to write.                                                  *)
Becomes(c, drafts, record) ==
    /\ call' \in [Calls -> CallStates]
    /\ \A x \in Calls \ {c} : call'[x] = call[x]
    /\ call'[c].drafts = drafts /\ call'[c].record = record
    /\ desks' \subseteq desks

LEMMA AfterShape ==
    ASSUME TypeOK, NEW c \in Calls, NEW k \in CallStates, AfterDrafts(c, k)
    PROVE  Becomes(c, k.drafts, k.record)
<1>1. Idle \in CallStates /\ Idle.drafts = <<>> /\ Idle.record = NoRecord
  BY NoRecordType DEF Idle, CallStates, Jobs, Known
<1> HIDE DEF Idle
<1>2. /\ call' = [call EXCEPT ![c] = Idle] \/ call' = [call EXCEPT ![c] = k]
      /\ call' = [call EXCEPT ![c] = Idle] => \/ k.drafts = <<>> /\ k.record = NoRecord
                                              \/ call' = [call EXCEPT ![c] = k]
      /\ desks' \subseteq desks
  BY DEF AfterDrafts
<1> QED BY <1>1, <1>2 DEF TypeOK, Becomes

(* The first draft is published, or lost on the way.                       *)
LEMMA PopKeeps ==
    ASSUME MarketInv, NEW c \in Calls, call[c].drafts # <<>>,
           NEW drafts, NEW record, Becomes(c, drafts, record),
           Reaches(Head(call[c].drafts).event) \/ UNCHANGED topicVars,
           \/ drafts = <<>>
           \/ /\ drafts = Tail(call[c].drafts)
              /\ \/ Reaches(Head(call[c].drafts).event)
                 \/ Head(call[c].drafts).event.type = "accept",
           \/ record = NoRecord
           \/ record = Head(call[c].drafts).record /\ Reaches(Head(call[c].drafts).event),
           UNCHANGED <<mirrorVars, records, drawn>>
    PROVE  MarketInv'
<1> DEFINE ds == call[c].drafts
           e == Head(ds).event
<1>1. TypeOK /\ ds \in Seq(Drafts) /\ Len(ds) \in Nat /\ Len(ds) # 0
  BY CallTypes, EmptySeq DEF MarketInv
<1>2. /\ 1 \in Slots(ds) /\ Head(ds) = ds[1] /\ ds[1] \in Drafts /\ e \in Events
  <2>1. 1 \in Slots(ds) /\ Head(ds) = ds[1]
    BY <1>1 DEF Slots
  <2>2. ds[1] \in Drafts
    BY <1>1, <2>1, ElementOfSeq DEF Slots
  <2> QED BY <2>1, <2>2 DEF Drafts
<1>3. \A i \in Slots(drafts) : i + 1 \in Slots(ds) /\ drafts[i] = ds[i + 1]
  <2>1. CASE drafts = <<>>
    BY <2>1 DEF Slots
  <2>2. CASE drafts = Tail(ds)
    <3>1. /\ Len(drafts) = Len(ds) - 1
          /\ \A i \in 1..Len(drafts) : drafts[i] = ds[i + 1]
      BY <1>1, <2>2, HeadTailProperties, EmptySeq
    <3> HIDE DEF ds
    <3> QED BY <1>1, <3>1 DEF Slots
  <2> QED BY <2>1, <2>2
<1>4. /\ Out \subseteq Out' /\ Out' \subseteq Out \cup {e}
      /\ Reaches(e) => e \in Out'
      /\ topic' \in Seq(Events) /\ Len(topic) \in Nat /\ Len(topic') \in Nat
      /\ Len(topic) <= Len(topic')
  <2>1. CASE Reaches(e)
    BY <1>1, <1>2, <2>1, OutGrows, LenProperties DEF Reaches, TypeOK
  <2>2. CASE ~Reaches(e)
    BY <1>1, <2>2, LenProperties DEF topicVars, TypeOK, Out
  <2> QED BY <2>1, <2>2
<1>5. agreed' \in Books /\ TrueBook(agreed', Out') /\ TrueBook(shown', Out')
  <2>1. TrueBook(agreed, Out) /\ TrueBook(shown, Out) /\ agreed \in Books
    BY DEF MarketInv, TypeOK
  <2>2. TrueBook(shown', Out')
    BY <1>4, <2>1, BookMono DEF mirrorVars
  <2>3. CASE Reaches(e)
    BY <1>2, <1>4, <2>1, <2>2, <2>3, ApplyTrue DEF Reaches
  <2>4. CASE ~Reaches(e)
    BY <1>4, <2>1, <2>2, <2>4, BookMono DEF topicVars
  <2> QED BY <2>3, <2>4
<1>6. TypeOK'
  BY <1>1, <1>4, <1>5 DEF TypeOK, Becomes, mirrorVars
<1>7. /\ call'[c].drafts = drafts /\ call'[c].record = record
      /\ \A x \in Calls \ {c} : call'[x] = call[x]
  BY DEF Becomes
<1>8. AllEvents' \subseteq AllEvents
  <2> SUFFICES ASSUME NEW f \in AllEvents' PROVE f \in AllEvents
    OBVIOUS
  <2>1. CASE f \in Out'
    BY <1>2, <1>4, <2>1 DEF AllEvents
  <2>2. ASSUME f \in Events, NEW x \in Calls, NEW i \in Slots(call'[x].drafts),
               f = call'[x].drafts[i].event
        PROVE  f \in AllEvents
    <3>1. CASE x = c
      <4>1. i \in Slots(drafts) /\ f = drafts[i].event
        BY <1>7, <2>2, <3>1
      <4>2. i + 1 \in Slots(call[c].drafts) /\ f = call[c].drafts[i + 1].event
        BY <1>3, <4>1
      <4> QED BY <2>2, <4>2 DEF AllEvents
    <3>2. CASE x # c
      <4>1. i \in Slots(call[x].drafts) /\ f = call[x].drafts[i].event
        BY <1>7, <2>2, <3>2
      <4> QED BY <2>2, <4>1 DEF AllEvents
    <3> QED BY <3>1, <3>2
  <2> QED BY <2>1, <2>2 DEF AllEvents
<1>9. OneRfq(AllEvents', drawn')
  BY <1>8 DEF MarketInv, OneRfq
<1>10. RfqDraftsFresh'
  <2> SUFFICES ASSUME NEW x \in Calls, NEW i \in Slots(call'[x].drafts),
                      call'[x].drafts[i].event.type = "rfq"
               PROVE  /\ \A f \in Out' : f.type = "rfq" => f.rfq # call'[x].drafts[i].event.rfq
                      /\ \A y \in Calls : \A j \in Slots(call'[y].drafts) :
                            /\ call'[y].drafts[j].event.type = "rfq"
                            /\ call'[y].drafts[j].event.rfq = call'[x].drafts[i].event.rfq
                            => y = x /\ j = i
    BY DEF RfqDraftsFresh
  <2> DEFINE at(y, j) == IF y = c THEN j + 1 ELSE j
  <2>1. \A y \in Calls : \A j \in Slots(call'[y].drafts) :
            /\ at(y, j) \in Slots(call[y].drafts) /\ j \in Int
            /\ call'[y].drafts[j] = call[y].drafts[at(y, j)]
            /\ y = c => at(y, j) # 1
    <3> SUFFICES ASSUME NEW y \in Calls, NEW j \in Slots(call'[y].drafts)
                 PROVE  /\ at(y, j) \in Slots(call[y].drafts) /\ j \in Int
                        /\ call'[y].drafts[j] = call[y].drafts[at(y, j)]
                        /\ y = c => at(y, j) # 1
      OBVIOUS
    <3>1. j \in Int /\ j >= 1
      BY DEF Slots
    <3> QED BY <1>3, <1>7, <3>1
  <2>2. \A y \in Calls : \A j \in Slots(call[y].drafts) :
            /\ call[y].drafts[j].event.type = "rfq"
            /\ call[y].drafts[j].event.rfq = call'[x].drafts[i].event.rfq
            => y = x /\ j = at(x, i)
    BY <2>1 DEF MarketInv, RfqDraftsFresh
  <2>3. \A f \in Out : f.type = "rfq" => f.rfq # call'[x].drafts[i].event.rfq
    BY <2>1 DEF MarketInv, RfqDraftsFresh
  <2>4. ~(e.type = "rfq" /\ e.rfq = call'[x].drafts[i].event.rfq)
    BY <1>2, <2>1, <2>2
  <2>5. ASSUME NEW y \in Calls, NEW j \in Slots(call'[y].drafts),
               call'[y].drafts[j].event.type = "rfq",
               call'[y].drafts[j].event.rfq = call'[x].drafts[i].event.rfq
        PROVE  y = x /\ j = i
    BY <2>1, <2>2, <2>5
  <2> QED BY <1>4, <2>3, <2>4, <2>5
<1>11. \A x \in Calls : \A i \in Slots(call'[x].drafts) : DraftOK(call'[x].drafts, i, Out')
  <2> SUFFICES ASSUME NEW x \in Calls, NEW i \in Slots(call'[x].drafts)
               PROVE  DraftOK(call'[x].drafts, i, Out')
    OBVIOUS
  <2>1. CASE x # c
    <3>1. call'[x] = call[x] /\ DraftOK(call[x].drafts, i, Out)
      BY <1>7, <2>1 DEF MarketInv
    <3>2. Out \cup Said(call[x].drafts, i) \subseteq Out' \cup Said(call[x].drafts, i)
      BY <1>4
    <3> QED BY <3>1, <3>2, TradeMono DEF DraftOK
  <2>2. CASE x = c
    <3>1. /\ i \in Slots(drafts) /\ i + 1 \in Slots(ds) /\ drafts[i] = ds[i + 1]
          /\ DraftOK(ds, i + 1, Out)
      BY <1>3, <1>7, <2>2 DEF MarketInv
    <3>2. drafts # <<>>
      BY <3>1, EmptySeq DEF Slots
    <3>3. Reaches(e) \/ e.type = "accept"
      BY <3>2
    <3>4. \A f \in Said(ds, i + 1) : f = e \/ f \in Said(drafts, i)
      <4> SUFFICES ASSUME NEW j \in 1..((i + 1) - 1) PROVE ds[j].event = e \/ ds[j].event \in Said(drafts, i)
        BY DEF Said
      <4>1. i \in Nat /\ j \in Nat /\ j <= i /\ j >= 1 /\ i <= Len(drafts)
        BY <3>1 DEF Slots
      <4>2. CASE j = 1
        BY <1>2, <4>2
      <4>3. CASE j # 1
        <5>1. j - 1 \in 1..(i - 1) /\ j - 1 \in Slots(drafts) /\ (j - 1) + 1 = j
          BY <4>1, <4>3, <3>1 DEF Slots
        <5>2. drafts[j - 1] = ds[j]
          BY <1>3, <5>1
        <5> QED BY <5>1, <5>2 DEF Said
      <4> QED BY <4>2, <4>3
    <3>5. \A f \in Out \cup Said(ds, i + 1) : f.type # "accept" => f \in Out' \cup Said(drafts, i)
      BY <1>4, <3>3, <3>4
    <3> QED BY <1>7, <2>2, <3>1, <3>5, TradeMono DEF DraftOK
  <2> QED BY <2>1, <2>2
<1>12. ASSUME NEW t, TrueTrade(t, Out), Accepted(t, Out)
       PROVE  TrueTrade(t, Out') /\ Accepted(t, Out')
  BY <1>4, <1>12, TradeMono DEF Accepted
<1>13. record # NoRecord => TrueTrade(record, Out') /\ Accepted(record, Out')
  <2> SUFFICES ASSUME record # NoRecord
               PROVE  TrueTrade(record, Out') /\ Accepted(record, Out')
    OBVIOUS
  <2>1. record = ds[1].record /\ Reaches(e) /\ e = ds[1].event
    BY <1>2
  <2>2. DraftOK(ds, 1, Out)
    BY <1>2 DEF MarketInv
  <2>3. /\ \E by \in Desks : e = AcceptEvent(record.rfq, record.quote, by)
        /\ TrueTrade(record, Out \cup Said(ds, 1))
    BY <2>1, <2>2 DEF DraftOK
  <2>4. Said(ds, 1) = {}
    BY DEF Said
  <2> QED BY <1>4, <2>1, <2>3, <2>4, TradeMono DEF Accepted
<1>14. \A x \in Calls : call'[x].record # NoRecord =>
          TrueTrade(call'[x].record, Out') /\ Accepted(call'[x].record, Out')
  BY <1>7, <1>12, <1>13 DEF MarketInv
<1>15. \A i \in 1..Len(records') : TrueTrade(records'[i], Out') /\ Accepted(records'[i], Out')
  BY <1>12 DEF MarketInv
<1> QED BY <1>5, <1>6, <1>9, <1>10, <1>11, <1>14, <1>15 DEF MarketInv

(* A call records its trade, ends, or is lost with its instance.           *)
LEMMA CallKeeps ==
    ASSUME MarketInv, NEW c \in Calls, NEW drafts, NEW record, Becomes(c, drafts, record),
           drafts = call[c].drafts \/ drafts = <<>>,
           record = call[c].record \/ record = NoRecord,
           \/ records' = records
           \/ call[c].record # NoRecord /\ records' = Append(records, call[c].record),
           UNCHANGED <<topicVars, mirrorVars, drawn>>
    PROVE  MarketInv'
<1>1. /\ topic' = topic /\ agreed' = agreed /\ visible' = visible /\ shown' = shown
      /\ drawn' = drawn /\ Out' = Out
      /\ call'[c].drafts = drafts /\ call'[c].record = record
      /\ \A x \in Calls \ {c} : call'[x] = call[x]
  BY DEF topicVars, mirrorVars, Out, Becomes
<1>2. TypeOK /\ records \in Seq(Trades) /\ Len(records) \in Nat /\ call[c].record \in Trades
  BY CallTypes, LenProperties DEF MarketInv, TypeOK
<1>3. /\ records' \in Seq(Trades)
      /\ \A i \in 1..Len(records') :
            \/ i \in 1..Len(records) /\ records'[i] = records[i]
            \/ call[c].record # NoRecord /\ records'[i] = call[c].record
  <2>1. CASE records' = records
    BY <1>2, <2>1
  <2>2. CASE call[c].record # NoRecord /\ records' = Append(records, call[c].record)
    BY <1>2, <2>2, AppendProperties
  <2> QED BY <2>1, <2>2
<1>4. TypeOK'
  BY <1>1, <1>2, <1>3 DEF TypeOK, Becomes
<1>5. \A x \in Calls : call'[x].drafts = call[x].drafts \/ call'[x].drafts = <<>>
  BY <1>1
<1>6. \A x \in Calls : \A i \in Slots(call'[x].drafts) :
         i \in Slots(call[x].drafts) /\ call'[x].drafts = call[x].drafts
  <2>1. Slots(<<>>) = {}
    BY EmptySeq DEF Slots
  <2> QED BY <1>5, <2>1
<1>7. AllEvents' \subseteq AllEvents
  BY <1>1, <1>6 DEF AllEvents
<1>8. OneRfq(AllEvents', drawn')
  BY <1>1, <1>7 DEF MarketInv, OneRfq
<1>9. RfqDraftsFresh'
  <2> SUFFICES ASSUME NEW x \in Calls, NEW i \in Slots(call'[x].drafts),
                      call'[x].drafts[i].event.type = "rfq"
               PROVE  /\ \A f \in Out : f.type = "rfq" => f.rfq # call'[x].drafts[i].event.rfq
                      /\ \A y \in Calls : \A j \in Slots(call'[y].drafts) :
                            /\ call'[y].drafts[j].event.type = "rfq"
                            /\ call'[y].drafts[j].event.rfq = call'[x].drafts[i].event.rfq
                            => y = x /\ j = i
    BY <1>1 DEF RfqDraftsFresh
  <2>1. i \in Slots(call[x].drafts) /\ call'[x].drafts = call[x].drafts
    BY <1>6
  <2>2. ASSUME NEW y \in Calls, NEW j \in Slots(call'[y].drafts)
        PROVE  j \in Slots(call[y].drafts) /\ call'[y].drafts = call[y].drafts
    BY <1>6
  <2>3. RfqDraftsFresh
    BY DEF MarketInv
  <2>4. /\ call[x].drafts[i].event.type = "rfq"
        /\ call'[x].drafts[i] = call[x].drafts[i]
    BY <2>1
  <2>5. \A f \in Out : f.type = "rfq" => f.rfq # call[x].drafts[i].event.rfq
    BY <2>1, <2>3, <2>4 DEF RfqDraftsFresh
  <2>6. ASSUME NEW y \in Calls, NEW j \in Slots(call'[y].drafts),
               call'[y].drafts[j].event.type = "rfq",
               call'[y].drafts[j].event.rfq = call'[x].drafts[i].event.rfq
        PROVE  y = x /\ j = i
    <3>1. j \in Slots(call[y].drafts) /\ call'[y].drafts[j] = call[y].drafts[j]
      BY <2>2
    <3>2. /\ call[y].drafts[j].event.type = "rfq"
          /\ call[y].drafts[j].event.rfq = call[x].drafts[i].event.rfq
      BY <2>4, <2>6, <3>1
    <3> QED BY <2>1, <2>3, <2>4, <3>1, <3>2 DEF RfqDraftsFresh
  <2> QED BY <2>4, <2>5, <2>6
<1>10. \A x \in Calls : \A i \in Slots(call'[x].drafts) : DraftOK(call'[x].drafts, i, Out')
  BY <1>1, <1>6 DEF MarketInv
<1>11. /\ TrueBook(agreed', Out') /\ TrueBook(shown', Out')
       /\ \A x \in Calls : call'[x].record # NoRecord =>
             TrueTrade(call'[x].record, Out') /\ Accepted(call'[x].record, Out')
  BY <1>1 DEF MarketInv
<1>12. \A i \in 1..Len(records') :
          TrueTrade(records'[i], Out') /\ Accepted(records'[i], Out')
  BY <1>1, <1>3 DEF MarketInv
<1> QED BY <1>4, <1>8, <1>9, <1>10, <1>11, <1>12 DEF MarketInv

(* The mirror node shows one more message, a deadline passes.              *)
LEMMA MirrorKeeps ==
    ASSUME MarketInv, MirrorShows
    PROVE  MarketInv'
<1>1. /\ topic' = topic /\ agreed' = agreed /\ records' = records /\ call' = call
      /\ drawn' = drawn /\ desks' = desks /\ visible' = visible + 1
      /\ shown' = Apply(shown, topic[visible + 1]) /\ visible < Len(topic)
  BY DEF MirrorShows, topicVars
<1>2. TypeOK /\ Len(topic) \in Nat /\ visible + 1 \in 1..Len(topic)
  BY <1>1, LenProperties DEF MarketInv, TypeOK
<1>3. topic[visible + 1] \in Events /\ topic[visible + 1] \in Out
  BY <1>2, ElementOfSeq DEF TypeOK, Out
<1>4. shown' \in Books /\ TrueBook(shown', Out)
  BY <1>1, <1>2, <1>3, ApplyTrue DEF MarketInv, TypeOK
<1>5. Out' = Out
  BY <1>1 DEF Out
<1>6. AllEvents' = AllEvents
  BY <1>1, <1>5 DEF AllEvents
<1>7. TypeOK'
  BY <1>1, <1>2, <1>4 DEF TypeOK
<1>8. RfqDraftsFresh'
  BY <1>1, <1>5 DEF MarketInv, RfqDraftsFresh
<1> QED BY <1>1, <1>4, <1>5, <1>6, <1>7, <1>8 DEF MarketInv

LEMMA NothingKeeps ==
    ASSUME MarketInv,
           UNCHANGED <<topicVars, mirrorVars, desks, records, call, drawn>>
    PROVE  MarketInv'
<1>1. /\ topic' = topic /\ agreed' = agreed /\ records' = records /\ call' = call
      /\ drawn' = drawn /\ desks' = desks /\ visible' = visible /\ shown' = shown
  BY DEF topicVars, mirrorVars
<1>2. Out' = Out
  BY <1>1 DEF Out
<1>3. AllEvents' = AllEvents
  BY <1>1, <1>2 DEF AllEvents
<1>4. TypeOK'
  BY <1>1 DEF MarketInv, TypeOK
<1>5. RfqDraftsFresh'
  BY <1>1, <1>2 DEF MarketInv, RfqDraftsFresh
<1> QED BY <1>1, <1>2, <1>3, <1>4, <1>5 DEF MarketInv

LEMMA HandleKeeps ==
    ASSUME MarketInv, NEW c \in Calls, Handle(c) \/ PublishThrows(c) \/ Die(c)
    PROVE  MarketInv'
<1>1. /\ TypeOK /\ call[c] \in CallStates /\ call[c].drafts \in Seq(Drafts)
      /\ call[c].record \in Trades
  BY CallTypes DEF MarketInv
<1>2. /\ \A ds \in Seq(Drafts), t \in Trades :
            [call[c] EXCEPT !.drafts = ds, !.record = t] \in CallStates
      /\ \A ds \in Seq(Drafts) : [call[c] EXCEPT !.drafts = ds] \in CallStates
      /\ \A t \in Trades : [call[c] EXCEPT !.record = t] \in CallStates
  BY <1>1 DEF CallStates
<1>3. \A ds, t : LET k == [call[c] EXCEPT !.drafts = ds, !.record = t]
                 IN  k.drafts = ds /\ k.record = t
  BY <1>1 DEF CallStates
<1>4. \A ds : LET k == [call[c] EXCEPT !.drafts = ds]
              IN  k.drafts = ds /\ k.record = call[c].record
  BY <1>1 DEF CallStates
<1>5. \A t : LET k == [call[c] EXCEPT !.record = t]
             IN  k.drafts = call[c].drafts /\ k.record = t
  BY <1>1 DEF CallStates
<1>6. call[c].drafts # <<>> => /\ Head(call[c].drafts) \in Drafts
                               /\ Head(call[c].drafts).record \in Trades
                               /\ Tail(call[c].drafts) \in Seq(Drafts)
  <2> SUFFICES ASSUME call[c].drafts # <<>>
               PROVE  /\ Head(call[c].drafts) \in Drafts
                      /\ Head(call[c].drafts).record \in Trades
                      /\ Tail(call[c].drafts) \in Seq(Drafts)
    OBVIOUS
  <2>1. Head(call[c].drafts) \in Drafts /\ Tail(call[c].drafts) \in Seq(Drafts)
    BY <1>1, HeadTailProperties
  <2> QED BY <2>1 DEF Drafts
<1>7. CASE Publish(c)
  <2> DEFINE h == Head(call[c].drafts)
             k == [call[c] EXCEPT !.drafts = Tail(@), !.record = h.record]
  <2>1. /\ call[c].drafts # <<>> /\ Reaches(h.event) /\ AfterDrafts(c, k)
        /\ UNCHANGED <<mirrorVars, records, drawn>>
    BY <1>7 DEF Publish
  <2>2. k \in CallStates /\ k.drafts = Tail(call[c].drafts) /\ k.record = h.record
    BY <1>2, <1>3, <1>6, <2>1
  <2> HIDE DEF k, h
  <2>3. Becomes(c, Tail(call[c].drafts), h.record)
    BY <1>1, <2>1, <2>2, AfterShape
  <2> QED BY <2>1, <2>3, PopKeeps DEF h
<1>8. CASE PublishThrows(c)
  <2> DEFINE h == Head(call[c].drafts)
             caught == call[c].job = "tick" /\ h.event.type = "accept"
             k == [call[c] EXCEPT !.drafts = IF caught THEN Tail(@) ELSE <<>>]
  <2>1. /\ call[c].drafts # <<>> /\ (Reaches(h.event) \/ UNCHANGED topicVars)
        /\ AfterDrafts(c, k) /\ call[c].record = NoRecord
        /\ UNCHANGED <<mirrorVars, records, drawn>>
    BY <1>8 DEF PublishThrows
  <2>2. <<>> \in Seq(Drafts)
    BY EmptySeq
  <2>3. /\ k \in CallStates /\ k.record = NoRecord
        /\ k.drafts = IF caught THEN Tail(call[c].drafts) ELSE <<>>
    BY <1>2, <1>4, <1>6, <2>1, <2>2
  <2> HIDE DEF k, h
  <2>4. Becomes(c, k.drafts, NoRecord)
    BY <1>1, <2>1, <2>3, AfterShape
  <2> QED BY <2>1, <2>3, <2>4, PopKeeps DEF h
<1>9. CASE RecordTrade(c)
  <2> DEFINE k == [call[c] EXCEPT !.record = NoRecord]
  <2>1. /\ call[c].record # NoRecord /\ records' = Append(records, call[c].record)
        /\ AfterDrafts(c, k) /\ UNCHANGED <<topicVars, mirrorVars, drawn>>
    BY <1>9 DEF RecordTrade
  <2>2. k \in CallStates /\ k.drafts = call[c].drafts /\ k.record = NoRecord
    BY <1>2, <1>5, NoRecordType
  <2> HIDE DEF k
  <2>3. Becomes(c, call[c].drafts, NoRecord)
    BY <1>1, <2>1, <2>2, AfterShape
  <2> QED BY <2>1, <2>3, CallKeeps
<1>10. CASE FinishEmpty(c)
  <2>1. Becomes(c, call[c].drafts, call[c].record)
    BY <1>1, <1>10, AfterShape DEF FinishEmpty
  <2> QED BY <1>10, <2>1, CallKeeps DEF FinishEmpty
<1>11. CASE Die(c)
  <2>1. Idle \in CallStates /\ Idle.drafts = <<>> /\ Idle.record = NoRecord
    BY NoRecordType, EmptySeq DEF Idle, CallStates, Jobs, Known
  <2> HIDE DEF Idle
  <2>2. Becomes(c, <<>>, NoRecord)
    BY <1>1, <1>11, <2>1 DEF Die, Becomes, TypeOK
  <2> QED BY <1>11, <2>2, CallKeeps DEF Die
<1> QED BY <1>7, <1>8, <1>9, <1>10, <1>11 DEF Handle

-----------------------------------------------------------------------------
(* What a handler drafts from the book it read *)

LEMMA SetToSeqOf ==
    ASSUME NEW S, IsFiniteSet(S)
    PROVE  /\ SetToSeq(S) \in Seq(S) /\ Len(SetToSeq(S)) = Cardinality(S)
           /\ Cardinality(S) \in Nat
<1> DEFINE n == Cardinality(S)
<1>1. n \in Nat /\ ExistsBijection(1..n, S)
  BY FS_CardinalityType
<1>2. PICK f \in [1..n -> S] : IsInjective(f)
  BY <1>1 DEF ExistsBijection, Bijection, Injection
<1>3. SetToSeq(S) \in [1..n -> S]
  BY <1>2 DEF SetToSeq
<1> HIDE DEF n
<1> QED BY <1>1, <1>3 DEF n

(* An open RFQ of the book, and the quotes on it, are on the topic.        *)
LEMMA BookIsTrue ==
    ASSUME MarketInv, NEW r \in Ids, Book[r].status = "open"
    PROVE  /\ Book[r] = shown[r] /\ Book[r].desk \in Desks /\ Book[r].side \in {"sell", "buy"}
           /\ RfqEvent(r, Book[r].side, Book[r].desk) \in Out
           /\ r \in Nat /\ r <= drawn /\ drawn \in Nat
           /\ \A q \in Book[r].quotes : /\ q.quote \in Nat /\ q.desk \in Desks
                                        /\ QuoteEvent(r, q.quote, q.desk) \in Out
                                        /\ q.desk # Book[r].desk
<1>1. shown \in Books /\ TrueBook(shown, Out) /\ drawn \in Nat
  BY DEF MarketInv, TypeOK
<1>2. shown[r] \in Rfqs
  BY <1>1 DEF Books
<1>3. Book[r] = shown[r]
  <2>1. Book[r] = IF shown[r].status = "open" /\ r \in lapsed
                  THEN [shown[r] EXCEPT !.status = "expired"] ELSE shown[r]
    BY DEF Book
  <2>2. [shown[r] EXCEPT !.status = "expired"].status = "expired"
    BY <1>2 DEF Rfqs
  <2> QED BY <2>1, <2>2
<1>4. /\ Book[r].desk \in Desks /\ Book[r].side \in {"sell", "buy"}
      /\ RfqEvent(r, Book[r].side, Book[r].desk) \in Out
      /\ \A q \in Book[r].quotes : QuoteEvent(r, q.quote, q.desk) \in Out
  BY <1>1, <1>3 DEF TrueBook
<1>5. Out \subseteq Events
  BY ElementOfSeq DEF MarketInv, TypeOK, Out
<1>6. OneRfq(Out, drawn)
  BY DEF MarketInv, AllEvents, OneRfq
<1>7. r <= drawn
  BY <1>4, <1>6 DEF OneRfq, RfqEvent
<1>8. ASSUME NEW q \in Book[r].quotes
      PROVE  q.quote \in Nat /\ q.desk \in Desks /\ q.desk # Book[r].desk
  <2>1. QuoteEvent(r, q.quote, q.desk) \in Events
    BY <1>4, <1>5, <1>8
  <2>2. q.quote \in Nat /\ q.desk \in Desks
    BY <2>1 DEF QuoteEvent, Events, Messages
  <2>3. Book[r].desk # q.desk
    BY <1>4, <1>6, <1>8 DEF OneRfq, RfqEvent, QuoteEvent
  <2> QED BY <2>2, <2>3
<1> QED BY <1>1, <1>3, <1>4, <1>7, <1>8, IdsNat

(* Drafts that are no RFQs and true whatever is drafted beside them.       *)
Sure == {d \in Drafts :
            /\ d.event.type # "rfq" /\ d.event.rfq <= drawn
            /\ d.event.type = "quote" =>
                  \E f \in Out : f.type = "rfq" /\ f.rfq = d.event.rfq /\ f.by # d.event.by
            /\ IF d.event.type = "accept"
               THEN /\ \E by \in Desks : d.event = AcceptEvent(d.record.rfq, d.record.quote, by)
                    /\ TrueTrade(d.record, Out)
               ELSE d.record = NoRecord}

LEMMA SureCancel ==
    ASSUME MarketInv, NEW r \in Ids, Book[r].status = "open", NEW d \in Desks
    PROVE  Draft(CancelEvent(r, d)) \in Sure
<1>1. CancelEvent(r, d) \in Events
  BY EventTypes DEF MarketInv, CancelEvent, Events, Messages
<1> QED BY <1>1, BookIsTrue, NoRecordType DEF Draft, CancelEvent, Sure, Drafts

LEMMA SureQuote ==
    ASSUME MarketInv, NEW r \in Ids, NEW d \in Desks, MayQuote(d, Book[r]), NEW q \in Nat
    PROVE  Draft(QuoteEvent(r, q, d)) \in Sure
<1>1. QuoteEvent(r, q, d) \in Events
  BY DEF QuoteEvent, Events, Messages
<1>2. /\ RfqEvent(r, Book[r].side, Book[r].desk) \in Out /\ Book[r].desk # d /\ r <= drawn
  BY BookIsTrue DEF MayQuote
<1> QED BY <1>1, <1>2, NoRecordType DEF Draft, QuoteEvent, RfqEvent, Sure, Drafts

LEMMA SureAccept ==
    ASSUME MarketInv, NEW r \in Ids, Book[r].status = "open", NEW q \in Book[r].quotes,
           NEW d \in Desks
    PROVE  Acceptance(r, q.quote, Book[r], q.desk, d) \in Sure
<1> DEFINE rfq == Book[r]
           t == Record(r, q.quote, rfq, q.desk)
           a == Acceptance(r, q.quote, rfq, q.desk, d)
<1>1. /\ rfq.desk \in Desks /\ rfq.side \in {"sell", "buy"}
      /\ RfqEvent(r, rfq.side, rfq.desk) \in Out
      /\ r \in Nat /\ r <= drawn /\ q.quote \in Nat /\ q.desk \in Desks
      /\ QuoteEvent(r, q.quote, q.desk) \in Out /\ q.desk # rfq.desk
  BY BookIsTrue
<1> HIDE DEF rfq
<1>2. AcceptEvent(r, q.quote, d) \in Events
  BY <1>1 DEF AcceptEvent, Events, Messages
<1>3. /\ t \in Trades /\ t.rfq = r /\ t.quote = q.quote
      /\ t.seller = SellerOf(rfq, q.desk) /\ t.buyer = BuyerOf(rfq, q.desk)
  BY <1>1 DEF Record, Trades, SellerOf, BuyerOf, Known
<1>4. TrueTrade(t, Out)
  <2>1. CASE rfq.side = "sell"
    BY <1>1, <1>3, <2>1 DEF TrueTrade, SellerOf, BuyerOf
  <2>2. CASE rfq.side = "buy"
    BY <1>1, <1>3, <2>2 DEF TrueTrade, SellerOf, BuyerOf
  <2> QED BY <1>1, <2>1, <2>2
<1>5. a.event = AcceptEvent(r, q.quote, d) /\ a.record = t /\ a \in Drafts
  BY <1>2, <1>3 DEF Acceptance, Drafts
<1>6. a.event.type = "accept" /\ a.event.rfq = r
  BY DEF Acceptance, AcceptEvent
<1> HIDE DEF t, a
<1> QED BY <1>1, <1>3, <1>4, <1>5, <1>6 DEF Sure, a, rfq

(* Sure drafts, and RFQs under the ids drawn after the first n.            *)
LEMMA SureThenRfqs ==
    ASSUME drawn \in Nat, NEW A \in Seq(Sure), NEW n \in Nat, NEW C \in Seq(Drafts),
           \A i \in 1..Len(C) : /\ C[i].event.type = "rfq" /\ C[i].event.rfq = drawn + n + i
                                /\ C[i].record = NoRecord
    PROVE  NewDrafts(A \o C, n + Len(C))
<1> DEFINE D == A \o C
<1>1. A \in Seq(Drafts) /\ Len(A) \in Nat /\ Len(C) \in Nat
      /\ \A i \in 1..Len(A) : A[i] \in Sure
  BY LenProperties, ElementOfSeq DEF Sure
<1>2. /\ D \in Seq(Drafts) /\ Len(D) = Len(A) + Len(C)
      /\ \A i \in 1..Len(D) : D[i] = IF i <= Len(A) THEN A[i] ELSE C[i - Len(A)]
  BY <1>1, ConcatProperties
<1> HIDE DEF D
<1>3. \A i \in 1..Len(D) :
         \/ i <= Len(A) /\ D[i] \in Sure
         \/ /\ i - Len(A) \in 1..Len(C)
            /\ D[i].event.type = "rfq" /\ D[i].event.rfq = drawn + n + (i - Len(A))
            /\ D[i].record = NoRecord
  <2> SUFFICES ASSUME NEW i \in 1..Len(D), ~(i <= Len(A) /\ D[i] \in Sure)
               PROVE  /\ i - Len(A) \in 1..Len(C)
                      /\ D[i].event.type = "rfq" /\ D[i].event.rfq = drawn + n + (i - Len(A))
                      /\ D[i].record = NoRecord
    OBVIOUS
  <2>1. i > Len(A)
    BY <1>1, <1>2
  <2>2. i - Len(A) \in 1..Len(C) /\ D[i] = C[i - Len(A)]
    BY <1>1, <1>2, <2>1
  <2> QED BY <2>2
<1>4. ASSUME NEW i \in 1..Len(D)
      PROVE  /\ D[i].event.rfq <= drawn + (n + Len(C))
             /\ D[i].event.type = "rfq" =>
                   /\ D[i].event.rfq > drawn
                   /\ \A j \in 1..Len(D) : D[j].event.type = "rfq"
                                           /\ D[j].event.rfq = D[i].event.rfq => j = i
             /\ D[i].event.type = "quote" =>
                   \E f \in Out : f.type = "rfq" /\ f.rfq = D[i].event.rfq /\ f.by # D[i].event.by
             /\ DraftOK(D, i, Out)
  <2>1. CASE i <= Len(A) /\ D[i] \in Sure
    <3>1. /\ D[i].event.type # "rfq" /\ D[i].event.rfq <= drawn /\ D[i].event.rfq \in Nat
          /\ D[i].event.type = "quote" =>
                \E f \in Out : f.type = "rfq" /\ f.rfq = D[i].event.rfq /\ f.by # D[i].event.by
      BY <2>1, IdsNat DEF Sure, Drafts, Events, Messages
    <3>2. DraftOK(D, i, Out)
      <4>1. CASE D[i].event.type = "accept"
        <5>1. /\ \E by \in Desks : D[i].event = AcceptEvent(D[i].record.rfq, D[i].record.quote, by)
              /\ TrueTrade(D[i].record, Out)
          BY <2>1, <4>1 DEF Sure
        <5> QED BY <4>1, <5>1, TradeMono DEF DraftOK
      <4>2. CASE D[i].event.type # "accept"
        BY <2>1, <4>2 DEF Sure, DraftOK
      <4> QED BY <4>1, <4>2
    <3> QED BY <1>1, <3>1, <3>2
  <2>2. CASE /\ i - Len(A) \in 1..Len(C)
             /\ D[i].event.type = "rfq" /\ D[i].event.rfq = drawn + n + (i - Len(A))
             /\ D[i].record = NoRecord
    <3>1. DraftOK(D, i, Out)
      BY <2>2 DEF DraftOK
    <3>2. \A j \in 1..Len(D) : D[j].event.type = "rfq" /\ D[j].event.rfq = D[i].event.rfq => j = i
      <4> SUFFICES ASSUME NEW j \in 1..Len(D), D[j].event.type = "rfq",
                          D[j].event.rfq = D[i].event.rfq
                   PROVE  j = i
        OBVIOUS
      <4>1. D[j].event.rfq = drawn + n + (j - Len(A))
        BY <1>3 DEF Sure
      <4> QED BY <1>1, <2>2, <4>1
    <3>3. /\ D[i].event.rfq <= drawn + (n + Len(C)) /\ D[i].event.rfq > drawn
          /\ D[i].event.type # "quote"
      BY <1>1, <2>2
    <3> QED BY <3>1, <3>2, <3>3
  <2> QED BY <1>3, <2>1, <2>2
<1>5. D \in Seq(Drafts) /\ n + Len(C) \in Nat
  BY <1>1, <1>2
<1>6. NewDrafts(D, n + Len(C))
  <2> DEFINE ids == n + Len(C)
  <2> HIDE DEF ids
  <2>1. ASSUME NEW i \in 1..Len(D)
        PROVE  /\ D[i].event.rfq <= drawn + ids
               /\ D[i].event.type = "rfq" =>
                     /\ D[i].event.rfq > drawn
                     /\ \A j \in 1..Len(D) : D[j].event.type = "rfq"
                                             /\ D[j].event.rfq = D[i].event.rfq => j = i
               /\ D[i].event.type = "quote" =>
                     \E f \in Out : f.type = "rfq" /\ f.rfq = D[i].event.rfq
                                    /\ f.by # D[i].event.by
               /\ DraftOK(D, i, Out)
    BY <1>4 DEF ids
  <2>2. D \in Seq(Drafts) /\ ids \in Nat
    BY <1>5 DEF ids
  <2>3. NewDrafts(D, ids)
    BY <2>1, <2>2, Zenon DEF NewDrafts
  <2> QED BY <2>3 DEF ids
<1> QED BY <1>6 DEF D

LEMMA SureDrafts ==
    ASSUME drawn \in Nat, NEW A \in Seq(Sure), NEW n \in Nat
    PROVE  NewDrafts(A, n)
<1>1. <<>> \in Seq(Drafts) /\ Len(<<>>) = 0 /\ A \in Seq(Drafts)
  BY EmptySeq, LenProperties, ElementOfSeq DEF Sure
<1>2. A \o <<>> = A
  BY <1>1, ConcatEmptySeq
<1> DEFINE C == <<>>
<1>3. C \in Seq(Drafts) /\ Len(C) = 0 /\ A \o C = A /\ n + Len(C) = n
  BY <1>1, <1>2
<1> HIDE DEF C
<1>4. \A i \in 1..Len(C) : FALSE
  BY <1>3
<1>5. NewDrafts(A \o C, n + Len(C))
  BY <1>3, <1>4, SureThenRfqs
<1> QED BY <1>3, <1>5

LEMMA OneSure ==
    ASSUME MarketInv, NEW c \in Calls, NEW job \in Jobs, NEW d \in Desks, NEW draft \in Sure,
           NEW ids \in Nat, Begin(c, job, d, <<draft>>, ids)
    PROVE  MarketInv'
<1>1. <<draft>> \in Seq(Sure) /\ drawn \in Nat
  BY DEF MarketInv, TypeOK
<1> QED BY <1>1, SureDrafts, BeginKeeps

LEMMA UserKeeps ==
    ASSUME MarketInv, NEW c \in Calls, NEW d \in Desks,
           \/ PublishRfq(c, d) \/ ResetDesk(c, d)
           \/ \E r \in Ids : QuoteRfq(c, d, r) \/ AcceptRoute(c, d, r) \/ CancelRoute(c, d, r)
    PROVE  MarketInv'
<1>1. drawn \in Nat
  BY DEF MarketInv, TypeOK
<1>2. CASE PublishRfq(c, d)
  <2>1. PICK side \in Sides :
          Request(c, "rfq", d, <<Draft(RfqEvent(drawn + 1, side, d))>>, 1)
    BY <1>2 DEF PublishRfq
  <2> DEFINE draft == Draft(RfqEvent(drawn + 1, side, d))
             C == <<draft>>
             A == <<>>
  <2>2. drawn + 1 \in Ids /\ side \in {"sell", "buy"}
    BY <1>1, <2>1, MarketAssumption DEF Request, Ids
  <2>3. RfqEvent(drawn + 1, side, d) \in Events
    BY <2>2 DEF RfqEvent, Events, Messages
  <2>4. /\ draft \in Drafts /\ draft.event.type = "rfq" /\ draft.event.rfq = drawn + 0 + 1
        /\ draft.record = NoRecord
    BY <1>1, <2>3, NoRecordType DEF Draft, Drafts, RfqEvent
  <2>5. A \in Seq(Sure) /\ Len(A) = 0 /\ C \in Seq(Drafts) /\ Len(C) = 1 /\ C[1] = draft
    BY <2>4
  <2>6. A \o C = C
    BY <2>5, ConcatEmptySeq
  <2>7. Begin(c, "rfq", d, C, 1)
    BY <2>1 DEF Request
  <2> HIDE DEF draft, A, C
  <2>8. \A i \in 1..Len(C) : /\ C[i].event.type = "rfq" /\ C[i].event.rfq = drawn + 0 + i
                             /\ C[i].record = NoRecord
    BY <2>4, <2>5
  <2>9. NewDrafts(A \o C, 0 + Len(C))
    <3> DEFINE n == 0
    <3>1. /\ n \in Nat
          /\ \A i \in 1..Len(C) : /\ C[i].event.type = "rfq" /\ C[i].event.rfq = drawn + n + i
                                 /\ C[i].record = NoRecord
      BY <2>8
    <3> HIDE DEF n
    <3>2. NewDrafts(A \o C, n + Len(C))
      BY <1>1, <2>5, <3>1, SureThenRfqs
    <3> QED BY <3>2 DEF n
  <2>10. NewDrafts(C, 1)
    BY <2>5, <2>6, <2>9
  <2> QED BY <2>7, <2>10, BeginKeeps DEF Jobs
<1>3. CASE ResetDesk(c, d)
  <2> DEFINE own == {r \in Ids : Book[r].status = "open" /\ Book[r].desk = d}
             f == [r \in own |-> Draft(CancelEvent(r, d))]
             S == {Draft(CancelEvent(r, d)) : r \in own}
  <2>1. Begin(c, "reset", d, SetToSeq(S), 0)
    BY <1>3 DEF ResetDesk, Request
  <2>2. IsFiniteSet(own)
    <3>1. IsFiniteSet(Ids)
      BY FS_Interval, MarketAssumption DEF Ids
    <3> QED BY <3>1, FS_Subset
  <2>3. f \in Surjection(own, S)
    BY DEF Surjection
  <2>4. S \subseteq Sure
    BY SureCancel
  <2> HIDE DEF S, f, own
  <2>5. IsFiniteSet(S)
    BY <2>2, <2>3, FS_Surjection
  <2>6. SetToSeq(S) \in Seq(Sure)
    BY <2>4, <2>5, SetToSeqOf, ElementOfSeq, LenProperties
  <2> QED BY <1>1, <2>1, <2>6, SureDrafts, BeginKeeps DEF Jobs
<1>4. ASSUME NEW r \in Ids, QuoteRfq(c, d, r)
      PROVE  MarketInv'
  <2>1. /\ MayQuote(d, Book[r])
        /\ Begin(c, "quote", d, <<Draft(QuoteEvent(r, drawn + 1, d))>>, 1)
    BY <1>4 DEF QuoteRfq, Request
  <2>2. Draft(QuoteEvent(r, drawn + 1, d)) \in Sure
    BY <1>1, <2>1, SureQuote
  <2> QED BY <2>1, <2>2, OneSure DEF Jobs
<1>5. ASSUME NEW r \in Ids, AcceptRoute(c, d, r)
      PROVE  MarketInv'
  <2>1. PICK q \in Book[r].quotes :
          Begin(c, "accept", d, <<Acceptance(r, q.quote, Book[r], q.desk, d)>>, 0)
    BY <1>5 DEF AcceptRoute, Request
  <2>2. Book[r].status = "open"
    BY <1>5 DEF AcceptRoute
  <2>3. Acceptance(r, q.quote, Book[r], q.desk, d) \in Sure
    BY <2>2, SureAccept
  <2> QED BY <2>1, <2>3, OneSure DEF Jobs
<1>6. ASSUME NEW r \in Ids, CancelRoute(c, d, r)
      PROVE  MarketInv'
  <2>1. /\ Book[r].status = "open"
        /\ Begin(c, "cancel", d, <<Draft(CancelEvent(r, d))>>, 0)
    BY <1>6 DEF CancelRoute, Request
  <2>2. Draft(CancelEvent(r, d)) \in Sure
    BY <2>1, SureCancel
  <2> QED BY <2>1, <2>2, OneSure DEF Jobs
<1> QED BY <1>2, <1>3, <1>4, <1>5, <1>6

(* The demonstration accepts a quote it drafted itself.                    *)
LEMMA DemoKeeps ==
    ASSUME MarketInv, NEW c \in Calls, TransferDemo(c)
    PROVE  MarketInv'
<1> DEFINE r == drawn + 1
           q == drawn + 2
           rfq == [NoRfq EXCEPT !.desk = Seller, !.side = "sell"]
           d1 == Draft(RfqEvent(r, "sell", Seller))
           d2 == Draft(QuoteEvent(r, q, Bot))
           d3 == Acceptance(r, q, rfq, Bot, Seller)
           D == <<d1, d2, d3>>
<1>1. drawn \in Nat /\ Bot \in Desks /\ Seller \in Desks /\ Bot # Seller
  BY MarketAssumption DEF MarketInv, TypeOK
<1>2. /\ Begin(c, "demo", Seller, D, 2) /\ drawn + 2 <= MaxUserIds
  BY DEF TransferDemo, Request
<1>3. r \in Ids /\ r \in Nat /\ q \in Nat /\ r > drawn
  BY <1>1, <1>2, MarketAssumption DEF Ids
<1>4. /\ RfqEvent(r, "sell", Seller) \in Events /\ QuoteEvent(r, q, Bot) \in Events
      /\ AcceptEvent(r, q, Seller) \in Events
  BY <1>1, <1>3, EventTypes
<1> HIDE DEF r, q
<1>5. rfq.desk = Seller /\ rfq.side = "sell"
  BY DEF NoRfq
<1> DEFINE t == Record(r, q, rfq, Bot)
<1>6. t.rfq = r /\ t.quote = q /\ t.seller = Seller /\ t.buyer = Bot /\ t \in Trades
  BY <1>1, <1>3, <1>5 DEF Record, SellerOf, BuyerOf, Trades, Known
<1>7. /\ d1.event = RfqEvent(r, "sell", Seller) /\ d1.record = NoRecord /\ d1 \in Drafts
      /\ d2.event = QuoteEvent(r, q, Bot) /\ d2.record = NoRecord /\ d2 \in Drafts
  BY <1>4, NoRecordType DEF Draft, Drafts
<1>8. d3.event = AcceptEvent(r, q, Seller) /\ d3.record = t /\ d3 \in Drafts
  BY <1>4, <1>6 DEF Acceptance, Drafts
<1>9. /\ d1.event.type = "rfq" /\ d1.event.rfq = r /\ d1.event.by = Seller
       /\ d2.event.type = "quote" /\ d2.event.rfq = r /\ d2.event.by = Bot
       /\ d3.event.type = "accept" /\ d3.event.rfq = r
  BY DEF Draft, Acceptance, RfqEvent, QuoteEvent, AcceptEvent
<1> HIDE DEF d1, d2, d3, t, rfq
<1>10. D \in Seq(Drafts) /\ Len(D) = 3 /\ D[1] = d1 /\ D[2] = d2 /\ D[3] = d3
  BY <1>7, <1>8
<1> HIDE DEF D
<1>11. TrueTrade(t, Out \cup Said(D, 3))
  <2>1. RfqEvent(r, "sell", Seller) \in Said(D, 3) /\ QuoteEvent(r, q, Bot) \in Said(D, 3)
    <3>1. 1 \in 1..(3 - 1) /\ 2 \in 1..(3 - 1)
      OBVIOUS
    <3> QED BY <1>7, <1>10, <3>1 DEF Said
  <2> QED BY <1>1, <1>6, <2>1 DEF TrueTrade
<1>12. DraftOK(D, 1, Out) /\ DraftOK(D, 2, Out) /\ DraftOK(D, 3, Out)
  <2>1. DraftOK(D, 1, Out) /\ DraftOK(D, 2, Out)
    BY <1>7, <1>10, <1>9 DEF DraftOK
  <2>2. DraftOK(D, 3, Out)
    BY <1>1, <1>6, <1>8, <1>10, <1>9, <1>11 DEF DraftOK
  <2> QED BY <2>1, <2>2
<1>13. \A i \in 1..Len(D) : i = 1 \/ i = 2 \/ i = 3
  BY <1>10
<1>14. r <= drawn + 2
  BY <1>1 DEF r
<1>15. NewDrafts(D, 2)
  <2> SUFFICES ASSUME NEW i \in 1..Len(D)
               PROVE  LET e == D[i].event IN
          /\ e.rfq <= drawn + 2
          /\ e.type = "rfq" =>
                /\ e.rfq > drawn
                /\ \A j \in 1..Len(D) : D[j].event.type = "rfq" /\ D[j].event.rfq = e.rfq => j = i
          /\ e.type = "quote" =>
                \/ \E f \in Out : f.type = "rfq" /\ f.rfq = e.rfq /\ f.by # e.by
                \/ /\ e.rfq > drawn
                   /\ \A j \in 1..Len(D) :
                         D[j].event.type = "rfq" /\ D[j].event.rfq = e.rfq => D[j].event.by # e.by
          /\ DraftOK(D, i, Out)
    BY <1>10 DEF NewDrafts
  <2>1. CASE i = 1
    BY <1>3, <1>10, <1>9, <1>12, <1>13, <1>14, <2>1
  <2>2. CASE i = 2
    BY <1>1, <1>3, <1>10, <1>9, <1>12, <1>13, <1>14, <2>2
  <2>3. CASE i = 3
    BY <1>10, <1>9, <1>12, <1>14, <2>3
  <2> QED BY <1>13, <2>1, <2>2, <2>3
<1> QED BY <1>1, <1>2, <1>15, BeginKeeps DEF Jobs, D

LEMMA TickKeeps ==
    ASSUME MarketInv, NEW c \in Calls, MarketTick(c)
    PROVE  MarketInv'
<1> DEFINE quotes == SetToSeq(Unquoted(Book))
           sides == SetToSeq(Missing(Book))
           own == Acceptable(Book)
           n == Len(quotes)
           A == [i \in 1..n |-> Draft(QuoteEvent(quotes[i], drawn + i, Bot))]
           C == [i \in 1..Len(sides) |-> Draft(RfqEvent(drawn + n + i, sides[i], Bot))]
           S(best) == {Acceptance(r, best[r].quote, Book[r], best[r].desk, Bot) : r \in own}
<1>1. PICK best \in [own -> UNION {Live(Book[r]) : r \in own}] :
        /\ \A r \in own : best[r] \in Live(Book[r])
        /\ Begin(c, "tick", Bot, A \o SetToSeq(S(best)) \o C, n + Len(sides))
  BY DEF MarketTick
<1> DEFINE accepts == S(best)
<1>2. TickFits(Book)
  BY DEF MarketTick
<1>3. drawn \in Nat /\ Bot \in Desks /\ MaxIds \in Nat
  BY MarketAssumption DEF MarketInv, TypeOK
<1>4. IsFiniteSet(Ids)
  BY <1>3, FS_Interval DEF Ids
<1>5. /\ quotes \in Seq(Unquoted(Book)) /\ n = Cardinality(Unquoted(Book)) /\ n \in Nat
  <2>1. IsFiniteSet(Unquoted(Book))
    BY <1>4, FS_Subset DEF Unquoted
  <2> QED BY <2>1, SetToSeqOf
<1>6. /\ sides \in Seq(Missing(Book)) /\ Len(sides) = Cardinality(Missing(Book))
      /\ Len(sides) \in Nat
  <2>1. IsFiniteSet({"sell", "buy"})
    <3>1. IsFiniteSet({"sell"} \cup {"buy"})
      BY FS_Singleton, FS_AddElement
    <3> QED BY <3>1
  <2>2. IsFiniteSet(Missing(Book))
    BY <2>1, FS_Subset, MarketAssumption DEF Missing
  <2> QED BY <2>2, SetToSeqOf
<1>7. drawn + (n + Len(sides)) <= MaxIds
  BY <1>2, <1>5, <1>6 DEF TickFits
<1>8. accepts \subseteq Sure /\ IsFiniteSet(accepts)
  <2>1. \A r \in own : /\ r \in Ids /\ Book[r].status = "open" /\ best[r] \in Book[r].quotes
    BY <1>1 DEF Acceptable, OwnOpen, Live
  <2>2. accepts \subseteq Sure
    BY <1>3, <2>1, SureAccept
  <2>3. IsFiniteSet(own)
    BY <1>4, FS_Subset DEF Acceptable, OwnOpen
  <2> DEFINE f == [r \in own |-> Acceptance(r, best[r].quote, Book[r], best[r].desk, Bot)]
  <2>4. f \in Surjection(own, accepts)
    BY DEF Surjection
  <2> HIDE DEF accepts, f, own
  <2> QED BY <2>2, <2>3, <2>4, FS_Surjection
<1>9. \A i \in 1..n : quotes[i] \in Ids /\ MayQuote(Bot, Book[quotes[i]])
  BY <1>5, ElementOfSeq DEF Unquoted
<1>10. \A i \in 1..Len(sides) : sides[i] \in {"sell", "buy"}
  BY <1>6, ElementOfSeq, MarketAssumption DEF Missing
<1> HIDE DEF accepts, quotes, sides
<1>11. A \in Seq(Sure)
  <2>1. \A i \in 1..n : A[i] \in Sure
    BY <1>3, <1>5, <1>9, SureQuote
  <2> QED BY <1>5, <2>1
<1>12. SetToSeq(accepts) \in Seq(Sure)
  BY <1>8, SetToSeqOf, ElementOfSeq, LenProperties
<1>13. /\ C \in Seq(Drafts) /\ Len(C) = Len(sides)
       /\ \A i \in 1..Len(C) : /\ C[i].event.type = "rfq" /\ C[i].event.rfq = drawn + n + i
                               /\ C[i].record = NoRecord
  <2>1. ASSUME NEW i \in 1..Len(sides)
        PROVE  /\ C[i] \in Drafts /\ C[i].event.type = "rfq"
               /\ C[i].event.rfq = drawn + n + i /\ C[i].record = NoRecord
    <3>1. drawn + n + i \in Ids
      BY <1>3, <1>5, <1>6, <1>7 DEF Ids
    <3>2. RfqEvent(drawn + n + i, sides[i], Bot) \in Events
      BY <1>3, <1>10, <3>1 DEF RfqEvent, Events, Messages
    <3> QED BY <3>2, NoRecordType DEF Draft, Drafts, RfqEvent
  <2> QED BY <1>6, <2>1
<1> HIDE DEF A, C
<1>14. A \o SetToSeq(accepts) \in Seq(Sure)
  BY <1>11, <1>12, ConcatProperties
<1>15. NewDrafts((A \o SetToSeq(accepts)) \o C, n + Len(C))
  BY <1>3, <1>5, <1>13, <1>14, SureThenRfqs
<1>16. Begin(c, "tick", Bot, (A \o SetToSeq(accepts)) \o C, n + Len(C))
  BY <1>1, <1>13 DEF accepts
<1> QED BY <1>3, <1>15, <1>16, BeginKeeps DEF Jobs

-----------------------------------------------------------------------------
(* Every step *)

LEMMA InitMarket == Init => MarketInv
<1> SUFFICES ASSUME Init PROVE MarketInv
  OBVIOUS
<1>1. /\ topic = <<>> /\ agreed = NoBook /\ visible = 0 /\ shown = NoBook /\ desks = Desks
      /\ records = <<>> /\ drawn = 0
      /\ \A c \in Calls : call[c] = Idle
      /\ call = [c \in Calls |-> Idle]
  BY DEF Init
<1>2. Idle \in CallStates /\ Idle.drafts = <<>> /\ Idle.record = NoRecord
  BY NoRecordType, EmptySeq DEF Idle, CallStates, Jobs, Known
<1>3. NoBook \in Books /\ \A r \in Ids : NoBook[r].status = "none"
  BY DEF NoBook, NoRfq, Books, Rfqs, Known
<1> HIDE DEF Idle, NoBook
<1>4. TypeOK
  BY <1>1, <1>2, <1>3 DEF TypeOK
<1>5. Out = {} /\ \A c \in Calls : Slots(call[c].drafts) = {}
  BY <1>1, <1>2 DEF Out, Slots
<1>6. AllEvents = {}
  BY <1>5 DEF AllEvents
<1>7. OneRfq(AllEvents, drawn) /\ RfqDraftsFresh
  BY <1>5, <1>6 DEF OneRfq, RfqDraftsFresh
<1>8. TrueBook(agreed, Out) /\ TrueBook(shown, Out)
  BY <1>1, <1>3 DEF TrueBook
<1>9. 1..Len(records) = {}
  BY <1>1
<1> QED BY <1>1, <1>2, <1>4, <1>5, <1>7, <1>8, <1>9 DEF MarketInv

LEMMA StepMarket == MarketInv /\ [Next]_vars => MarketInv'
<1> SUFFICES ASSUME MarketInv, [Next]_vars PROVE MarketInv'
  OBVIOUS
<1>1. ASSUME NEW c \in Calls, NEW d \in Desks, PublishRfq(c, d) \/ ResetDesk(c, d)
      PROVE  MarketInv'
  BY <1>1, UserKeeps
<1>2. ASSUME NEW c \in Calls, NEW d \in Desks, NEW r \in Ids,
             QuoteRfq(c, d, r) \/ AcceptRoute(c, d, r) \/ CancelRoute(c, d, r)
      PROVE  MarketInv'
  BY <1>2, UserKeeps
<1>3. ASSUME NEW c \in Calls, TransferDemo(c) PROVE MarketInv'
  BY <1>3, DemoKeeps
<1>4. ASSUME NEW c \in Calls, MarketTick(c) PROVE MarketInv'
  BY <1>4, TickKeeps
<1>5. ASSUME NEW c \in Calls, Handle(c) \/ PublishThrows(c) \/ Die(c) PROVE MarketInv'
  BY <1>5, HandleKeeps
<1>6. CASE MirrorShows
  BY <1>6, MirrorKeeps
<1>7. CASE \E i \in Ids : DeadlinePasses(i)
  BY <1>7, NothingKeeps DEF DeadlinePasses
<1>8. CASE UNCHANGED vars
  BY <1>8, NothingKeeps DEF vars
<1> QED BY <1>1, <1>2, <1>3, <1>4, <1>5, <1>6, <1>7, <1>8 DEF Next

(* rfq.ts, hcs.ts: the topic, the books, the calls and the records keep    *)
(* their shape.                                                            *)
THEOREM TypeCorrect == Spec => []TypeOK
<1>1. MarketInv => TypeOK
  BY DEF MarketInv
<1> QED BY <1>1, InitMarket, StepMarket, PTL DEF Spec

(* acceptQuote: whatever fails between the publication of an acceptance    *)
(* and the record of the trade, and however old the book was it decided    *)
(* on, every recorded trade is on the topic: its RFQ, its quote, its       *)
(* acceptance, the right seller, and two different desks.                  *)
THEOREM RecordSafety == Spec => []RecordMatchesTopic
<1>1. MarketInv => RecordMatchesTopic
  <2> SUFFICES ASSUME MarketInv, NEW i \in 1..Len(records)
               PROVE  LET t == records[i] IN
        /\ t.seller # t.buyer
        /\ \E d \in Desks : Published(AcceptEvent(t.rfq, t.quote, d))
        /\ \/ /\ Published(RfqEvent(t.rfq, "sell", t.seller))
              /\ Published(QuoteEvent(t.rfq, t.quote, t.buyer))
           \/ /\ Published(RfqEvent(t.rfq, "buy", t.buyer))
              /\ Published(QuoteEvent(t.rfq, t.quote, t.seller))
    BY DEF RecordMatchesTopic
  <2>1. TrueTrade(records[i], Out) /\ Accepted(records[i], Out)
    BY DEF MarketInv
  <2>2. \A e \in Out : Published(e)
    BY DEF Out, Published
  <2> QED BY <2>1, <2>2 DEF TrueTrade, Accepted
<1> QED BY <1>1, InitMarket, StepMarket, PTL DEF Spec

(* No message about a concluded RFQ changes it, but its RFQ message again. *)
LEMMA FoldKeepsConclusion ==
    ASSUME NEW book \in Books, NEW e \in Events, NEW r \in Ids,
           book[r].status \in Concluded, ~(e.type = "rfq" /\ e.rfq = r)
    PROVE  Apply(book, e)[r] = book[r]
<1>1. e.rfq \in Ids /\ book[r].status # "open"
  BY DEF Concluded, Events, Messages
<1>2. CASE e.rfq = r
  <2>1. Apply(book, e) = book
    BY <1>1, <1>2, Zenon DEF Apply
  <2> QED BY <2>1
<1>3. CASE e.rfq # r
  <2> DEFINE s == e.rfq
             b == book[s]
  <2>1. /\ \A v : [book EXCEPT ![s] = v][r] = book[r]
        /\ \A v : [book EXCEPT ![s].quotes = v][r] = book[r]
        /\ \A v, w : [book EXCEPT ![s].status = v, ![s].accepted = w][r] = book[r]
        /\ \A v : [book EXCEPT ![s].status = v][r] = book[r]
    BY <1>1, <1>3 DEF Books
  <2> QED BY <1>1, <1>3 DEF Apply, Books
<1> QED BY <1>2, <1>3

(* loadRfqs: the first conclusion of an RFQ in consensus order stands.  A  *)
(* fold answers a late quote, accept or cancel with "not open"; what could *)
(* reopen an RFQ is a second RFQ message of its id, and there is none.     *)
THEOREM ConclusionFinal == Spec => ConclusionStands
<1> DEFINE Stands == \A r \in Ids : agreed[r].status \in Concluded
                       => /\ agreed'[r].status = agreed[r].status
                          /\ agreed'[r].accepted = agreed[r].accepted
<1>1. ASSUME MarketInv, Next
      PROVE  Stands
  <2>1. CASE \E c \in Calls : Publish(c) \/ PublishThrows(c)
    <3>1. PICK c \in Calls : Publish(c) \/ PublishThrows(c)
      BY <2>1
    <3> DEFINE e == Head(call[c].drafts).event
    <3>2. /\ agreed' = agreed \/ agreed' = Apply(agreed, e)
          /\ call[c].drafts # <<>>
      BY <3>1 DEF Publish, PublishThrows, Reaches, topicVars
    <3>3. /\ TypeOK /\ call[c].drafts \in Seq(Drafts) /\ Len(call[c].drafts) \in Nat
          /\ RfqDraftsFresh /\ TrueBook(agreed, Out) /\ agreed \in Books
      BY <1>1, CallTypes DEF MarketInv, TypeOK
    <3>4. 1 \in Slots(call[c].drafts) /\ e = call[c].drafts[1].event /\ e \in Events
      <4>1. 1 \in 1..Len(call[c].drafts) /\ Head(call[c].drafts) = call[c].drafts[1]
        BY <3>2, <3>3, EmptySeq
      <4>2. call[c].drafts[1] \in Drafts
        BY <3>3, <4>1, ElementOfSeq
      <4> QED BY <4>1, <4>2 DEF Slots, Drafts
    <3> SUFFICES ASSUME NEW r \in Ids, agreed[r].status \in Concluded
                 PROVE  /\ agreed'[r].status = agreed[r].status
                        /\ agreed'[r].accepted = agreed[r].accepted
      OBVIOUS
    <3>5. RfqEvent(r, agreed[r].side, agreed[r].desk) \in Out
      BY <3>3 DEF TrueBook, Concluded
    <3>6. ~(e.type = "rfq" /\ e.rfq = r)
      BY <3>3, <3>4, <3>5 DEF RfqDraftsFresh, RfqEvent
    <3> HIDE DEF e
    <3>7. Apply(agreed, e)[r] = agreed[r]
      BY <3>3, <3>4, <3>6, FoldKeepsConclusion
    <3> QED BY <3>2, <3>7
  <2>2. CASE ~\E c \in Calls : Publish(c) \/ PublishThrows(c)
    <3>1. ASSUME NEW c \in Calls, NEW d \in Desks, PublishRfq(c, d) \/ ResetDesk(c, d)
          PROVE  agreed' = agreed
      BY <3>1 DEF PublishRfq, ResetDesk, Request, Begin, topicVars
    <3>2. ASSUME NEW c \in Calls, NEW d \in Desks, NEW r \in Ids,
                 QuoteRfq(c, d, r) \/ AcceptRoute(c, d, r) \/ CancelRoute(c, d, r)
          PROVE  agreed' = agreed
      BY <3>2 DEF QuoteRfq, AcceptRoute, CancelRoute, Request, Begin, topicVars
    <3>3. ASSUME NEW c \in Calls, TransferDemo(c) \/ MarketTick(c)
          PROVE  agreed' = agreed
      BY <3>3 DEF TransferDemo, MarketTick, Request, Begin, topicVars
    <3>4. ASSUME NEW c \in Calls, RecordTrade(c) \/ FinishEmpty(c) \/ Die(c)
          PROVE  agreed' = agreed
      BY <3>4 DEF RecordTrade, FinishEmpty, Die, topicVars
    <3>5. MirrorShows \/ (\E i \in Ids : DeadlinePasses(i)) => agreed' = agreed
      BY DEF MirrorShows, DeadlinePasses, topicVars
    <3>6. agreed' = agreed
      BY <1>1, <2>2, <3>1, <3>2, <3>3, <3>4, <3>5 DEF Next, Handle
    <3> QED BY <3>6
  <2> QED BY <2>1, <2>2
<1>2. MarketInv /\ [Next]_vars => [Stands]_vars
  BY <1>1
<1> QED BY <1>2, InitMarket, StepMarket, PTL DEF Spec, ConclusionStands
=============================================================================
