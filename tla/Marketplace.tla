------------------------------ MODULE Marketplace ------------------------------
(***************************************************************************)
(* The market: issuers list tokenized receivables as batches, investors bid  *)
(* on a batch and take bids back, the batch is cleared, cancelled or handed  *)
(* to settlement.  Every request is one READ COMMITTED transaction: it reads *)
(* some rows, then writes all it has to write or nothing.  An update names   *)
(* the version that was read and fails when the row has moved; an insert     *)
(* names no version.  What the solver may return is the matter of Clearing;  *)
(* here it returns any division of the lots among the bids it was given.     *)
(***************************************************************************)
EXTENDS Naturals, FiniteSets

CONSTANTS
    Invoices,        \* receivables the pipeline has tokenized: one asset each, not yet due
    OwnerOf,         \* the organization that issued each of them
    Auctions, Bids,  \* batches and bids that may come to be
    BidderOf,        \* the investor behind each bid
    Organizations,
    Operators,       \* organizations that act with the operator's rights
    Requests,        \* bound: how many requests are under way at once
    Nobody

ASSUME MarketplaceAssumption ==
    /\ Operators \subseteq Organizations /\ Nobody \notin Organizations \cup Auctions
    /\ OwnerOf \in [Invoices -> Organizations] /\ BidderOf \in [Bids -> Organizations]
    /\ Invoices \cap Auctions = {} /\ Invoices \cap Bids = {} /\ Auctions \cap Bids = {}

Rows == Invoices \cup Auctions \cup Bids

VARIABLES
    invoice,    \* status of each receivable
    auction,    \* status of each batch, "NONE" before it exists
    issuer,     \* who opened it
    lots,       \* the receivables it offers: rows that are never deleted
    bid, batch, \* status of each bid, and what it was placed on
    version,    \* of each row
    allocated,  \* the stored clearing of each batch: pairs of a receivable and a bid,
    rejected,   \*   and the bids that got nothing
    closed,     \* batches whose closing time has come,
    late,       \*   and bids that carry a later time
    call        \* the requests under way, with the versions each has read

vars == <<invoice, auction, issuer, lots, bid, batch, version, allocated, rejected, closed, late, call>>
outcome == <<allocated, rejected>>
clock == <<closed, late>>

Operations == {"open", "place", "withdraw", "clear", "decide", "cancel", "settle"}
Unread == [x \in Rows |-> 0]
NoCall == [op |-> "none", by |-> Nobody, on |-> Nobody, seen |-> Unread]

Init ==
    /\ invoice = [i \in Invoices |-> "TOKENIZED"]
    /\ auction = [a \in Auctions |-> "NONE"]
    /\ issuer = [a \in Auctions |-> Nobody]
    /\ lots = [a \in Auctions |-> {}]
    /\ bid = [b \in Bids |-> "NONE"]
    /\ batch = [b \in Bids |-> Nobody]
    /\ version = [x \in Rows |-> 1]
    /\ allocated = [a \in Auctions |-> {}]
    /\ rejected = [a \in Auctions |-> {}]
    /\ closed = {} /\ late = {}
    /\ call = [r \in Requests |-> NoCall]

-------------------------------------------------------------------------------
(* Rows and their state machines *)

\* GetAuction, GetBid, ListBids: what a transaction reads, it keeps with its version.
Read(rows) == [x \in Rows |-> IF x \in rows THEN version[x] ELSE 0]
Reading(r) == {x \in Rows : call[r].seen[x] # 0}

\* UpdateAuction, UpdateBid and the invoice's Update: zero rows when another writer came first.
\* Mutation: the update of a bid does not compare versions.
MutBlindBids(r, rows) == \A x \in rows \ Bids : call[r].seen[x] = version[x]
Unmoved(r, rows) == \A x \in rows : call[r].seen[x] = version[x]

Bump(rows) == version' = [x \in Rows |-> IF x \in rows THEN version[x] + 1 ELSE version[x]]
Set(status, rows, s) == [x \in DOMAIN status |-> IF x \in rows THEN s ELSE status[x]]

\* The transitions of a batch that some caller of the code asks for.
Transitions == {<<"NONE", "OPEN">>, <<"OPEN", "CLEARED">>, <<"OPEN", "CANCELLED">>,
                <<"CLEARED", "SETTLING">>, <<"CLEARED", "CANCELLED">>}
CanMove(a, next) == <<auction[a], next>> \in Transitions

\* Who asks is remembered where a later write depends on it.
Begin(r, operation, who, a, rows) ==
    /\ call[r] = NoCall
    /\ call' = [call EXCEPT ![r] =
                   [op |-> operation, by |-> who, on |-> a, seen |-> Read(rows)]]
    /\ UNCHANGED <<invoice, auction, issuer, lots, bid, batch, version, outcome, clock>>

Return(r) == call' = [call EXCEPT ![r] = NoCall]

\* A guard refuses, a version has moved, the connection is lost: all is rolled back.
GiveUp(r) ==
    /\ call[r] # NoCall /\ Return(r)
    /\ UNCHANGED <<invoice, auction, issuer, lots, bid, batch, version, outcome, clock>>

MayRun(who, a) == who \in Operators \/ issuer[a] = who

-------------------------------------------------------------------------------
(* Opening a batch *)

\* buildLot: an operator may list anybody's paper.
MayList(who, i) == (who \in Operators \/ OwnerOf[i] = who) /\ invoice[i] = "TOKENIZED"

\* The unique key on the asset of a lot, whatever has become of the batch.
Listed(i) == \E a \in Auctions : i \in lots[a]

ReadToOpen(r, who, offered) ==
    /\ offered # {} /\ \A i \in offered : MayList(who, i)
    /\ Begin(r, "open", who, Nobody, offered)

\* The batch belongs to whoever opened it; it is created and opened at once.
OpenAuction(r, a) ==
    LET offered == Reading(r) IN
    /\ call[r].op = "open" /\ CanMove(a, "OPEN")
    /\ Unmoved(r, offered) /\ \A i \in offered : ~Listed(i)
    /\ auction' = [auction EXCEPT ![a] = "OPEN"]
    /\ issuer' = [issuer EXCEPT ![a] = call[r].by]
    /\ lots' = [lots EXCEPT ![a] = offered]
    /\ invoice' = Set(invoice, offered, "AUCTION_OPEN")
    /\ Bump(offered) /\ Return(r)
    /\ UNCHANGED <<bid, batch, outcome, clock>>

\* ClosesAt passes.
Close(a) ==
    /\ auction[a] = "OPEN" /\ a \notin closed
    /\ closed' = closed \cup {a}
    /\ UNCHANGED <<invoice, auction, issuer, lots, bid, batch, version, outcome, late, call>>

-------------------------------------------------------------------------------
(* Bids *)

IsAcceptingBids(a) == auction[a] = "OPEN" /\ a \notin closed

\* The batch is read and not written: nothing holds it still until the bid is inserted.
ReadToPlace(r, who, a) ==
    /\ IsAcceptingBids(a) /\ issuer[a] # who
    /\ Begin(r, "place", who, a, {})

\* NewBid asks the time again after the batch was found open.
PlaceBid(r, b) ==
    /\ call[r].op = "place" /\ bid[b] = "NONE" /\ BidderOf[b] = call[r].by
    /\ bid' = [bid EXCEPT ![b] = "ACTIVE"]
    /\ batch' = [batch EXCEPT ![b] = call[r].on]
    /\ late' \in {late} \cup {late \cup {b} : a \in closed \cap {call[r].on}}
    /\ Return(r)
    /\ UNCHANGED <<invoice, auction, issuer, lots, version, outcome, closed>>

ReadToWithdraw(r, who, b) ==
    /\ who \in Operators \cup {BidderOf[b]}
    /\ bid[b] = "ACTIVE" /\ auction[batch[b]] = "OPEN"
    /\ Begin(r, "withdraw", Nobody, batch[b], {b})

CancelBid(r) ==
    /\ call[r].op = "withdraw" /\ Unmoved(r, Reading(r))
    /\ bid' = Set(bid, Reading(r), "CANCELLED")
    /\ Bump(Reading(r)) /\ Return(r)
    /\ UNCHANGED <<invoice, auction, issuer, lots, batch, outcome, clock>>

-------------------------------------------------------------------------------
(* Clearing, cancelling, settling *)

ReadToClear(r, who, a) ==
    /\ MayRun(who, a) /\ CanMove(a, "CLEARED") /\ a \in closed
    /\ Begin(r, "clear", Nobody, a, {a})

\* ListBids: those committed by now; the solver and what follows pass over the inactive ones.
ListBids(r) ==
    LET a == call[r].on
        active == {b \in Bids : batch[b] = a /\ bid[b] = "ACTIVE"} IN
    /\ call[r].op = "clear"
    /\ call' = [call EXCEPT ![r].op = "decide",
                   ![r].seen = [x \in Rows |-> IF x \in active THEN version[x] ELSE @[x]]]
    /\ UNCHANGED <<invoice, auction, issuer, lots, bid, batch, version, outcome, clock>>

\* The bids the solver was given, whatever has become of them since.
Given(r) == Reading(r) \cap Bids

\* recordInvoiceOutcomes and releaseInvoices leave alone what is not on sale.
OnSale(a) == {i \in lots[a] : invoice[i] = "AUCTION_OPEN"}
\* Mutation: a receivable nobody took stays on sale.
MutKeepUnsold(a, sold) == Set(invoice, OnSale(a) \cap sold, "ALLOCATED")
RecordInvoiceOutcomes(a, sold) ==
    [i \in Invoices |-> IF i \notin OnSale(a) THEN invoice[i]
                        ELSE IF i \in sold THEN "ALLOCATED" ELSE "TOKENIZED"]

RecordBidOutcomes(given, winners) ==
    [b \in Bids |-> IF b \notin given THEN bid[b]
                    ELSE IF b \in winners THEN "ALLOCATED" ELSE "REJECTED"]

\* SaveSolution, the outcome of every bid and every receivable, CLEARED: one transaction.  The
\* solver passes over a late bid, which gets no line of the clearing and is rejected all the same.
ClearAuction(r, pairs) ==
    LET a == call[r].on
        sold == {p[1] : p \in pairs}
        winners == {p[2] : p \in pairs} IN
    /\ call[r].op = "decide"
    /\ pairs \subseteq lots[a] \X (Given(r) \ late)
    /\ Unmoved(r, {a} \cup Given(r))
    /\ auction' = [auction EXCEPT ![a] = "CLEARED"]
    /\ allocated' = [allocated EXCEPT ![a] = pairs]
    /\ rejected' = [rejected EXCEPT ![a] = Given(r) \ (winners \cup late)]
    /\ bid' = RecordBidOutcomes(Given(r), winners)
    /\ invoice' = RecordInvoiceOutcomes(a, sold)
    /\ Bump({a} \cup Given(r) \cup OnSale(a)) /\ Return(r)
    /\ UNCHANGED <<issuer, lots, batch, clock>>

ReadToCancel(r, who, a) ==
    /\ MayRun(who, a) /\ CanMove(a, "CANCELLED")
    /\ Begin(r, "cancel", Nobody, a, {a})

\* Mutation: every receivable of the batch is released, the sold ones too.
MutReleaseAll(a) == Set(invoice, lots[a], "TOKENIZED")
ReleaseInvoices(a) == Set(invoice, OnSale(a), "TOKENIZED")

CancelAuction(r) ==
    LET a == call[r].on IN
    /\ call[r].op = "cancel" /\ Unmoved(r, {a})
    /\ auction' = [auction EXCEPT ![a] = "CANCELLED"]
    /\ invoice' = ReleaseInvoices(a)
    /\ Bump({a} \cup OnSale(a)) /\ Return(r)
    /\ UNCHANGED <<issuer, lots, bid, batch, outcome, clock>>

\* What follows a planned settlement is the matter of Settlement.
ReadToSettle(r, who, a) ==
    /\ MayRun(who, a) /\ CanMove(a, "SETTLING") /\ allocated[a] # {}
    /\ Begin(r, "settle", Nobody, a, {a})

SettleAuction(r) ==
    LET a == call[r].on IN
    /\ call[r].op = "settle" /\ Unmoved(r, {a})
    /\ auction' = [auction EXCEPT ![a] = "SETTLING"]
    /\ Bump({a}) /\ Return(r)
    /\ UNCHANGED <<invoice, issuer, lots, bid, batch, outcome, clock>>

-------------------------------------------------------------------------------
Next ==
    \/ \E r \in Requests, who \in Organizations :
          \/ \E offered \in SUBSET Invoices : ReadToOpen(r, who, offered)
          \/ \E a \in Auctions :
                \/ ReadToPlace(r, who, a) \/ ReadToClear(r, who, a)
                \/ ReadToCancel(r, who, a) \/ ReadToSettle(r, who, a)
          \/ \E b \in Bids : ReadToWithdraw(r, who, b)
    \/ \E r \in Requests :
          \/ \E a \in Auctions : OpenAuction(r, a)
          \/ \E b \in Bids : PlaceBid(r, b)
          \/ \E pairs \in SUBSET (Invoices \X Bids) : ClearAuction(r, pairs)
          \/ ListBids(r) \/ CancelBid(r) \/ CancelAuction(r) \/ SettleAuction(r) \/ GiveUp(r)
    \/ \E a \in Auctions : Close(a)

Spec == Init /\ [][Next]_vars

-------------------------------------------------------------------------------
(* Properties *)

Statuses == {"NONE", "OPEN", "CLEARED", "SETTLING", "CANCELLED"}

\* Every row holds a status of its own kind, every request what one operation reads.
TypeOK ==
    /\ invoice \in [Invoices -> {"TOKENIZED", "AUCTION_OPEN", "ALLOCATED"}]
    /\ auction \in [Auctions -> Statuses]
    /\ issuer \in [Auctions -> Organizations \cup {Nobody}]
    /\ lots \in [Auctions -> SUBSET Invoices]
    /\ bid \in [Bids -> {"NONE", "ACTIVE", "CANCELLED", "ALLOCATED", "REJECTED"}]
    /\ batch \in [Bids -> Auctions \cup {Nobody}]
    /\ version \in [Rows -> Nat \ {0}]
    /\ allocated \in [Auctions -> SUBSET (Invoices \X Bids)]
    /\ rejected \in [Auctions -> SUBSET Bids]
    /\ closed \in SUBSET Auctions /\ late \in SUBSET Bids
    /\ call \in [Requests -> [op : Operations \cup {"none"}, by : Organizations \cup {Nobody},
                              on : Auctions \cup {Nobody}, seen : [Rows -> Nat]]]

\* A receivable is on sale exactly while one open batch offers it: the same paper is never in
\* two batches, a batch never offers paper that is gone, and no ended batch leaves its paper
\* behind, whatever opens, clears and cancels at the same time.
OnSaleInOneBatch ==
    \A i \in Invoices :
        LET offering == {a \in Auctions : auction[a] = "OPEN" /\ i \in lots[a]} IN
        IF invoice[i] = "AUCTION_OPEN" THEN Cardinality(offering) = 1 ELSE offering = {}

\* What the stored clearing says of a bid is what the bid's own row says: an investor who
\* withdrew in time is not in the allocation, one who bought cannot withdraw, and one who was too
\* late reads of it in his bid alone.
OutcomesAgree ==
    \A a \in Auctions, b \in Bids : batch[b] = a =>
        /\ (\E i \in Invoices : <<i, b>> \in allocated[a]) <=> bid[b] = "ALLOCATED"
        /\ b \in rejected[a] <=> bid[b] = "REJECTED" /\ b \notin late

\* A receivable is spoken for exactly when the clearing of one batch sold it, and that batch
\* offered it: settlement transfers what is spoken for, and nothing else.
SoldByOneClearing ==
    \A i \in Invoices :
        LET selling == {a \in Auctions : \E b \in Bids : <<i, b>> \in allocated[a]} IN
        /\ Cardinality(selling) = IF invoice[i] = "ALLOCATED" THEN 1 ELSE 0
        /\ \A a \in selling : i \in lots[a]

===============================================================================
