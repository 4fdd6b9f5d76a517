----------------------------- MODULE AuctionProofs -----------------------------
(***************************************************************************)
(* Proofs about the auction: the market around a batch (Marketplace), the  *)
(* flow its clearing is solved by (Flow) and the clearing itself           *)
(* (Clearing), for any number of receivables, batches, bids and requests,  *)
(* and any amounts and limits.                                             *)
(***************************************************************************)
EXTENDS Marketplace, Clearing, SumProofs, SequenceTheorems

-----------------------------------------------------------------------------
(***************************************************************************)
(* The market.  Two things carry the proofs.  A receivable is in one batch *)
(* at most, for the rows of lots are unique and never deleted; and what a  *)
(* request read is still true when the versions it read are, because every *)
(* step that changes a status a later write depends on changes the version *)
(* with it.                                                                *)
(***************************************************************************)

\* The rows of lots: unique, and there from the opening on.
LotsInv ==
    /\ \A a, b \in Auctions : a # b => lots[a] \cap lots[b] = {}
    /\ \A a \in Auctions : auction[a] = "NONE" => lots[a] = {}

\* What the status of a receivable says of the one batch that offers it.
InvoiceInv ==
    /\ \A i \in Invoices : ~Listed(i) => invoice[i] = "TOKENIZED"
    /\ \A a \in Auctions : \A i \in lots[a] :
          /\ invoice[i] = "AUCTION_OPEN" <=> auction[a] = "OPEN"
          /\ invoice[i] = "ALLOCATED" <=> \E b \in Bids : <<i, b>> \in allocated[a]

\* A stored clearing speaks of the lots and the bids of its batch, and of nothing before.
ClearingInv ==
    \A a \in Auctions :
        /\ \A p \in allocated[a] : p[1] \in lots[a] /\ batch[p[2]] = a
        /\ \A b \in rejected[a] : batch[b] = a
        /\ auction[a] \in {"NONE", "OPEN"} => allocated[a] = {} /\ rejected[a] = {}

\* The status a batch must still have when a request writes it.
Expects(op) == CASE op \in {"clear", "decide"} -> {"OPEN"}
                 [] op = "cancel" -> {"OPEN", "CLEARED"}
                 [] op = "settle" -> {"CLEARED"}
                 [] OTHER -> Statuses

\* What a request has read: the past, and the present where the version has not moved.
CopyInv(c) ==
    /\ \A x \in Rows : c.seen[x] <= version[x]
    /\ c.op \in Operations \ {"open"} => c.on \in Auctions
    /\ c.op = "open" => \A x \in Rows : c.seen[x] # 0 => x \in Invoices
    /\ c.op = "withdraw" => \A x \in Rows : c.seen[x] # 0 => x \in Bids
    /\ c.op = "clear" => \A b \in Bids : c.seen[b] = 0
    /\ \A a \in Auctions :
          c.op # "none" /\ a = c.on /\ c.seen[a] = version[a] => auction[a] \in Expects(c.op)
    /\ \A b \in Bids : c.seen[b] # 0 =>
          /\ bid[b] # "NONE"
          /\ c.op = "decide" => batch[b] = c.on
          /\ c.seen[b] = version[b] => bid[b] = "ACTIVE"
CopiesInv == \A r \in Requests : CopyInv(call[r])

\* A bid that was placed was placed on a batch.
PlacedInv == \A b \in Bids : bid[b] # "NONE" => batch[b] \in Auctions

IInv == TypeOK /\ LotsInv /\ InvoiceInv /\ ClearingInv /\ OutcomesAgree /\ PlacedInv /\ CopiesInv

-----------------------------------------------------------------------------
(* Rows and calls *)

Calls == [op : Operations \cup {"none"}, by : Organizations \cup {Nobody},
          on : Auctions \cup {Nobody}, seen : [Rows -> Nat]]

\* A row is of one kind, and its version is a positive number.
LEMMA RowKinds ==
    /\ Invoices \subseteq Rows /\ Auctions \subseteq Rows /\ Bids \subseteq Rows
    /\ Invoices \cap Auctions = {} /\ Invoices \cap Bids = {} /\ Auctions \cap Bids = {}
    /\ Nobody \notin Auctions
PROOF BY MarketplaceAssumption DEF Rows

LEMMA VersionsCount == TypeOK => \A x \in Rows : version[x] \in Nat /\ version[x] > 0
PROOF BY DEF TypeOK

\* What is read now is what the versions of now say.
LEMMA ReadNow ==
    ASSUME TypeOK, NEW rows \in SUBSET Rows
    PROVE  /\ Read(rows) \in [Rows -> Nat]
           /\ \A x \in Rows : Read(rows)[x] = IF x \in rows THEN version[x] ELSE 0
           /\ \A x \in Rows : Read(rows)[x] <= version[x]
           /\ \A x \in Rows : Read(rows)[x] # 0 <=> x \in rows
PROOF BY VersionsCount DEF Read

\* A request that ends leaves the others as they are.
LEMMA ReturnCalls ==
    ASSUME TypeOK, NEW r \in Requests, Return(r)
    PROVE  /\ call' \in [Requests -> Calls]
           /\ \A q \in Requests : call'[q] \in {call[q], NoCall}
<1>1. NoCall \in Calls
  BY DEF Calls, NoCall, Unread
<1> QED
  BY <1>1 DEF TypeOK, Return, Calls

\* Rows that are written get the next version.
LEMMA BumpCounts ==
    ASSUME TypeOK, NEW W \in SUBSET Rows, Bump(W)
    PROVE  /\ version' \in [Rows -> Nat \ {0}]
           /\ \A x \in Rows : version'[x] = IF x \in W THEN version[x] + 1 ELSE version[x]
PROOF BY VersionsCount DEF Bump, TypeOK

\* Writes that change a version with every status leave every copy true, of the past or of now.
LEMMA WritesKeepCopies ==
    ASSUME TypeOK, TypeOK', CopiesInv, NEW W \in SUBSET Rows,
           \A x \in Rows : version'[x] = IF x \in W THEN version[x] + 1 ELSE version[x],
           \A r \in Requests : call'[r] \in {call[r], NoCall},
           \A a \in Auctions \ W : auction'[a] = auction[a] \/ auction[a] = "NONE",
           \A b \in Bids \ W : bid'[b] = bid[b] \/ bid[b] = "NONE",
           \A b \in Bids : bid[b] # "NONE" => bid'[b] # "NONE" /\ batch'[b] = batch[b]
    PROVE  CopiesInv'
<1> SUFFICES ASSUME NEW r \in Requests PROVE CopyInv(call[r])'
  BY DEF CopiesInv
<1> DEFINE c == call[r]
<1>1. CASE call'[r] = NoCall
  BY <1>1, RowKinds DEF CopyInv, NoCall, Unread, TypeOK, Operations
<1>2. CASE call'[r] = call[r]
  <2>1. CopyInv(c) /\ c.seen \in [Rows -> Nat]
    BY DEF CopiesInv, TypeOK
  <2>2. \A x \in Rows : version[x] \in Nat /\ version[x] <= version'[x]
    BY VersionsCount
  <2>3. \A x \in Rows : c.seen[x] <= version'[x]
    BY <2>1, <2>2 DEF CopyInv
  <2>4. \A x \in Rows : c.seen[x] = version'[x] => c.seen[x] = version[x] /\ x \notin W
    BY <2>1, <2>2 DEF CopyInv
  <2>5. \A a \in Auctions :
           c.op # "none" /\ a = c.on /\ c.seen[a] = version'[a] => auction'[a] \in Expects(c.op)
    <3> SUFFICES ASSUME NEW a \in Auctions, c.op # "none", a = c.on, c.seen[a] = version'[a]
                 PROVE  auction'[a] \in Expects(c.op)
      OBVIOUS
    <3>1. auction[a] \in Expects(c.op) /\ a \notin W
      BY <2>1, <2>4, RowKinds DEF CopyInv
    <3>2. auction'[a] \in Statuses
      BY DEF TypeOK
    <3> QED
      BY <3>1, <3>2 DEF Expects
  <2>6. \A b \in Bids : c.seen[b] # 0 =>
           /\ bid'[b] # "NONE"
           /\ c.op = "decide" => batch'[b] = c.on
           /\ c.seen[b] = version'[b] => bid'[b] = "ACTIVE"
    BY <2>1, <2>4, RowKinds DEF CopyInv
  <2> QED
    BY <1>2, <2>1, <2>3, <2>5, <2>6 DEF CopyInv
<1> QED
  BY <1>1, <1>2

\* At first nothing is listed, bid or asked for.
LEMMA InitIInv == Init => IInv
<1> SUFFICES ASSUME Init PROVE IInv
  OBVIOUS
<1> USE DEF Init
<1>1. TypeOK
  BY DEF TypeOK, NoCall, Unread, Statuses
<1>2. LotsInv /\ InvoiceInv /\ ClearingInv /\ OutcomesAgree /\ PlacedInv
  BY DEF LotsInv, InvoiceInv, ClearingInv, OutcomesAgree, PlacedInv, Listed
<1>3. CopiesInv
  BY RowKinds DEF CopiesInv, CopyInv, NoCall, Unread, Operations
<1> QED
  BY <1>1, <1>2, <1>3 DEF IInv

-----------------------------------------------------------------------------
(* What a request reads *)

\* A request that starts with a true copy of what it read changes nothing else.
LEMMA BeginKeeps ==
    ASSUME IInv, NEW r \in Requests, NEW op \in Operations, NEW who \in Organizations \cup {Nobody},
           NEW on \in Auctions \cup {Nobody}, NEW rows \in SUBSET Rows, Begin(r, op, who, on, rows),
           CopyInv([op |-> op, by |-> who, on |-> on, seen |-> Read(rows)])
    PROVE  IInv'
<1> DEFINE new == [op |-> op, by |-> who, on |-> on, seen |-> Read(rows)]
<1> USE DEF IInv
<1>1. UNCHANGED <<invoice, auction, issuer, lots, bid, batch, version, outcome, closed, late>>
  BY DEF Begin, clock
<1>2. UNCHANGED <<allocated, rejected>>
  BY <1>1 DEF outcome
<1>3. call' = [call EXCEPT ![r] = new]
  BY DEF Begin
<1>4. new \in Calls
  BY ReadNow DEF Calls
<1>5. call' \in [Requests -> Calls] /\ \A q \in Requests : call'[q] = IF q = r THEN new ELSE call[q]
  BY <1>3, <1>4 DEF TypeOK, Calls
<1>6. TypeOK'
  BY <1>1, <1>2, <1>5 DEF TypeOK, Calls
<1>7. LotsInv' /\ InvoiceInv'
  BY <1>1, <1>2 DEF LotsInv, InvoiceInv, Listed
<1>8. ClearingInv' /\ OutcomesAgree' /\ PlacedInv'
  BY <1>1, <1>2 DEF ClearingInv, OutcomesAgree, PlacedInv
<1>9. CopiesInv'
  <2> SUFFICES ASSUME NEW q \in Requests PROVE CopyInv(call[q])'
    BY DEF CopiesInv
  <2>1. CopyInv(call'[q])
    BY <1>5 DEF CopiesInv
  <2> QED
    BY <1>1, <2>1 DEF CopyInv
<1> QED
  BY <1>6, <1>7, <1>8, <1>9

LEMMA ReadingKeeps ==
    ASSUME IInv, NEW r \in Requests, NEW who \in Organizations
    PROVE  /\ \A offered \in SUBSET Invoices : ReadToOpen(r, who, offered) => IInv'
           /\ \A a \in Auctions : ReadToPlace(r, who, a) => IInv'
           /\ \A a \in Auctions : ReadToClear(r, who, a) => IInv'
           /\ \A a \in Auctions : ReadToCancel(r, who, a) => IInv'
           /\ \A a \in Auctions : ReadToSettle(r, who, a) => IInv'
           /\ \A b \in Bids : ReadToWithdraw(r, who, b) => IInv'
<1> USE RowKinds
<1> DEFINE Copy(op, by, on, rows) == [op |-> op, by |-> by, on |-> on, seen |-> Read(rows)]
<1>0. TypeOK /\ \A a \in Auctions : auction[a] \in Statuses
  BY DEF IInv, TypeOK
<1>1. ASSUME NEW offered \in SUBSET Invoices, ReadToOpen(r, who, offered) PROVE IInv'
  <2>1. CopyInv(Copy("open", who, Nobody, offered))
    BY <1>0, ReadNow DEF CopyInv
  <2>2. Begin(r, "open", who, Nobody, offered) /\ offered \in SUBSET Rows
    BY <1>1 DEF ReadToOpen
  <2> QED
    BY <2>1, <2>2, BeginKeeps DEF Operations
<1>2. ASSUME NEW a \in Auctions, ReadToPlace(r, who, a) PROVE IInv'
  <2>1. CopyInv(Copy("place", who, a, {}))
    BY <1>0, ReadNow DEF CopyInv, Expects
  <2>2. Begin(r, "place", who, a, {}) /\ {} \in SUBSET Rows
    BY <1>2 DEF ReadToPlace
  <2> QED
    BY <2>1, <2>2, BeginKeeps DEF Operations
<1>3. ASSUME NEW a \in Auctions, ReadToClear(r, who, a) PROVE IInv'
  <2>1. auction[a] = "OPEN"
    BY <1>3 DEF ReadToClear, CanMove, Transitions
  <2>2. CopyInv(Copy("clear", Nobody, a, {a}))
    BY <1>0, <2>1, ReadNow DEF CopyInv, Expects
  <2>3. Begin(r, "clear", Nobody, a, {a}) /\ {a} \in SUBSET Rows
    BY <1>3 DEF ReadToClear
  <2> QED
    BY <2>2, <2>3, BeginKeeps DEF Operations
<1>4. ASSUME NEW a \in Auctions, ReadToCancel(r, who, a) PROVE IInv'
  <2>1. auction[a] \in {"OPEN", "CLEARED"}
    BY <1>4 DEF ReadToCancel, CanMove, Transitions
  <2>2. CopyInv(Copy("cancel", Nobody, a, {a}))
    BY <1>0, <2>1, ReadNow DEF CopyInv, Expects
  <2>3. Begin(r, "cancel", Nobody, a, {a}) /\ {a} \in SUBSET Rows
    BY <1>4 DEF ReadToCancel
  <2> QED
    BY <2>2, <2>3, BeginKeeps DEF Operations
<1>5. ASSUME NEW a \in Auctions, ReadToSettle(r, who, a) PROVE IInv'
  <2>1. auction[a] = "CLEARED"
    BY <1>5 DEF ReadToSettle, CanMove, Transitions
  <2>2. CopyInv(Copy("settle", Nobody, a, {a}))
    BY <1>0, <2>1, ReadNow DEF CopyInv, Expects
  <2>3. Begin(r, "settle", Nobody, a, {a}) /\ {a} \in SUBSET Rows
    BY <1>5 DEF ReadToSettle
  <2> QED
    BY <2>2, <2>3, BeginKeeps DEF Operations
<1>6. ASSUME NEW b \in Bids, ReadToWithdraw(r, who, b) PROVE IInv'
  <2>1. bid[b] = "ACTIVE" /\ auction[batch[b]] = "OPEN"
    BY <1>6 DEF ReadToWithdraw
  <2>2. batch[b] \in Auctions
    BY <2>1 DEF IInv, PlacedInv
  <2>3. CopyInv(Copy("withdraw", Nobody, batch[b], {b}))
    BY <1>0, <2>1, <2>2, ReadNow DEF CopyInv, Expects
  <2>4. Begin(r, "withdraw", Nobody, batch[b], {b}) /\ {b} \in SUBSET Rows
    BY <1>6 DEF ReadToWithdraw
  <2> QED
    BY <2>2, <2>3, <2>4, BeginKeeps DEF Operations
<1> QED
  BY <1>1, <1>2, <1>3, <1>4, <1>5, <1>6

\* The bids of a clearing are read after its batch: those that are active now.
LEMMA ListBidsKeeps ==
    ASSUME IInv, NEW r \in Requests, ListBids(r)
    PROVE  IInv'
<1> DEFINE c == call[r]
           active == {b \in Bids : batch[b] = c.on /\ bid[b] = "ACTIVE"}
           seen == [x \in Rows |-> IF x \in active THEN version[x] ELSE c.seen[x]]
           new == [op |-> "decide", by |-> c.by, on |-> c.on, seen |-> seen]
<1> USE RowKinds
<1>1. /\ c.op = "clear"
      /\ UNCHANGED <<invoice, auction, issuer, lots, bid, batch, version, closed, late>>
      /\ UNCHANGED <<allocated, rejected>>
  BY DEF ListBids, outcome, clock
<1>2. c \in Calls /\ CopyInv(c) /\ TypeOK
  BY DEF IInv, TypeOK, Calls, CopiesInv
<1>3. new \in Calls
  <2>1. seen \in [Rows -> Nat]
    BY <1>2, VersionsCount DEF Calls
  <2> QED
    BY <1>2, <2>1 DEF Calls, Operations
<1>4. call' \in [Requests -> Calls] /\ \A q \in Requests : call'[q] = IF q = r THEN new ELSE call[q]
  <2>1. DOMAIN call' = Requests /\ \A q \in Requests \ {r} : call'[q] = call[q]
    BY <1>2 DEF ListBids, TypeOK
  <2>2. call'[r] = [c EXCEPT !.op = "decide", !.seen = seen]
    BY <1>2 DEF ListBids, TypeOK
  <2>3. call'[r] = new
    BY <1>2, <2>2 DEF Calls
  <2>4. call' = [q \in Requests |-> call'[q]]
    BY <1>2 DEF ListBids, TypeOK
  <2>5. \A q \in Requests : call[q] \in Calls
    BY <1>2 DEF TypeOK, Calls
  <2> HIDE DEF c, new
  <2> QED
    BY <1>3, <2>1, <2>3, <2>4, <2>5
<1>5. TypeOK'
  BY <1>1, <1>2, <1>4 DEF TypeOK, Calls
<1>6. LotsInv' /\ InvoiceInv'
  BY <1>1 DEF IInv, LotsInv, InvoiceInv, Listed
<1>7. ClearingInv' /\ OutcomesAgree' /\ PlacedInv'
  BY <1>1 DEF IInv, ClearingInv, OutcomesAgree, PlacedInv
<1>8. CopyInv(new)
  <2>1. \A x \in Rows : seen[x] <= version[x]
    BY <1>2, VersionsCount DEF CopyInv
  <2>2. new.on \in Auctions
    BY <1>1, <1>2 DEF CopyInv, Operations
  <2>3. \A a \in Auctions : seen[a] = c.seen[a]
    OBVIOUS
  <2>4. \A a \in Auctions : a = c.on /\ c.seen[a] = version[a] => auction[a] = "OPEN"
    BY <1>1, <1>2 DEF CopyInv, Expects
  <2>5. \A b \in Bids : seen[b] # 0 => b \in active
    BY <1>1, <1>2 DEF CopyInv
  <2> QED
    BY <2>1, <2>2, <2>3, <2>4, <2>5 DEF CopyInv, Expects
<1>9. CopiesInv'
  <2> SUFFICES ASSUME NEW q \in Requests PROVE CopyInv(call[q])'
    BY DEF CopiesInv
  <2>1. CopyInv(call'[q])
    BY <1>4, <1>8 DEF IInv, CopiesInv
  <2> QED
    BY <1>1, <2>1 DEF CopyInv
<1> QED
  BY <1>5, <1>6, <1>7, <1>9 DEF IInv

-----------------------------------------------------------------------------
(* What a request writes *)

\* A batch opens with receivables no batch has offered before, whoever read them and when.
LEMMA OpenAuctionKeeps ==
    ASSUME IInv, NEW r \in Requests, NEW a \in Auctions, OpenAuction(r, a)
    PROVE  IInv'
<1> DEFINE offered == Reading(r)
<1> USE RowKinds
<1>1. /\ call[r].op = "open" /\ auction[a] = "NONE" /\ \A i \in offered : ~Listed(i)
      /\ auction' = [auction EXCEPT ![a] = "OPEN"]
      /\ issuer' = [issuer EXCEPT ![a] = call[r].by]
      /\ lots' = [lots EXCEPT ![a] = offered]
      /\ invoice' = Set(invoice, offered, "AUCTION_OPEN")
      /\ Bump(offered) /\ Return(r)
      /\ UNCHANGED <<bid, batch, closed, late, allocated, rejected>>
  BY DEF OpenAuction, CanMove, Transitions, outcome, clock
<1>2. TypeOK /\ CopyInv(call[r]) /\ call[r] \in Calls
  BY DEF IInv, TypeOK, Calls, CopiesInv
<1>3. offered \in SUBSET Invoices /\ offered \in SUBSET Rows
  BY <1>1, <1>2 DEF CopyInv, Reading
<1>4. /\ \A i \in Invoices : invoice'[i] = IF i \in offered THEN "AUCTION_OPEN" ELSE invoice[i]
      /\ \A b \in Auctions : auction'[b] = IF b = a THEN "OPEN" ELSE auction[b]
      /\ \A b \in Auctions : lots'[b] = IF b = a THEN offered ELSE lots[b]
  BY <1>1, <1>2 DEF Set, TypeOK
<1>5. TypeOK'
  BY <1>1, <1>2, <1>3, ReturnCalls, BumpCounts DEF TypeOK, Calls, Statuses, Set
<1>6. lots[a] = {} /\ allocated[a] = {} /\ rejected[a] = {}
  BY <1>1 DEF IInv, LotsInv, ClearingInv
<1>7. LotsInv'
  BY <1>1, <1>4 DEF IInv, LotsInv, Listed
<1>8. InvoiceInv'
  <2>1. ASSUME NEW i \in Invoices, ~Listed(i)' PROVE invoice'[i] = "TOKENIZED"
    <3>1. i \notin offered /\ \A b \in Auctions : i \notin lots'[b]
      BY <1>4, <2>1 DEF Listed
    <3>2. ~Listed(i)
      BY <1>4, <1>6, <3>1 DEF Listed
    <3> QED
      BY <1>4, <3>1, <3>2 DEF IInv, InvoiceInv
  <2>2. ASSUME NEW b \in Auctions, NEW i \in lots'[b]
        PROVE  /\ invoice'[i] = "AUCTION_OPEN" <=> auction'[b] = "OPEN"
               /\ invoice'[i] = "ALLOCATED" <=> \E x \in Bids : <<i, x>> \in allocated'[b]
    <3>1. CASE b = a
      <4>1. i \in offered /\ i \in Invoices
        BY <1>3, <1>4, <2>2, <3>1
      <4>2. invoice'[i] = "AUCTION_OPEN" /\ auction'[b] = "OPEN" /\ allocated'[b] = {}
        BY <1>1, <1>4, <1>6, <3>1, <4>1
      <4> QED
        BY <4>2
    <3>2. CASE b # a
      <4>1. i \in lots[b] /\ i \in Invoices /\ i \notin offered
        BY <1>1, <1>2, <1>4, <2>2, <3>2 DEF Listed, TypeOK
      <4>2. /\ invoice[i] = "AUCTION_OPEN" <=> auction[b] = "OPEN"
            /\ invoice[i] = "ALLOCATED" <=> \E x \in Bids : <<i, x>> \in allocated[b]
        BY <4>1 DEF IInv, InvoiceInv
      <4>3. invoice'[i] = invoice[i] /\ auction'[b] = auction[b] /\ allocated' = allocated
        BY <1>1, <1>4, <3>2, <4>1
      <4> QED
        BY <4>2, <4>3
    <3> QED
      BY <3>1, <3>2
  <2> QED
    BY <2>1, <2>2 DEF InvoiceInv
<1>9. ClearingInv' /\ OutcomesAgree' /\ PlacedInv'
  BY <1>1, <1>4, <1>6 DEF IInv, ClearingInv, OutcomesAgree, PlacedInv
<1>10. CopiesInv'
  <2>1. CopiesInv /\ \A b \in Auctions : auction'[b] = auction[b] \/ auction[b] = "NONE"
    BY <1>1, <1>4 DEF IInv
  <2>2. /\ \A x \in Rows : version'[x] = IF x \in offered THEN version[x] + 1 ELSE version[x]
        /\ \A q \in Requests : call'[q] \in {call[q], NoCall}
    BY <1>1, <1>2, <1>3, ReturnCalls, BumpCounts
  <2>3. bid' = bid /\ batch' = batch
    BY <1>1
  <2> HIDE DEF offered
  <2> QED
    BY <1>2, <1>3, <1>5, <2>1, <2>2, <2>3, WritesKeepCopies
<1> QED
  BY <1>5, <1>7, <1>8, <1>9, <1>10 DEF IInv

\* A step that writes no row, or inserts a bid, needs to look at the versions of none.
LEMMA NoRowMoves ==
    ASSUME TypeOK, version' = version
    PROVE  \A x \in Rows : version'[x] = IF x \in {} THEN version[x] + 1 ELSE version[x]
OBVIOUS

LEMMA PlaceBidKeeps ==
    ASSUME IInv, NEW r \in Requests, NEW b \in Bids, PlaceBid(r, b)
    PROVE  IInv'
<1> USE RowKinds
<1>1. /\ call[r].op = "place" /\ bid[b] = "NONE"
      /\ bid' = [bid EXCEPT ![b] = "ACTIVE"]
      /\ batch' = [batch EXCEPT ![b] = call[r].on] /\ Return(r)
      /\ late' \in {late, late \cup {b}}
      /\ UNCHANGED <<invoice, auction, issuer, lots, version, closed, allocated, rejected>>
  BY DEF PlaceBid, outcome
<1>2. TypeOK /\ CopyInv(call[r]) /\ call[r] \in Calls
  BY DEF IInv, TypeOK, Calls, CopiesInv
<1>3. call[r].on \in Auctions
  BY <1>1, <1>2 DEF CopyInv, Operations
<1>4. /\ \A x \in Bids : bid'[x] = IF x = b THEN "ACTIVE" ELSE bid[x]
      /\ \A x \in Bids : batch'[x] = IF x = b THEN call[r].on ELSE batch[x]
  BY <1>1, <1>2 DEF TypeOK
<1>5. TypeOK'
  BY <1>1, <1>2, <1>3, ReturnCalls DEF TypeOK, Calls
<1>6. LotsInv' /\ InvoiceInv'
  BY <1>1 DEF IInv, LotsInv, InvoiceInv, Listed
<1>7. \A a \in Auctions : (\A p \in allocated[a] : p[2] # b) /\ b \notin rejected[a]
  <2> SUFFICES ASSUME NEW a \in Auctions PROVE (\A p \in allocated[a] : p[2] # b) /\ b \notin rejected[a]
    OBVIOUS
  <2>1. \A p \in allocated[a] : p[1] \in Invoices /\ p[2] \in Bids /\ p = <<p[1], p[2]>>
    BY <1>2 DEF TypeOK
  <2> QED
    BY <1>1, <2>1 DEF IInv, ClearingInv, OutcomesAgree
<1>8. ClearingInv'
  <2>1. \A a \in Auctions : allocated[a] \in SUBSET (Invoices \X Bids) /\ rejected[a] \in SUBSET Bids
    BY <1>2 DEF TypeOK
  <2> QED
    BY <1>1, <1>4, <1>7, <2>1 DEF IInv, ClearingInv
<1>9. OutcomesAgree' /\ PlacedInv'
  <2>1. OutcomesAgree'
    <3> SUFFICES ASSUME NEW a \in Auctions, NEW x \in Bids, batch'[x] = a
                 PROVE  /\ (\E i \in Invoices : <<i, x>> \in allocated[a]) <=> bid'[x] = "ALLOCATED"
                        /\ x \in rejected[a] <=> bid'[x] = "REJECTED" /\ x \notin late'
      BY <1>1 DEF OutcomesAgree
    <3>1. CASE x = b
      <4>1. \A i \in Invoices : <<i, x>> \notin allocated[a]
        BY <1>7, <3>1
      <4> QED
        BY <1>4, <1>7, <3>1, <4>1
    <3>2. CASE x # b
      BY <1>1, <1>4, <3>2 DEF IInv, OutcomesAgree
    <3> QED
      BY <3>1, <3>2
  <2> QED
    BY <1>3, <1>4, <2>1 DEF IInv, PlacedInv
<1>10. CopiesInv'
  <2>1. CopiesInv /\ \A x \in Bids : bid[x] # "NONE" => bid'[x] = bid[x] /\ batch'[x] = batch[x]
    BY <1>1, <1>4 DEF IInv
  <2> QED
    BY <1>1, <1>2, <1>5, <2>1, NoRowMoves, ReturnCalls, WritesKeepCopies
<1> QED
  BY <1>5, <1>6, <1>8, <1>9, <1>10 DEF IInv

\* A bid is withdrawn only while it is active: nothing was decided about it.
LEMMA CancelBidKeeps ==
    ASSUME IInv, NEW r \in Requests, CancelBid(r)
    PROVE  IInv'
<1> DEFINE taken == Reading(r)
<1> USE RowKinds
<1>1. /\ call[r].op = "withdraw" /\ Unmoved(r, taken)
      /\ bid' = Set(bid, taken, "CANCELLED")
      /\ Bump(taken) /\ Return(r)
      /\ UNCHANGED <<invoice, auction, issuer, lots, batch, closed, late, allocated, rejected>>
  BY DEF CancelBid, outcome, clock
<1>2. TypeOK /\ CopyInv(call[r])
  BY DEF IInv, CopiesInv
<1>3. taken \in SUBSET Rows /\ taken \subseteq Bids /\ \A b \in taken : bid[b] = "ACTIVE"
  BY <1>1, <1>2 DEF CopyInv, Reading, Unmoved
<1>4. \A b \in Bids : bid'[b] = IF b \in taken THEN "CANCELLED" ELSE bid[b]
  BY <1>1, <1>2 DEF Set, TypeOK
<1>5. TypeOK'
  BY <1>1, <1>2, <1>3, ReturnCalls, BumpCounts DEF TypeOK, Calls, Set
<1>6. LotsInv' /\ InvoiceInv'
  BY <1>1 DEF IInv, LotsInv, InvoiceInv, Listed
<1>7. ClearingInv' /\ PlacedInv'
  BY <1>1, <1>3, <1>4 DEF IInv, ClearingInv, PlacedInv
<1>8. OutcomesAgree'
  BY <1>1, <1>3, <1>4 DEF IInv, OutcomesAgree
<1>9. CopiesInv'
  <2>1. CopiesInv /\ \A b \in Bids : bid[b] # "NONE" => bid'[b] # "NONE" /\ batch'[b] = batch[b]
    BY <1>1, <1>4 DEF IInv
  <2>2. /\ \A x \in Rows : version'[x] = IF x \in taken THEN version[x] + 1 ELSE version[x]
        /\ \A q \in Requests : call'[q] \in {call[q], NoCall}
    BY <1>1, <1>2, <1>3, ReturnCalls, BumpCounts
  <2>3. auction' = auction /\ \A b \in Bids \ taken : bid'[b] = bid[b]
    BY <1>1, <1>4
  <2> HIDE DEF taken
  <2> QED
    BY <1>2, <1>3, <1>5, <2>1, <2>2, <2>3, WritesKeepCopies
<1> QED
  BY <1>5, <1>6, <1>7, <1>8, <1>9 DEF IInv

\* The batch and the bids of a clearing are, when it is stored, still what the solver was given.
LEMMA GivenIsCurrent ==
    ASSUME IInv, NEW r \in Requests, call[r].op = "decide", Unmoved(r, {call[r].on} \cup Given(r))
    PROVE  /\ call[r].on \in Auctions /\ auction[call[r].on] = "OPEN"
           /\ Given(r) \subseteq Bids
           /\ \A b \in Given(r) : bid[b] = "ACTIVE" /\ batch[b] = call[r].on
<1> USE RowKinds
<1>1. CopyInv(call[r])
  BY DEF IInv, CopiesInv
<1>2. call[r].on \in Auctions /\ auction[call[r].on] = "OPEN"
  BY <1>1 DEF CopyInv, Operations, Expects, Unmoved
<1>3. \A b \in Given(r) : b \in Bids /\ call[r].seen[b] # 0 /\ call[r].seen[b] = version[b]
  BY DEF Given, Reading, Unmoved
<1> QED
  BY <1>1, <1>2, <1>3 DEF CopyInv

LEMMA ClearAuctionKeeps ==
    ASSUME IInv, NEW r \in Requests, NEW pairs \in SUBSET (Invoices \X Bids), ClearAuction(r, pairs)
    PROVE  IInv'
<1> DEFINE a == call[r].on
           given == Given(r)
           sold == {p[1] : p \in pairs}
           winners == {p[2] : p \in pairs}
           W == {a} \cup given \cup OnSale(a)
<1> USE RowKinds
<1>1. /\ call[r].op = "decide" /\ pairs \subseteq lots[a] \X (given \ late) /\ Unmoved(r, {a} \cup given)
      /\ auction' = [auction EXCEPT ![a] = "CLEARED"]
      /\ allocated' = [allocated EXCEPT ![a] = pairs]
      /\ rejected' = [rejected EXCEPT ![a] = given \ (winners \cup late)]
      /\ bid' = RecordBidOutcomes(given, winners)
      /\ invoice' = RecordInvoiceOutcomes(a, sold)
      /\ Bump(W) /\ Return(r)
      /\ UNCHANGED <<issuer, lots, batch, closed, late>>
  BY DEF ClearAuction, clock
<1>2. TypeOK
  BY DEF IInv
<1>3. a \in Auctions /\ auction[a] = "OPEN" /\ given \subseteq Bids
      /\ \A b \in given : bid[b] = "ACTIVE" /\ batch[b] = a
  BY <1>1, GivenIsCurrent
<1>4. lots[a] \subseteq Invoices /\ OnSale(a) = lots[a] /\ W \in SUBSET Rows
  BY <1>2, <1>3 DEF IInv, InvoiceInv, OnSale, TypeOK
<1>5. allocated[a] = {} /\ rejected[a] = {}
  BY <1>3 DEF IInv, ClearingInv
<1>6. /\ \A i \in Invoices : invoice'[i] = IF i \notin lots[a] THEN invoice[i]
                                         ELSE IF i \in sold THEN "ALLOCATED" ELSE "TOKENIZED"
      /\ \A b \in Bids : bid'[b] = IF b \notin given THEN bid[b]
                                   ELSE IF b \in winners THEN "ALLOCATED" ELSE "REJECTED"
      /\ \A x \in Auctions : auction'[x] = IF x = a THEN "CLEARED" ELSE auction[x]
      /\ \A x \in Auctions : allocated'[x] = IF x = a THEN pairs ELSE allocated[x]
      /\ \A x \in Auctions : rejected'[x] = IF x = a THEN given \ (winners \cup late) ELSE rejected[x]
  <2>1. \A i \in Invoices : invoice'[i] = IF i \notin lots[a] THEN invoice[i]
                                      ELSE IF i \in sold THEN "ALLOCATED" ELSE "TOKENIZED"
    BY <1>1, <1>4 DEF RecordInvoiceOutcomes
  <2>2. \A b \in Bids : bid'[b] = IF b \notin given THEN bid[b]
                                 ELSE IF b \in winners THEN "ALLOCATED" ELSE "REJECTED"
    BY <1>1 DEF RecordBidOutcomes
  <2> HIDE DEF sold, winners, given
  <2>3. /\ \A x \in Auctions : auction'[x] = IF x = a THEN "CLEARED" ELSE auction[x]
        /\ \A x \in Auctions : allocated'[x] = IF x = a THEN pairs ELSE allocated[x]
        /\ \A x \in Auctions : rejected'[x] = IF x = a THEN given \ (winners \cup late) ELSE rejected[x]
    BY <1>1, <1>2, <1>3 DEF TypeOK
  <2> QED
    BY <2>1, <2>2, <2>3
<1>7. \A p \in pairs : p[1] \in lots[a] /\ p[2] \in given \ late /\ p = <<p[1], p[2]>>
  BY <1>1
<1>8. (\A i \in Invoices : i \in sold <=> \E b \in Bids : <<i, b>> \in pairs)
      /\ \A b \in Bids : b \in winners <=> \E i \in Invoices : <<i, b>> \in pairs
  <2>1. \A p \in pairs : p[1] \in Invoices /\ p[2] \in Bids /\ p = <<p[1], p[2]>>
    BY <1>7
  <2>2. ASSUME NEW i \in Invoices PROVE i \in sold <=> \E b \in Bids : <<i, b>> \in pairs
    <3>1. ASSUME NEW b \in Bids, <<i, b>> \in pairs PROVE i \in sold
      <4>1. <<i, b>>[1] = i
        OBVIOUS
      <4> QED
        BY <3>1, <4>1
    <3>2. ASSUME i \in sold PROVE \E b \in Bids : <<i, b>> \in pairs
      <4>1. PICK p \in pairs : i = p[1]
        BY <3>2
      <4>2. p[2] \in Bids /\ <<i, p[2]>> \in pairs
        BY <2>1, <4>1
      <4> QED
        BY <4>2
    <3> QED
      BY <3>1, <3>2
  <2>3. ASSUME NEW b \in Bids PROVE b \in winners <=> \E i \in Invoices : <<i, b>> \in pairs
    <3>1. ASSUME NEW i \in Invoices, <<i, b>> \in pairs PROVE b \in winners
      <4>1. <<i, b>>[2] = b
        OBVIOUS
      <4> QED
        BY <3>1, <4>1
    <3>2. ASSUME b \in winners PROVE \E i \in Invoices : <<i, b>> \in pairs
      <4>1. PICK p \in pairs : b = p[2]
        BY <3>2
      <4>2. p[1] \in Invoices /\ <<p[1], b>> \in pairs
        BY <2>1, <4>1
      <4> QED
        BY <4>2
    <3> QED
      BY <3>1, <3>2
  <2> QED
    BY <2>2, <2>3
<1> HIDE DEF sold, winners, given, a, W
<1>9. TypeOK'
  <2>1. invoice' \in [Invoices -> {"TOKENIZED", "AUCTION_OPEN", "ALLOCATED"}]
    BY <1>1, <1>2 DEF RecordInvoiceOutcomes, TypeOK
  <2>2. bid' \in [Bids -> {"NONE", "ACTIVE", "CANCELLED", "ALLOCATED", "REJECTED"}]
    BY <1>1, <1>2 DEF RecordBidOutcomes, TypeOK
  <2>3. /\ auction' \in [Auctions -> Statuses]
        /\ allocated' \in [Auctions -> SUBSET (Invoices \X Bids)]
        /\ rejected' \in [Auctions -> SUBSET Bids]
    BY <1>1, <1>2, <1>3 DEF TypeOK, Statuses
  <2>4. version' \in [Rows -> Nat \ {0}] /\ call' \in [Requests -> Calls]
    BY <1>1, <1>2, <1>4, BumpCounts, ReturnCalls
  <2> QED
    BY <1>1, <1>2, <2>1, <2>2, <2>3, <2>4 DEF TypeOK, Calls
<1>10. LotsInv'
  BY <1>1, <1>3, <1>6 DEF IInv, LotsInv
<1>11. InvoiceInv'
  <2>1. ASSUME NEW i \in Invoices, ~Listed(i)' PROVE invoice'[i] = "TOKENIZED"
    BY <1>1, <1>3, <1>6, <2>1 DEF IInv, InvoiceInv, Listed
  <2>2. ASSUME NEW b \in Auctions, NEW i \in lots[b]
        PROVE  /\ invoice'[i] = "AUCTION_OPEN" <=> auction'[b] = "OPEN"
               /\ invoice'[i] = "ALLOCATED" <=> \E x \in Bids : <<i, x>> \in allocated'[b]
    <3>1. i \in Invoices
      BY <1>2, <2>2 DEF TypeOK
    <3>2. CASE b = a
      BY <1>6, <1>8, <2>2, <3>1, <3>2
    <3>3. CASE b # a
      <4>1. i \notin lots[a]
        BY <1>3, <2>2, <3>3 DEF IInv, LotsInv
      <4>2. invoice'[i] = invoice[i] /\ auction'[b] = auction[b] /\ allocated'[b] = allocated[b]
        BY <1>6, <3>1, <3>3, <4>1
      <4>3. /\ invoice[i] = "AUCTION_OPEN" <=> auction[b] = "OPEN"
            /\ invoice[i] = "ALLOCATED" <=> \E x \in Bids : <<i, x>> \in allocated[b]
        BY <2>2 DEF IInv, InvoiceInv
      <4> QED
        BY <4>2, <4>3
    <3> QED
      BY <3>2, <3>3
  <2> QED
    BY <1>1, <2>1, <2>2 DEF InvoiceInv
<1>12. ClearingInv'
  BY <1>1, <1>3, <1>6, <1>7 DEF IInv, ClearingInv
<1>13. OutcomesAgree' /\ PlacedInv'
  <2>1. ASSUME NEW x \in Auctions, NEW b \in Bids, batch[b] = x
        PROVE  /\ (\E i \in Invoices : <<i, b>> \in allocated'[x]) <=> bid'[b] = "ALLOCATED"
               /\ b \in rejected'[x] <=> bid'[b] = "REJECTED" /\ b \notin late
    <3>1. CASE x = a /\ b \in given
      <4>0. allocated'[x] = pairs
        BY <1>3, <1>6, <3>1
      <4>1. b \in winners <=> \E i \in Invoices : <<i, b>> \in allocated'[x]
        BY <1>8, <4>0
      <4>2. b \in rejected'[x] <=> b \notin winners /\ b \notin late
        BY <1>3, <1>6, <3>1
      <4>3. bid'[b] = IF b \in winners THEN "ALLOCATED" ELSE "REJECTED"
        BY <1>6, <3>1
      <4>4. b \in winners => b \notin late
        <5>1. ASSUME NEW i \in Invoices, <<i, b>> \in pairs PROVE b \notin late
          BY <1>7, <5>1
        <5> QED
          BY <1>8, <5>1
      <4> QED
        BY <4>1, <4>2, <4>3, <4>4
    <3>2. CASE x = a /\ b \notin given
      <4>1. bid[b] # "ALLOCATED" /\ ~(bid[b] = "REJECTED" /\ b \notin late)
        BY <1>5, <2>1, <3>2 DEF IInv, OutcomesAgree
      <4>2. \A i \in Invoices : <<i, b>> \notin pairs
        BY <1>7, <3>2
      <4> QED
        BY <1>6, <3>2, <4>1, <4>2
    <3>3. CASE x # a
      <4>1. b \notin given
        BY <1>3, <2>1, <3>3
      <4>2. bid'[b] = bid[b] /\ allocated'[x] = allocated[x] /\ rejected'[x] = rejected[x]
        BY <1>6, <3>3, <4>1
      <4> QED
        BY <2>1, <4>2 DEF IInv, OutcomesAgree
    <3> QED
      BY <3>1, <3>2, <3>3
  <2>2. OutcomesAgree'
    BY <1>1, <2>1 DEF OutcomesAgree
  <2>3. PlacedInv'
    BY <1>1, <1>3, <1>6 DEF IInv, PlacedInv
  <2> QED
    BY <2>2, <2>3
<1>14. CopiesInv'
  <2>1. /\ \A x \in Auctions \ W : auction'[x] = auction[x]
        /\ \A b \in Bids \ W : bid'[b] = bid[b]
        /\ \A b \in Bids : bid[b] # "NONE" => bid'[b] # "NONE" /\ batch'[b] = batch[b]
    BY <1>1, <1>6 DEF W
  <2>2. CopiesInv
    BY DEF IInv
  <2>3. /\ \A x \in Rows : version'[x] = IF x \in W THEN version[x] + 1 ELSE version[x]
        /\ \A q \in Requests : call'[q] \in {call[q], NoCall}
    BY <1>1, <1>2, <1>4, ReturnCalls, BumpCounts
  <2> QED
    BY <1>2, <1>4, <1>9, <2>1, <2>2, <2>3, WritesKeepCopies
<1> QED
  BY <1>9, <1>10, <1>11, <1>12, <1>13, <1>14 DEF IInv

\* Only what is on sale is released: a receivable that was sold stays with who bought it.
LEMMA CancelAuctionKeeps ==
    ASSUME IInv, NEW r \in Requests, CancelAuction(r)
    PROVE  IInv'
<1> DEFINE a == call[r].on
           W == {a} \cup OnSale(a)
<1> USE RowKinds
<1>1. /\ call[r].op = "cancel" /\ Unmoved(r, {a})
      /\ auction' = [auction EXCEPT ![a] = "CANCELLED"]
      /\ invoice' = Set(invoice, OnSale(a), "TOKENIZED")
      /\ Bump(W) /\ Return(r)
      /\ UNCHANGED <<issuer, lots, bid, batch, closed, late, allocated, rejected>>
  BY DEF CancelAuction, ReleaseInvoices, outcome, clock
<1>2. TypeOK /\ CopyInv(call[r])
  BY DEF IInv, CopiesInv
<1>3. a \in Auctions /\ auction[a] \in {"OPEN", "CLEARED"}
  BY <1>1, <1>2 DEF CopyInv, Operations, Expects, Unmoved
<1>4. OnSale(a) \subseteq lots[a] /\ lots[a] \subseteq Invoices /\ W \in SUBSET Rows
  BY <1>2, <1>3 DEF OnSale, TypeOK
<1>5. \A b \in Auctions : auction'[b] = IF b = a THEN "CANCELLED" ELSE auction[b]
  BY <1>1, <1>2 DEF TypeOK
<1>6. \A i \in Invoices : invoice'[i] = IF i \in OnSale(a) THEN "TOKENIZED" ELSE invoice[i]
  BY <1>1, <1>2 DEF Set, TypeOK
<1> HIDE DEF a, W
<1>7. TypeOK'
  <2>1. invoice' \in [Invoices -> {"TOKENIZED", "AUCTION_OPEN", "ALLOCATED"}]
    BY <1>1, <1>2 DEF Set, TypeOK
  <2>2. auction' \in [Auctions -> Statuses]
    BY <1>1, <1>2 DEF TypeOK, Statuses
  <2>3. version' \in [Rows -> Nat \ {0}] /\ call' \in [Requests -> Calls]
    BY <1>1, <1>2, <1>4, BumpCounts, ReturnCalls
  <2> QED
    BY <1>1, <1>2, <2>1, <2>2, <2>3 DEF TypeOK, Calls
<1>8. LotsInv'
  BY <1>1, <1>3, <1>5 DEF IInv, LotsInv
<1>9. InvoiceInv'
  <2>1. ASSUME NEW i \in Invoices, ~Listed(i)' PROVE invoice'[i] = "TOKENIZED"
    BY <1>1, <1>6, <2>1 DEF IInv, InvoiceInv, Listed
  <2>2. ASSUME NEW b \in Auctions, NEW i \in lots[b]
        PROVE  /\ invoice'[i] = "AUCTION_OPEN" <=> auction'[b] = "OPEN"
               /\ invoice'[i] = "ALLOCATED" <=> \E x \in Bids : <<i, x>> \in allocated[b]
    <3>1. i \in Invoices
      BY <1>2, <2>2 DEF TypeOK
    <3>2. /\ invoice[i] = "AUCTION_OPEN" <=> auction[b] = "OPEN"
          /\ invoice[i] = "ALLOCATED" <=> \E x \in Bids : <<i, x>> \in allocated[b]
      BY <2>2 DEF IInv, InvoiceInv
    <3>3. CASE b = a
      BY <1>5, <1>6, <2>2, <3>1, <3>2, <3>3 DEF OnSale
    <3>4. CASE b # a
      <4>1. i \notin OnSale(a)
        BY <1>3, <1>4, <2>2, <3>4 DEF IInv, LotsInv
      <4>2. invoice'[i] = invoice[i] /\ auction'[b] = auction[b]
        BY <1>5, <1>6, <3>1, <3>4, <4>1
      <4> QED
        BY <3>2, <4>2
    <3> QED
      BY <3>3, <3>4
  <2> QED
    BY <1>1, <2>1, <2>2 DEF InvoiceInv
<1>10. ClearingInv' /\ OutcomesAgree' /\ PlacedInv'
  BY <1>1, <1>3, <1>5 DEF IInv, ClearingInv, OutcomesAgree, PlacedInv
<1>11. CopiesInv'
  <2>1. /\ CopiesInv
        /\ \A x \in Auctions \ W : auction'[x] = auction[x]
    BY <1>5 DEF IInv, W
  <2>2. /\ \A x \in Rows : version'[x] = IF x \in W THEN version[x] + 1 ELSE version[x]
        /\ \A q \in Requests : call'[q] \in {call[q], NoCall}
    BY <1>1, <1>2, <1>4, ReturnCalls, BumpCounts
  <2> QED
    BY <1>1, <1>2, <1>4, <1>7, <2>1, <2>2, WritesKeepCopies
<1> QED
  BY <1>7, <1>8, <1>9, <1>10, <1>11 DEF IInv

LEMMA SettleAuctionKeeps ==
    ASSUME IInv, NEW r \in Requests, SettleAuction(r)
    PROVE  IInv'
<1> DEFINE a == call[r].on
<1> USE RowKinds
<1>1. /\ call[r].op = "settle" /\ Unmoved(r, {a})
      /\ auction' = [auction EXCEPT ![a] = "SETTLING"]
      /\ Bump({a}) /\ Return(r)
      /\ UNCHANGED <<invoice, issuer, lots, bid, batch, closed, late, allocated, rejected>>
  BY DEF SettleAuction, outcome, clock
<1>2. TypeOK /\ CopyInv(call[r])
  BY DEF IInv, CopiesInv
<1>3. a \in Auctions /\ auction[a] = "CLEARED" /\ {a} \in SUBSET Rows
  BY <1>1, <1>2 DEF CopyInv, Operations, Expects, Unmoved
<1>4. \A b \in Auctions : auction'[b] = IF b = a THEN "SETTLING" ELSE auction[b]
  BY <1>1, <1>2 DEF TypeOK
<1> HIDE DEF a
<1>5. TypeOK'
  BY <1>1, <1>2, <1>3, BumpCounts, ReturnCalls DEF TypeOK, Calls, Statuses
<1>6. LotsInv'
  BY <1>1, <1>3, <1>4 DEF IInv, LotsInv
<1>7. InvoiceInv'
  <2>1. \A b \in Auctions : auction'[b] = "OPEN" <=> auction[b] = "OPEN"
    BY <1>3, <1>4
  <2>2. \A i \in Invoices : Listed(i)' <=> Listed(i)
    BY <1>1 DEF Listed
  <2> QED
    BY <1>1, <2>1, <2>2 DEF IInv, InvoiceInv
<1>8. ClearingInv' /\ OutcomesAgree' /\ PlacedInv'
  <2>1. \A b \in Auctions : auction'[b] \in {"NONE", "OPEN"} <=> auction[b] \in {"NONE", "OPEN"}
    BY <1>3, <1>4
  <2>2. ClearingInv'
    BY <1>1, <2>1 DEF IInv, ClearingInv
  <2>3. OutcomesAgree' /\ PlacedInv'
    BY <1>1 DEF IInv, OutcomesAgree, PlacedInv
  <2> QED
    BY <2>2, <2>3
<1>9. CopiesInv'
  <2>1. /\ CopiesInv
        /\ \A x \in Auctions \ {a} : auction'[x] = auction[x]
    BY <1>4 DEF IInv
  <2>2. /\ \A x \in Rows : version'[x] = IF x \in {a} THEN version[x] + 1 ELSE version[x]
        /\ \A q \in Requests : call'[q] \in {call[q], NoCall}
    BY <1>1, <1>2, <1>3, ReturnCalls, BumpCounts
  <2> QED
    BY <1>1, <1>2, <1>3, <1>5, <2>1, <2>2, WritesKeepCopies
<1> QED
  BY <1>5, <1>6, <1>7, <1>8, <1>9 DEF IInv

\* A closing time that comes, and a request that ends without writing.
LEMMA NothingWritten ==
    ASSUME IInv, UNCHANGED <<invoice, auction, issuer, lots, bid, batch, version, allocated, rejected, late>>,
           closed' \in SUBSET Auctions, call' \in [Requests -> Calls],
           \A q \in Requests : call'[q] \in {call[q], NoCall}
    PROVE  IInv'
<1>1. TypeOK
  BY DEF IInv
<1>2. TypeOK'
  BY <1>1 DEF TypeOK, Calls
<1>3. LotsInv' /\ InvoiceInv'
  BY DEF IInv, LotsInv, InvoiceInv, Listed
<1>4. ClearingInv' /\ OutcomesAgree' /\ PlacedInv'
  BY DEF IInv, ClearingInv, OutcomesAgree, PlacedInv
<1>5. CopiesInv'
  <2>1. CopiesInv
    BY DEF IInv
  <2>2. \A x \in Rows : version'[x] = IF x \in {} THEN version[x] + 1 ELSE version[x]
    BY <1>1, NoRowMoves
  <2>3. /\ {} \in SUBSET Rows
        /\ \A a \in Auctions \ {} : auction'[a] = auction[a]
        /\ \A b \in Bids \ {} : bid'[b] = bid[b]
        /\ \A b \in Bids : bid[b] # "NONE" => bid'[b] # "NONE" /\ batch'[b] = batch[b]
    OBVIOUS
  <2> QED
    BY <1>1, <1>2, <2>1, <2>2, <2>3, WritesKeepCopies
<1> QED
  BY <1>2, <1>3, <1>4, <1>5 DEF IInv

LEMMA NextIInv == IInv /\ [Next]_vars => IInv'
<1> SUFFICES ASSUME IInv, [Next]_vars PROVE IInv'
  OBVIOUS
<1>0. TypeOK /\ call \in [Requests -> Calls] /\ closed \in SUBSET Auctions
  BY DEF IInv, TypeOK, Calls
<1>1. ASSUME NEW r \in Requests, NEW who \in Organizations,
             \/ \E offered \in SUBSET Invoices : ReadToOpen(r, who, offered)
             \/ \E a \in Auctions :
                   \/ ReadToPlace(r, who, a) \/ ReadToClear(r, who, a)
                   \/ ReadToCancel(r, who, a) \/ ReadToSettle(r, who, a)
             \/ \E b \in Bids : ReadToWithdraw(r, who, b)
      PROVE  IInv'
  BY <1>1, ReadingKeeps
<1>2. ASSUME NEW r \in Requests, NEW a \in Auctions, OpenAuction(r, a) PROVE IInv'
  BY <1>2, OpenAuctionKeeps
<1>3. ASSUME NEW r \in Requests, NEW b \in Bids, PlaceBid(r, b) PROVE IInv'
  BY <1>3, PlaceBidKeeps
<1>4. ASSUME NEW r \in Requests, NEW pairs \in SUBSET (Invoices \X Bids), ClearAuction(r, pairs)
      PROVE  IInv'
  BY <1>4, ClearAuctionKeeps
<1>5. ASSUME NEW r \in Requests, ListBids(r) \/ CancelBid(r) \/ CancelAuction(r) \/ SettleAuction(r)
      PROVE  IInv'
  BY <1>5, ListBidsKeeps, CancelBidKeeps, CancelAuctionKeeps, SettleAuctionKeeps
<1>6. ASSUME NEW r \in Requests, GiveUp(r) PROVE IInv'
  BY <1>0, <1>6, ReturnCalls, NothingWritten DEF GiveUp, outcome, clock
<1>7. ASSUME NEW a \in Auctions, Close(a) PROVE IInv'
  BY <1>0, <1>7, NothingWritten DEF Close, outcome
<1>8. CASE UNCHANGED vars
  BY <1>0, <1>8, NothingWritten DEF vars, outcome, clock
<1> QED
  BY <1>1, <1>2, <1>3, <1>4, <1>5, <1>6, <1>7, <1>8 DEF Next

-----------------------------------------------------------------------------
\* Every row and every request keeps its form, and IInv holds throughout.
THEOREM MarketInvariant == Spec => []IInv
BY InitIInv, NextIInv, PTL DEF Spec

\* Rows, versions, stored clearings and what requests hold of them keep their types.
THEOREM TypeCorrect == Spec => []TypeOK
<1>1. IInv => TypeOK
  BY DEF IInv
<1> QED
  BY <1>1, MarketInvariant, PTL

\* A receivable is on sale in the one open batch that offers it, and no ended batch keeps it
\* there (app/marketplace/service.go, OpenAuction, ClearAuction, CancelAuction).
THEOREM OnSaleOnce == Spec => []OnSaleInOneBatch
<1>1. IInv => OnSaleInOneBatch
  <2> SUFFICES ASSUME IInv, NEW i \in Invoices
               PROVE  LET offering == {a \in Auctions : auction[a] = "OPEN" /\ i \in lots[a]}
                      IN IF invoice[i] = "AUCTION_OPEN" THEN Cardinality(offering) = 1 ELSE offering = {}
    BY DEF OnSaleInOneBatch
  <2> DEFINE offering == {a \in Auctions : auction[a] = "OPEN" /\ i \in lots[a]}
  <2>1. CASE invoice[i] = "AUCTION_OPEN"
    <3>1. PICK a \in Auctions : i \in lots[a]
      BY <2>1 DEF IInv, InvoiceInv, Listed
    <3>2. auction[a] = "OPEN" /\ \A b \in Auctions : i \in lots[b] => b = a
      BY <2>1, <3>1 DEF IInv, InvoiceInv, LotsInv
    <3>3. offering = {a}
      BY <3>1, <3>2
    <3> QED
      BY <2>1, <3>3, FS_Singleton
  <2>2. CASE invoice[i] # "AUCTION_OPEN"
    BY <2>2 DEF IInv, InvoiceInv
  <2> QED
    BY <2>1, <2>2
<1> QED
  BY <1>1, MarketInvariant, PTL

\* The stored clearing and the bids' own rows tell every investor the same (ClearAuction,
\* CancelBid).
THEOREM InvestorsAreToldTheSame == Spec => []OutcomesAgree
<1>1. IInv => OutcomesAgree
  BY DEF IInv
<1> QED
  BY <1>1, MarketInvariant, PTL

\* What is spoken for was sold by the clearing of the one batch that offered it (ClearAuction,
\* recordInvoiceOutcomes).
THEOREM SoldOnce == Spec => []SoldByOneClearing
<1>1. IInv => SoldByOneClearing
  <2> SUFFICES ASSUME IInv, NEW i \in Invoices
               PROVE  LET selling == {a \in Auctions : \E b \in Bids : <<i, b>> \in allocated[a]}
                      IN /\ Cardinality(selling) = IF invoice[i] = "ALLOCATED" THEN 1 ELSE 0
                         /\ \A a \in selling : i \in lots[a]
    BY DEF SoldByOneClearing
  <2> DEFINE selling == {a \in Auctions : \E b \in Bids : <<i, b>> \in allocated[a]}
  <2>1. \A a \in selling : i \in lots[a]
    <3> SUFFICES ASSUME NEW a \in Auctions, NEW b \in Bids, <<i, b>> \in allocated[a]
                 PROVE  i \in lots[a]
      OBVIOUS
    <3>1. <<i, b>>[1] \in lots[a]
      BY DEF IInv, ClearingInv
    <3> QED
      BY <3>1
  <2>2. CASE invoice[i] = "ALLOCATED"
    <3>1. PICK a \in Auctions : i \in lots[a]
      BY <2>2 DEF IInv, InvoiceInv, Listed
    <3>2. a \in selling /\ \A b \in Auctions : i \in lots[b] => b = a
      BY <2>2, <3>1 DEF IInv, InvoiceInv, LotsInv
    <3>3. selling = {a}
      BY <2>1, <3>2
    <3> QED
      BY <2>1, <2>2, <3>3, FS_Singleton
  <2>3. CASE invoice[i] # "ALLOCATED"
    <3>1. selling = {}
      BY <2>1, <2>3 DEF IInv, InvoiceInv
    <3> QED
      BY <2>3, <3>1, FS_EmptySet
  <2> QED
    BY <2>2, <2>3
<1> QED
  BY <1>1, MarketInvariant, PTL

-----------------------------------------------------------------------------
(***************************************************************************)
(* The flow.  An augmentation pushes the bottleneck of a path along it.    *)
(* That the path meets no node twice follows from its meeting the source:  *)
(* a walk along predecessors that comes by a node again never leaves the   *)
(* circle.  That it has room follows from the search, which reaches a node *)
(* over an open arc only.  Neither needs the potentials to be right.       *)
(* Distances and walk are recursive functions: that they satisfy their     *)
(* definitions is RecursionExists.                                         *)
(***************************************************************************)

\* The networks a search is run on: pairs of nodes, the smaller number first.
IsNetwork(net) ==
    /\ net.sink \in Nat \ {0}
    /\ IsFiniteSet(DOMAIN net.edges)
    /\ \A arc \in DOMAIN net.edges :
          /\ arc \in (0..net.sink) \X (0..net.sink)
          /\ arc[1] < arc[2]
          /\ net.edges[arc].capacity \in Nat
          /\ net.edges[arc].cost \in Int

\* Where a node that has a distance has it from: over an open arc, from a node that has one.
TreeInv ==
    \A v \in Nodes \ {Source} :
        dist[v] # Unreachable => Open(<<prev[v], v>>) /\ dist[prev[v]] # Unreachable

\* What a search has written down so far.
SearchTyped ==
    /\ potential = <<>> \/ potential \in [Nodes -> Int]
    /\ dist \in [Nodes -> Int]
    /\ \A v \in Nodes : dist[v] <= Unreachable
    /\ prev \in [Nodes -> Nodes]

\* The invariant of a solve: a feasible flow, and a search that forms a tree of open arcs.
FlowInv ==
    /\ IsNetwork(network)
    /\ flow \in [Edges -> Int]
    /\ FlowIsFeasible
    /\ SearchTyped
    /\ TreeInv

-----------------------------------------------------------------------------
\* Nodes and edges are finitely many, and an edge joins two nodes.
LEMMA NodesAre ==
    ASSUME IsNetwork(network)
    PROVE  /\ Sink \in Nat \ {0}
           /\ IsFiniteSet(Edges) /\ IsFiniteSet(Nodes)
           /\ Source \in Nodes /\ Sink \in Nodes
           /\ \A v \in Nodes : v \in Nat /\ v <= Sink
           /\ \A arc \in Edges : /\ arc = <<arc[1], arc[2]>>
                                 /\ arc[1] \in Nodes /\ arc[2] \in Nodes /\ arc[1] < arc[2]
                                 /\ network.edges[arc].capacity \in Nat
                                 /\ network.edges[arc].cost \in Int
<1>1. Sink \in Nat \ {0} /\ IsFiniteSet(Edges)
  BY DEF IsNetwork, Sink, Edges
<1>2. IsFiniteSet(Nodes)
  BY <1>1, FS_Interval DEF Nodes
<1> QED
  BY <1>1, <1>2 DEF IsNetwork, Sink, Edges, Nodes, Source

\* An arc that is open has numbers for its cost and its room.
LEMMA OpenIs ==
    ASSUME IsNetwork(network), flow \in [Edges -> Int], NEW u \in Nodes, NEW v \in Nodes,
           <<u, v>> \in Edges \/ <<v, u>> \in Edges
    PROVE  Cost(<<u, v>>) \in Int /\ Room(<<u, v>>) \in Int
<1>1. Twin(<<u, v>>) = <<v, u>>
  BY DEF Twin
<1> QED
  BY <1>1, NodesAre DEF Cost, Room

-----------------------------------------------------------------------------
(* The potentials a solve begins with *)
DistanceStep(g, v) ==
    LET reached == {u \in Before(v) : g[u] # Unreachable}
    IN IF v = Source THEN 0
       ELSE IF reached = {} THEN Unreachable
       ELSE Min({g[u] + Cost(<<u, v>>) : u \in reached})

\* The distances are computed node by node, each from the ones before it.
LEMMA FromSourceIs == FromSource = CHOOSE g : g = [v \in Nodes |-> DistanceStep(g, v)]
BY Zenon DEF FromSource, DistanceStep

\* What the nodes before a node say gives the node a number.
LEMMA DistanceIsInt ==
    ASSUME FarAway, IsNetwork(network), NEW v \in Nodes, NEW g,
           \A u \in Nodes : u < v => g[u] \in Int
    PROVE  DistanceStep(g, v) \in Int
<1> DEFINE reached == {u \in Before(v) : g[u] # Unreachable}
           offers == {g[u] + Cost(<<u, v>>) : u \in reached}
<1>1. Unreachable \in Int /\ 0 \in Int
  BY DEF FarAway
<1>2. ASSUME NEW u \in reached PROVE g[u] + Cost(<<u, v>>) \in Int
  <2>1. u \in Nodes /\ u < v /\ <<u, v>> \in Edges
    BY DEF Before
  <2>2. Cost(<<u, v>>) \in Int
    BY <2>1, NodesAre DEF Cost
  <2> QED
    BY <2>1, <2>2
<1>3. CASE reached # {}
  <2>1. reached \in SUBSET Nodes
    BY DEF Before
  <2>2. IsFiniteSet(reached)
    BY <2>1, NodesAre, FS_Subset
  <2> DEFINE offer == [u \in reached |-> g[u] + Cost(<<u, v>>)]
  <2>3. offers = {offer[u] : u \in reached}
    OBVIOUS
  <2>4. IsFiniteSet({offer[u] : u \in reached})
    <3> HIDE DEF offer, reached
    <3> QED
      BY <2>2, ImageIsFinite
  <2>5. offers \in SUBSET Int /\ offers # {} /\ IsFiniteSet(offers)
    BY <1>2, <1>3, <2>3, <2>4
  <2>6. Min(offers) \in Int
    <3> HIDE DEF offers
    <3> QED
      BY <2>5, IntMinIs
  <2> QED
    BY <1>1, <1>3, <2>6 DEF DistanceStep
<1>4. CASE reached = {}
  BY <1>1, <1>4 DEF DistanceStep
<1> QED
  BY <1>3, <1>4

\* Every node has a distance, and the definition of the distances holds of it.
LEMMA FromSourceRecurs ==
    ASSUME FarAway, IsNetwork(network)
    PROVE  FromSource = [v \in Nodes |-> DistanceStep(FromSource, v)]
<1> DEFINE N == Sink
           step == [v \in Nodes |-> [g \in [Nodes -> Int] |-> DistanceStep(g, v)]]
<1>1. Nodes = 0..N /\ N \in Nat
  BY NodesAre DEF Nodes
<1>2. \A v \in Nodes : \A g \in [Nodes -> Int] : DistanceStep(g, v) \in Int
  BY <1>1, DistanceIsInt
<1>3. ASSUME NEW v \in Nodes, NEW g \in [Nodes -> Int], NEW h \in [Nodes -> Int],
             \A m \in Nodes : m < v => g[m] = h[m]
      PROVE  DistanceStep(g, v) = DistanceStep(h, v)
  <2>1. \A u \in Before(v) : g[u] = h[u]
    BY <1>1, <1>3 DEF Before
  <2>2. {u \in Before(v) : g[u] # Unreachable} = {u \in Before(v) : h[u] # Unreachable}
    BY <2>1
  <2>3. {g[u] + Cost(<<u, v>>) : u \in {w \in Before(v) : g[w] # Unreachable}}
        = {h[u] + Cost(<<u, v>>) : u \in {w \in Before(v) : h[w] # Unreachable}}
    BY <2>1, <2>2
  <2> QED
    BY <2>2, <2>3 DEF DistanceStep
<1>4. /\ step \in [Nodes -> [[Nodes -> Int] -> Int]]
      /\ \A v \in Nodes : \A g \in [Nodes -> Int] : step[v][g] = DistanceStep(g, v)
  BY <1>2
<1>5. IsRecursion(Nodes, Int, step)
  <2> HIDE DEF step
  <2>1. ASSUME NEW v \in Nodes, NEW g \in [Nodes -> Int], NEW h \in [Nodes -> Int],
               \A m \in Nodes : m < v => g[m] = h[m]
        PROVE  step[v][g] = step[v][h]
    <3>1. DistanceStep(g, v) = DistanceStep(h, v)
      BY <1>3, <2>1
    <3> QED
      BY <1>4, <3>1
  <2> QED
    BY <1>4, <2>1 DEF IsRecursion
<1> HIDE DEF step, N
<1>6. PICK f \in [Nodes -> Int] : \A v \in Nodes : f[v] = step[v][f]
  <2>1. Int # {}
    OBVIOUS
  <2>2. \E f : Solves(f, Nodes, Int, step)
    BY <1>1, <1>5, <2>1, RecursionExists
  <2> QED
    BY <2>2 DEF Solves
<1>7. f = [v \in Nodes |-> DistanceStep(f, v)]
  BY <1>1, <1>4, <1>6
<1> QED
  BY <1>7, FromSourceIs

\* Potentials are integers, those a solve begins with and those a search leaves.
LEMMA PotentialsTyped ==
    ASSUME FarAway, IsNetwork(network)
    PROVE  InitialPotentials \in [Nodes -> Int]
<1>1. \A v \in Nodes : FromSource[v] = DistanceStep(FromSource, v)
  BY FromSourceRecurs
<1> DEFINE P == {v \in Nodes : FromSource[v] \in Int}
           N == Sink
<1>2. Nodes = 0..N /\ N \in Nat
  BY NodesAre DEF Nodes
<1>3. ASSUME NEW v \in 0..N, \A m \in 0..N : m < v => m \in P PROVE v \in P
  BY <1>1, <1>2, <1>3, DistanceIsInt
<1>4. \A v \in 0..N : v \in P
  <2> HIDE DEF P, N
  <2> QED
    BY <1>2, <1>3, UpToInduction
<1> QED
  BY <1>2, <1>4 DEF InitialPotentials

-----------------------------------------------------------------------------
(* The search *)
\* The queue gives one of its nodes.
LEMMA NearestIs ==
    ASSUME FlowInv, Queue # {}
    PROVE  Nearest \in Queue
<1>1. Queue \in SUBSET Nodes /\ IsFiniteSet(Queue) /\ \A v \in Queue : dist[v] \in Int /\ v \in Nat
  BY NodesAre, FS_Subset DEF Queue, FlowInv, SearchTyped
<1> DEFINE D == {dist[v] : v \in Queue}
<1>2. D \in SUBSET Int /\ D # {} /\ IsFiniteSet(D)
  BY <1>1, ImageIsFinite
<1>3. PICK d \in D : \A x \in D : d <= x
  <2> HIDE DEF D
  <2> QED
    BY <1>2, IntMinIs
<1> DEFINE T == {v \in Queue : dist[v] = d}
<1>4. T \in SUBSET Nat /\ T # {}
  BY <1>1, <1>3
<1>5. PICK v \in T : \A w \in T : v <= w
  <2> HIDE DEF T
  <2> QED
    BY <1>4, LeastOf
<1>6. ASSUME NEW w \in Queue PROVE dist[v] < dist[w] \/ (dist[v] = dist[w] /\ v <= w)
  BY <1>1, <1>3, <1>5
<1> QED
  BY <1>5, <1>6 DEF Nearest

\* Settling a node changes no flow, and leads to its neighbours over open arcs only.
LEMMA SettleKeeps ==
    ASSUME FarAway, FlowInv, Settle
    PROVE  FlowInv'
<1> DEFINE u == Nearest
           nearer == {v \in Nodes : u # Sink /\ Open(<<u, v>>) /\ Reached(<<u, v>>) < dist[v]}
<1>1. /\ dist' = [v \in Nodes |-> IF v \in nearer THEN Reached(<<u, v>>) ELSE dist[v]]
      /\ prev' = [v \in Nodes |-> IF v \in nearer THEN u ELSE prev[v]]
      /\ network' = network /\ flow' = flow /\ potential' = potential
      /\ potential # <<>> /\ Queue # {}
  BY DEF Settle, Searching
<1>2. u \in Nodes /\ dist[u] # Unreachable
  BY <1>1, NearestIs DEF Queue
<1>3. /\ IsNetwork(network) /\ flow \in [Edges -> Int] /\ Unreachable \in Int
      /\ potential \in [Nodes -> Int] /\ dist \in [Nodes -> Int] /\ prev \in [Nodes -> Nodes]
      /\ \A v \in Nodes : dist[v] <= Unreachable
  BY <1>1 DEF FlowInv, SearchTyped, FarAway
<1> HIDE DEF u
<1>4. ASSUME NEW v \in nearer PROVE Reached(<<u, v>>) \in Int /\ Reached(<<u, v>>) < dist[v]
  <2>1. <<u, v>> \in Edges \/ <<v, u>> \in Edges
    BY DEF Open, Twin
  <2>2. Cost(<<u, v>>) \in Int
    BY <1>2, <1>3, <2>1, OpenIs
  <2>3. Reached(<<u, v>>) = dist[u] + Cost(<<u, v>>) + potential[u] - potential[v]
    BY DEF Reached
  <2> QED
    BY <1>2, <1>3, <2>2, <2>3
<1>5. nearer \in SUBSET Nodes /\ \A v \in nearer : Open(<<u, v>>)
  OBVIOUS
<1> HIDE DEF nearer
<1>6. /\ dist' \in [Nodes -> Int] /\ prev' \in [Nodes -> Nodes]
      /\ \A v \in Nodes : dist'[v] <= dist[v]
  BY <1>1, <1>2, <1>3, <1>4
<1>7. \A v \in Nodes : /\ dist'[v] <= Unreachable
                       /\ dist[v] # Unreachable => dist'[v] # Unreachable
  BY <1>3, <1>6
<1>8. /\ Edges' = Edges /\ Nodes' = Nodes /\ Source' = Source /\ Sink' = Sink
      /\ \A arc : Open(arc)' <=> Open(arc)
      /\ IsNetwork(network)'
      /\ FlowIsFeasible'
  BY <1>1, <1>3 DEF Edges, Nodes, Source, Sink, Open, Room, IsNetwork, FlowInv, FlowIsFeasible,
     Through, Into, OutOf, Twin
<1>9. TreeInv'
  <2>1. ASSUME NEW v \in Nodes \ {Source}, dist'[v] # Unreachable
        PROVE  Open(<<prev'[v], v>>) /\ dist'[prev'[v]] # Unreachable
    <3>1. CASE v \in nearer
      BY <1>1, <1>2, <1>5, <1>7, <3>1
    <3>2. CASE v \notin nearer
      <4>1. prev'[v] = prev[v] /\ dist'[v] = dist[v] /\ prev[v] \in Nodes
        BY <1>1, <1>3, <3>2
      <4>2. Open(<<prev[v], v>>) /\ dist[prev[v]] # Unreachable
        BY <2>1, <4>1 DEF FlowInv, TreeInv
      <4> QED
        BY <1>7, <4>1, <4>2
    <3> QED
      BY <3>1, <3>2
  <2> QED
    BY <1>1, <1>8, <2>1 DEF TreeInv, Open, Room, Twin, Edges
<1> QED
  BY <1>1, <1>3, <1>6, <1>7, <1>8, <1>9 DEF FlowInv, SearchTyped

-----------------------------------------------------------------------------
(* The walk back from the sink *)
BackStep(g, n) == IF n = 0 THEN Sink ELSE IF g[n - 1] = Source THEN Source ELSE prev[g[n - 1]]
\* More steps than a walk can take.
Steps == 0..(Sink + 1)

\* The walk back is computed step by step, each from the one before it.
LEMMA BackIs == Back = CHOOSE g : g = [n \in Steps |-> BackStep(g, n)]
BY Zenon DEF Back, BackStep, Steps

\* Every step of the walk back is a node, and the one before it follows from it.
LEMMA BackRecurs ==
    ASSUME FlowInv
    PROVE  Back = [n \in Steps |-> BackStep(Back, n)]
<1> DEFINE N == Sink + 1
           step == [n \in Steps |-> [g \in [Steps -> Nodes] |-> BackStep(g, n)]]
<1>1. N \in Nat /\ Steps = 0..N /\ Source \in Nodes /\ Sink \in Nodes /\ prev \in [Nodes -> Nodes]
  BY NodesAre DEF Steps, FlowInv, SearchTyped
<1>2. \A n \in Steps : n # 0 => n - 1 \in Steps /\ n - 1 < n
  BY <1>1
<1>3. \A n \in Steps : \A g \in [Steps -> Nodes] : BackStep(g, n) \in Nodes
  BY <1>1, <1>2 DEF BackStep
<1>4. /\ step \in [Steps -> [[Steps -> Nodes] -> Nodes]]
      /\ \A n \in Steps : \A g \in [Steps -> Nodes] : step[n][g] = BackStep(g, n)
  BY <1>3
<1>5. IsRecursion(Steps, Nodes, step)
  <2> HIDE DEF step
  <2>1. ASSUME NEW n \in Steps, NEW g \in [Steps -> Nodes], NEW h \in [Steps -> Nodes],
               \A m \in Steps : m < n => g[m] = h[m]
        PROVE  step[n][g] = step[n][h]
    <3>1. BackStep(g, n) = BackStep(h, n)
      BY <1>2, <2>1 DEF BackStep
    <3> QED
      BY <1>4, <3>1
  <2> QED
    BY <1>4, <2>1 DEF IsRecursion
<1> HIDE DEF step, N
<1>6. PICK f \in [Steps -> Nodes] : \A n \in Steps : f[n] = step[n][f]
  <2>1. \E f : Solves(f, Steps, Nodes, step)
    BY <1>1, <1>5, RecursionExists
  <2> QED
    BY <2>1 DEF Solves
<1>7. f = [n \in Steps |-> BackStep(f, n)]
  BY <1>4, <1>6
<1> QED
  BY <1>7, BackIs

\* The walk that ends: T steps over nodes that have a distance, and then the source.
LEMMA WalkIs ==
    ASSUME FlowInv, dist[Sink] # Unreachable, WalkEnds
    PROVE  \E T \in Nat \ {0} :
              /\ T <= Sink + 1
              /\ Back[0] = Sink
              /\ \A n \in Steps : n < T =>
                    /\ Back[n] \in Nodes \ {Source} /\ dist[Back[n]] # Unreachable
                    /\ n + 1 \in Steps /\ Back[n + 1] = prev[Back[n]]
              /\ \A n \in Steps : n >= T => Back[n] = Source
<1>1. /\ Sink \in Nat \ {0} /\ Source \in Nodes /\ Sink \in Nodes /\ Source = 0
      /\ prev \in [Nodes -> Nodes]
      /\ \A n \in Steps : n \in Nat /\ n <= Sink + 1
      /\ \A n \in Nat : n <= Sink + 1 => n \in Steps
  BY NodesAre DEF Steps, FlowInv, SearchTyped, Source
<1>2. \A n \in Steps : Back[n] = BackStep(Back, n)
  BY BackRecurs
<1>3. Back[0] = Sink
  BY <1>1, <1>2 DEF BackStep
<1>4. \A n \in Steps : n # 0 =>
        Back[n] = IF Back[n - 1] = Source THEN Source ELSE prev[Back[n - 1]]
  BY <1>1, <1>2 DEF BackStep
<1> DEFINE P == {n \in Steps : Back[n] \in Nodes /\ (Back[n] # Source => dist[Back[n]] # Unreachable)}
           L == Sink + 1
<1>5. ASSUME NEW n \in 0..L, \A m \in 0..L : m < n => m \in P PROVE n \in P
  <2>1. n \in Steps
    BY DEF Steps
  <2>2. CASE n = 0
    BY <1>1, <1>3, <2>1, <2>2
  <2>3. CASE n # 0
    <3>1. n - 1 \in P
      BY <1>1, <1>5, <2>3
    <3>2. CASE Back[n - 1] = Source
      BY <1>1, <1>4, <2>1, <2>3, <3>2
    <3>3. CASE Back[n - 1] # Source
      <4>1. Back[n] = prev[Back[n - 1]] /\ Back[n - 1] \in Nodes \ {Source} /\ dist[Back[n - 1]] # Unreachable
        BY <1>4, <2>1, <2>3, <3>1, <3>3
      <4>2. dist[prev[Back[n - 1]]] # Unreachable
        BY <4>1 DEF FlowInv, TreeInv
      <4> QED
        BY <1>1, <2>1, <4>1, <4>2
    <3> QED
      BY <3>2, <3>3
  <2> QED
    BY <2>2, <2>3
<1>6. \A n \in Steps : n \in P
  <2>1. \A n \in 0..L : n \in P
    <3>1. L \in Nat
      BY <1>1
    <3> HIDE DEF P, L
    <3> QED
      BY <1>5, <3>1, UpToInduction
  <2> QED
    BY <2>1 DEF Steps
<1> DEFINE E == {n \in Nat : n <= Sink + 1 /\ Back[n] = Source}
<1>7. Sink + 1 \in E
  BY <1>1 DEF WalkEnds
<1>8. PICK T \in E : \A n \in E : T <= n
  <2>1. E \in SUBSET Nat /\ E # {}
    BY <1>7
  <2> HIDE DEF E
  <2> QED
    BY <2>1, LeastOf
<1>9. T # 0
  BY <1>1, <1>3, <1>8
<1>10. ASSUME NEW n \in Steps, n < T
       PROVE  /\ Back[n] \in Nodes \ {Source} /\ dist[Back[n]] # Unreachable
              /\ n + 1 \in Steps /\ Back[n + 1] = prev[Back[n]]
  <2>1. Back[n] # Source /\ n \in P /\ n + 1 \in Steps /\ n + 1 # 0 /\ (n + 1) - 1 = n
    BY <1>1, <1>6, <1>8, <1>10
  <2> QED
    BY <1>4, <2>1
<1> DEFINE Q == {n \in Steps : n >= T => Back[n] = Source}
<1>11. ASSUME NEW n \in 0..L, \A m \in 0..L : m < n => m \in Q PROVE n \in Q
  <2>1. n \in Steps
    BY DEF Steps
  <2>2. CASE n <= T
    BY <1>1, <1>8, <2>1, <2>2
  <2>3. CASE n > T
    <3>1. n # 0 /\ n - 1 \in Q /\ n - 1 >= T
      BY <1>1, <1>8, <1>11, <2>3
    <3> QED
      BY <1>4, <2>1, <3>1
  <2> QED
    BY <1>1, <1>8, <2>2, <2>3
<1>12. \A n \in Steps : n \in Q
  <2>1. \A n \in 0..L : n \in Q
    <3>1. L \in Nat
      BY <1>1
    <3> HIDE DEF Q, L
    <3> QED
      BY <1>11, <3>1, UpToInduction
  <2> QED
    BY <2>1 DEF Steps
<1> QED
  BY <1>1, <1>3, <1>8, <1>9, <1>10, <1>12

\* The nodes on the walk, and what the walk says of each: one open arc enters it from the node
\* before it, which no other node is entered from.
Trail == {Back[n] : n \in DOMAIN Back} \ {Source}
\* The walk leads to the sink over open arcs, and never through one node twice.
TrailFacts ==
    /\ Trail \in SUBSET (Nodes \ {Source}) /\ Sink \in Trail
    /\ \A v \in Trail : /\ Open(<<prev[v], v>>) /\ dist[v] # Unreachable
                        /\ prev[v] \in Trail \cup {Source} /\ prev[v] # Sink
    /\ \A v, w \in Trail : prev[v] = prev[w] => v = w
    /\ \A v \in (Trail \ {Sink}) \cup {Source} : \E w \in Trail : prev[w] = v
    /\ \A v, w \in Trail : ~(prev[v] = w /\ prev[w] = v)

LEMMA TrailIs ==
    ASSUME FlowInv, dist[Sink] # Unreachable, WalkEnds
    PROVE  TrailFacts
<1>1. PICK T \in Nat \ {0} :
              /\ T <= Sink + 1
              /\ Back[0] = Sink
              /\ \A n \in Steps : n < T =>
                    /\ Back[n] \in Nodes \ {Source} /\ dist[Back[n]] # Unreachable
                    /\ n + 1 \in Steps /\ Back[n + 1] = prev[Back[n]]
              /\ \A n \in Steps : n >= T => Back[n] = Source
  BY WalkIs
<1>2. /\ Sink \in Nat \ {0} /\ Source = 0 /\ Source \in Nodes /\ Sink \in Nodes
      /\ \A n \in Steps : n \in Nat /\ n <= Sink + 1
      /\ \A n \in Nat : n <= Sink + 1 => n \in Steps
  BY NodesAre DEF Steps, FlowInv, Source
<1>3. DOMAIN Back = Steps
  BY BackRecurs
<1> DEFINE On == {n \in Nat : n < T}
<1>4. \A n \in On : /\ n \in Steps /\ n + 1 \in Steps /\ Back[n] \in Nodes \ {Source}
                    /\ dist[Back[n]] # Unreachable /\ Back[n + 1] = prev[Back[n]]
  BY <1>1, <1>2
<1>5. Trail = {Back[n] : n \in On}
  <2>1. \A n \in Steps : Back[n] # Source => n \in On
    BY <1>1, <1>2
  <2> QED
    BY <1>3, <1>4, <2>1 DEF Trail
\* Two steps at one node would go on in step, and the later one is at the source first.
<1>6. ASSUME NEW i \in Nat, NEW j \in Nat, i < j, j <= T PROVE Back[i] # Back[j]
  <2> DEFINE L == T - j
             P == {k \in Nat : k <= L => Back[i + k] = Back[j + k]}
  <2> SUFFICES ASSUME Back[i] = Back[j] PROVE FALSE
    OBVIOUS
  <2>1. L \in Nat
    BY <1>6
  <2>2. ASSUME NEW k \in 0..L, \A m \in 0..L : m < k => m \in P PROVE k \in P
    <3>1. CASE k = 0
      BY <1>6, <3>1
    <3>2. CASE k # 0
      <4>1. k - 1 \in P /\ k - 1 \in Nat /\ k - 1 <= L
        BY <2>1, <2>2, <3>2
      <4>2. i + (k - 1) \in On /\ j + (k - 1) \in On
        BY <1>6, <3>2
      <4>3. Back[i + (k - 1)] = Back[j + (k - 1)]
        BY <4>1
      <4>4. (i + (k - 1)) + 1 = i + k /\ (j + (k - 1)) + 1 = j + k
        BY <1>6
      <4> QED
        BY <1>4, <4>2, <4>3, <4>4
    <3> QED
      BY <3>1, <3>2
  <2>3. \A k \in 0..L : k \in P
    <3> HIDE DEF P, L
    <3> QED
      BY <2>1, <2>2, UpToInduction
  <2>4. L \in P /\ j + L = T /\ i + L < T /\ i + L \in Nat
    BY <1>6, <2>1, <2>3
  <2>5. Back[i + L] = Back[T]
    BY <2>1, <2>4
  <2>6. Back[T] = Source
    BY <1>1, <1>2
  <2> QED
    BY <1>4, <2>4, <2>5, <2>6
<1>7. \A i, j \in Nat : i <= T /\ j <= T /\ Back[i] = Back[j] => i = j
  BY <1>6
<1>8. Trail \in SUBSET (Nodes \ {Source}) /\ Sink \in Trail
  BY <1>1, <1>4, <1>5
<1>9. ASSUME NEW v \in Trail PROVE Open(<<prev[v], v>>) /\ dist[v] # Unreachable
  BY <1>4, <1>5 DEF FlowInv, TreeInv
<1>10. ASSUME NEW v \in Trail
       PROVE  prev[v] \in Trail \cup {Source} /\ prev[v] # Sink
  <2>1. PICK n \in On : v = Back[n]
    BY <1>5
  <2>2. prev[v] = Back[n + 1] /\ n + 1 \in Nat /\ n + 1 <= T
    BY <1>4, <2>1
  <2>3. prev[v] # Sink
    BY <1>1, <1>7, <2>2
  <2>4. CASE n + 1 = T
    BY <1>1, <1>2, <2>2, <2>3, <2>4
  <2>5. CASE n + 1 # T
    <3>1. n + 1 \in On
      BY <2>2, <2>5
    <3> QED
      BY <1>5, <2>2, <2>3, <3>1
  <2> QED
    BY <2>4, <2>5
<1>11. ASSUME NEW v \in Trail, NEW w \in Trail, prev[v] = prev[w] PROVE v = w
  <2>1. PICK n \in On, m \in On : v = Back[n] /\ w = Back[m]
    BY <1>5
  <2>2. Back[n + 1] = Back[m + 1] /\ n + 1 \in Nat /\ m + 1 \in Nat /\ n + 1 <= T /\ m + 1 <= T
    BY <1>4, <1>11, <2>1
  <2>3. n + 1 = m + 1
    BY <1>7, <2>2
  <2> QED
    BY <2>1, <2>3
<1>12. ASSUME NEW v \in (Trail \ {Sink}) \cup {Source} PROVE \E w \in Trail : prev[w] = v
  <2>1. CASE v \in Trail \ {Sink}
    <3>1. PICK n \in On : v = Back[n]
      BY <1>5, <2>1
    <3>2. n - 1 \in On /\ (n - 1) + 1 = n
      BY <1>1, <2>1, <3>1
    <3> QED
      BY <1>4, <1>5, <3>1, <3>2
  <2>2. CASE v = Source
    <3>1. T - 1 \in On /\ (T - 1) + 1 = T /\ T \in Steps
      BY <1>1, <1>2
    <3> QED
      BY <1>1, <1>4, <1>5, <2>2, <3>1
  <2> QED
    BY <2>1, <2>2
<1>13. ASSUME NEW v \in Trail, NEW w \in Trail, prev[v] = w, prev[w] = v PROVE FALSE
  <2>1. PICK n \in On : v = Back[n]
    BY <1>5
  <2>2. Back[n + 1] = w /\ n + 1 \in Nat /\ n + 1 <= T
    BY <1>4, <1>13, <2>1
  <2>3. n + 1 # T
    BY <1>1, <1>2, <1>8, <2>2
  <2>4. n + 1 \in On
    BY <2>2, <2>3
  <2>5. Back[(n + 1) + 1] = v /\ (n + 1) + 1 \in Nat /\ (n + 1) + 1 <= T
    BY <1>4, <1>13, <2>2, <2>4
  <2>6. n = (n + 1) + 1
    BY <1>7, <2>1, <2>5
  <2> QED
    BY <2>6
<1> QED
  BY <1>8, <1>9, <1>10, <1>11, <1>12, <1>13 DEF TrailFacts

-----------------------------------------------------------------------------
(* An augmentation *)
\* The bottleneck is something, and no arc of the path has less room.
LEMMA BottleneckIs ==
    ASSUME FlowInv, TrailFacts
    PROVE  /\ Bottleneck \in Nat \ {0}
           /\ \A v \in Trail : Bottleneck <= Room(<<prev[v], v>>) /\ Room(<<prev[v], v>>) \in Int
<1> DEFINE R == {Room(<<prev[v], v>>) : v \in Trail}
<1>1. {Room(arc) : arc \in Path} = R
  BY DEF Path, Trail
<1>2. ASSUME NEW v \in Trail
      PROVE  Room(<<prev[v], v>>) \in Nat \ {0}
  <2>1. v \in Nodes /\ prev[v] \in Nodes /\ Open(<<prev[v], v>>)
    BY DEF TrailFacts, FlowInv, SearchTyped
  <2>2. <<prev[v], v>> \in Edges \/ <<v, prev[v]>> \in Edges
    BY <2>1 DEF Open, Twin
  <2>3. Room(<<prev[v], v>>) \in Int
    BY <2>1, <2>2, OpenIs DEF FlowInv
  <2> QED
    BY <2>1, <2>3 DEF Open
<1>3. R \in SUBSET Nat /\ R # {} /\ 0 \notin R
  <2>1. R \in SUBSET Nat /\ 0 \notin R
    BY <1>2
  <2>2. Sink \in Trail
    BY DEF TrailFacts
  <2> QED
    BY <2>1, <2>2
<1>4. Min(R) \in R /\ \A x \in R : Min(R) <= x
  <2> HIDE DEF R
  <2> QED
    BY <1>3, MinIs
<1>5. Bottleneck = Min(R)
  BY <1>1 DEF Bottleneck
<1>6. \A v \in Trail : Room(<<prev[v], v>>) \in R
  OBVIOUS
<1>7. \A v \in Trail : Room(<<prev[v], v>>) \in Int
  BY <1>2
<1> HIDE DEF R
<1> QED
  BY <1>3, <1>4, <1>5, <1>6, <1>7

\* A path that enters a node over one arc and leaves it over another changes what is on the
\* edges into the node and on those out of it by as much.
Shift(arc, amount) ==
    [a \in Edges |-> IF a = arc THEN amount ELSE IF Twin(a) = arc THEN -amount ELSE 0]

\* The flow a push leaves on an edge.
LEMMA ShiftIs ==
    ASSUME FlowInv, NEW amount \in Int, NEW u \in Nodes, NEW v \in Nodes,
           <<u, v>> \in Edges \/ <<v, u>> \in Edges
    PROVE  /\ Numbers(Shift(<<u, v>>, amount), Edges)
           /\ \A w \in Nodes :
                /\ SumOf(Shift(<<u, v>>, amount), Into(w)) \in Int
                /\ SumOf(Shift(<<u, v>>, amount), OutOf(w)) \in Int
                /\ SumOf(Shift(<<u, v>>, amount), Into(w))
                     - SumOf(Shift(<<u, v>>, amount), OutOf(w))
                   = IF w = v THEN amount ELSE IF w = u THEN -amount ELSE 0
<1> DEFINE s == Shift(<<u, v>>, amount)
<1>1. /\ IsFiniteSet(Edges)
      /\ \A arc \in Edges : arc = <<arc[1], arc[2]>> /\ arc[1] < arc[2] /\ arc[1] \in Nat /\ arc[2] \in Nat
      /\ u \in Nat /\ v \in Nat
  BY NodesAre DEF FlowInv
<1>2. \A a \in Edges : Twin(a) = <<a[2], a[1]>>
  BY DEF Twin
<1>3. \A a \in Edges : s[a] \in Int
  BY DEF Shift
<1>4. Numbers(s, Edges)
  BY <1>3 DEF Numbers
<1>5. ASSUME NEW w \in Nodes
      PROVE  /\ SumOf(s, Into(w)) \in Int
             /\ SumOf(s, OutOf(w)) \in Int
             /\ SumOf(s, Into(w)) - SumOf(s, OutOf(w))
                = IF w = v THEN amount ELSE IF w = u THEN -amount ELSE 0
  <2>1. IsFiniteSet(Into(w)) /\ IsFiniteSet(OutOf(w)) /\ Into(w) \in SUBSET Edges /\ OutOf(w) \in SUBSET Edges
    BY <1>1, FS_Subset DEF Into, OutOf
  <2>2. CASE <<u, v>> \in Edges
    <3>1. <<v, u>> \notin Edges /\ u < v
      BY <1>1, <2>2
    <3>2. \A a \in Edges : s[a] = IF a = <<u, v>> THEN amount ELSE 0
      BY <1>1, <1>2, <3>1 DEF Shift
    <3>3. /\ \A y \in Into(w) : y # <<u, v>> => s[y] = 0
          /\ \A y \in OutOf(w) : y # <<u, v>> => s[y] = 0
          /\ s[<<u, v>>] = amount
      BY <2>1, <2>2, <3>2
    <3>4. /\ SumOf(s, Into(w)) = IF <<u, v>> \in Into(w) THEN s[<<u, v>>] ELSE 0
          /\ SumOf(s, OutOf(w)) = IF <<u, v>> \in OutOf(w) THEN s[<<u, v>>] ELSE 0
      <4> HIDE DEF s
      <4> QED
        BY <2>1, <3>3, SumOfOne
    <3>5. (<<u, v>> \in Into(w) <=> w = v) /\ (<<u, v>> \in OutOf(w) <=> w = u)
      BY <2>2 DEF Into, OutOf
    <3> HIDE DEF s
    <3> QED
      BY <3>1, <3>3, <3>4, <3>5
  <2>3. CASE <<u, v>> \notin Edges
    <3>1. <<v, u>> \in Edges /\ v < u
      BY <1>1, <2>3
    <3>2. \A a \in Edges : s[a] = IF a = <<v, u>> THEN -amount ELSE 0
      <4>1. \A a \in Edges : a # <<u, v>> /\ (Twin(a) = <<u, v>> <=> a = <<v, u>>)
        BY <1>1, <1>2, <2>3
      <4> QED
        BY <4>1 DEF Shift
    <3>3. /\ \A y \in Into(w) : y # <<v, u>> => s[y] = 0
          /\ \A y \in OutOf(w) : y # <<v, u>> => s[y] = 0
          /\ s[<<v, u>>] = -amount
      BY <2>1, <3>1, <3>2
    <3>4. /\ SumOf(s, Into(w)) = IF <<v, u>> \in Into(w) THEN s[<<v, u>>] ELSE 0
          /\ SumOf(s, OutOf(w)) = IF <<v, u>> \in OutOf(w) THEN s[<<v, u>>] ELSE 0
      <4> HIDE DEF s
      <4> QED
        BY <2>1, <3>3, SumOfOne
    <3>5. (<<v, u>> \in Into(w) <=> w = u) /\ (<<v, u>> \in OutOf(w) <=> w = v)
      BY <3>1 DEF Into, OutOf
    <3>6. /\ SumOf(s, Into(w)) = IF w = u THEN -amount ELSE 0
          /\ SumOf(s, OutOf(w)) = IF w = v THEN -amount ELSE 0
      <4> HIDE DEF s
      <4> QED
        BY <3>3, <3>4, <3>5
    <3>7. u # v
      BY <1>1, <3>1
    <3> HIDE DEF s
    <3> QED
      BY <3>6, <3>7
  <2> QED
    BY <2>2, <2>3
<1> QED
  BY <1>4, <1>5

\* Pushing the bottleneck along the walk keeps the flow within capacity and balanced.
LEMMA AugmentKeeps ==
    ASSUME FarAway, FlowInv, NEW limit, Augment(limit)
    PROVE  FlowInv'
<1> DEFINE B == Bottleneck
<1>1. /\ flow' = [arc \in Edges |-> IF arc \in Path THEN flow[arc] + B
                                    ELSE IF Twin(arc) \in Path THEN flow[arc] - B
                                    ELSE flow[arc]]
      /\ potential' = [v \in Nodes |->
                         IF dist[v] # Unreachable THEN potential[v] + dist[v] ELSE potential[v]]
      /\ dist' = NoDistance(network) /\ prev' = NoArc(network)
      /\ network' = network
      /\ potential # <<>> /\ dist[Sink] # Unreachable /\ WalkEnds
  BY DEF Augment, Pays
<1>2. /\ IsNetwork(network) /\ flow \in [Edges -> Int] /\ Unreachable \in Nat \ {0}
      /\ potential \in [Nodes -> Int] /\ dist \in [Nodes -> Int] /\ prev \in [Nodes -> Nodes]
  BY <1>1 DEF FlowInv, SearchTyped, FarAway
<1>3. TrailFacts
  BY <1>1, TrailIs
<1>4. B \in Nat /\ \A v \in Trail : B <= Room(<<prev[v], v>>) /\ Room(<<prev[v], v>>) \in Int
  BY <1>3, BottleneckIs
<1> HIDE DEF B
<1>5. Path = {<<prev[v], v>> : v \in Trail}
  BY DEF Path, Trail
<1>6. /\ Edges' = Edges /\ Nodes' = Nodes /\ Source' = Source /\ Sink' = Sink
      /\ IsNetwork(network)'
      /\ \A v : Into(v)' = Into(v) /\ OutOf(v)' = OutOf(v)
  BY <1>1, <1>2 DEF Edges, Nodes, Source, Sink, IsNetwork, Into, OutOf
<1>7. /\ Sink \in Nodes /\ Source \in Nodes /\ Source = 0
      /\ IsFiniteSet(Edges)
      /\ \A arc \in Edges : /\ arc = <<arc[1], arc[2]>> /\ arc[1] < arc[2]
                            /\ arc[1] \in Nat /\ arc[2] \in Nat
                            /\ Twin(arc) = <<arc[2], arc[1]>> /\ Twin(arc) \notin Edges
                            /\ network.edges[arc].capacity \in Nat
                            /\ flow[arc] \in Int
  <2>1. \A arc \in Edges : /\ arc = <<arc[1], arc[2]>> /\ arc[1] < arc[2]
                            /\ arc[1] \in Nat /\ arc[2] \in Nat
    BY <1>2, NodesAre
  <2>2. ASSUME NEW arc \in Edges PROVE <<arc[2], arc[1]>> \notin Edges
    BY <2>1
  <2> QED
    BY <1>2, <2>1, <2>2, NodesAre DEF Source, Twin
<1>8. ASSUME NEW arc \in Edges, arc \in Path PROVE Twin(arc) \notin Path
  <2>1. PICK v \in Trail : arc = <<prev[v], v>>
    BY <1>5, <1>8
  <2>2. SUFFICES ASSUME NEW w \in Trail, <<v, prev[v]>> = <<prev[w], w>> PROVE FALSE
    BY <1>5, <2>1 DEF Twin
  <2> QED
    BY <1>3, <2>2 DEF TrailFacts
<1>9. \A arc \in Edges : flow'[arc] \in 0..network.edges[arc].capacity
  <2> TAKE arc \in Edges
  <2>1. flow[arc] \in 0..network.edges[arc].capacity
    BY DEF FlowInv, FlowIsFeasible
  <2>2. CASE arc \in Path
    <3>1. B <= Room(arc)
      BY <1>4, <1>5, <2>2
    <3>2. Room(arc) = network.edges[arc].capacity - flow[arc]
      BY DEF Room
    <3> QED
      BY <1>1, <1>4, <1>7, <2>1, <2>2, <3>1, <3>2
  <2>3. CASE arc \notin Path /\ Twin(arc) \in Path
    <3>1. B <= Room(Twin(arc))
      BY <1>4, <1>5, <2>3
    <3>2. Room(Twin(arc)) = flow[arc]
      BY <1>7 DEF Room, Twin
    <3> QED
      BY <1>1, <1>4, <1>7, <2>1, <2>3, <3>1, <3>2
  <2>4. CASE arc \notin Path /\ Twin(arc) \notin Path
    BY <1>1, <2>1, <2>4
  <2> QED
    BY <2>2, <2>3, <2>4
<1>10. ASSUME NEW v \in Nodes \ {Source, Sink} PROVE SumOf(flow', Into(v)) = SumOf(flow', OutOf(v))
  <2>1. /\ IsFiniteSet(Into(v)) /\ IsFiniteSet(OutOf(v))
        /\ Into(v) \in SUBSET Edges /\ OutOf(v) \in SUBSET Edges
        /\ \A a \in Into(v) : a[2] = v
        /\ \A a \in OutOf(v) : a[1] = v
    BY <1>7, FS_Subset DEF Into, OutOf
  <2>2. SumOf(flow, Into(v)) = SumOf(flow, OutOf(v))
    BY DEF FlowInv, FlowIsFeasible, Through
  <2>3. CASE v \notin Trail
    <3>1. \A a \in Edges : a[1] = v \/ a[2] = v => flow'[a] = flow[a]
      <4> TAKE a \in Edges
      <4> HAVE a[1] = v \/ a[2] = v
      <4>1. a \notin Path /\ Twin(a) \notin Path
        BY <1>3, <1>5, <1>7, <2>3 DEF TrailFacts
      <4> QED
        BY <1>1, <4>1
    <3>2. /\ \A a \in Into(v) : flow[a] = flow'[a]
          /\ \A a \in OutOf(v) : flow[a] = flow'[a]
      BY <2>1, <3>1
    <3>3. Numbers(flow, Into(v)) /\ Numbers(flow, OutOf(v))
      BY <1>2, <2>1 DEF Numbers
    <3>4. SumOf(flow, Into(v)) = SumOf(flow', Into(v)) /\ SumOf(flow, OutOf(v)) = SumOf(flow', OutOf(v))
      BY <2>1, <3>2, <3>3, SumOfSame
    <3> QED
      BY <2>2, <3>4
  <2>4. CASE v \in Trail
    <3>1. PICK w \in Trail : prev[w] = v
      BY <1>3, <2>4 DEF TrailFacts
    <3> DEFINE p == prev[v]
               in == Shift(<<p, v>>, B)
               out == Shift(<<v, w>>, B)
    <3>2. /\ p \in Nodes /\ w \in Nodes /\ v \in Nodes
          /\ <<p, v>> \in Edges \/ <<v, p>> \in Edges
          /\ <<v, w>> \in Edges \/ <<w, v>> \in Edges
          /\ p # w /\ p # v /\ w # v
      BY <1>2, <1>3, <2>4, <3>1 DEF TrailFacts, Open, Twin
    <3>3. /\ <<p, v>> \in Path /\ <<v, w>> \in Path
          /\ \A a \in Path : a[2] = v => a = <<p, v>>
          /\ \A a \in Path : a[1] = v => a = <<v, w>>
      BY <1>3, <1>5, <2>4, <3>1 DEF TrailFacts
    <3> HIDE DEF p
    <3>4. \A a \in Edges : a[1] = v \/ a[2] = v => flow'[a] = flow[a] + (in[a] + out[a])
      <4> TAKE a \in Edges
      <4> HAVE a[1] = v \/ a[2] = v
      <4>1. a = <<a[1], a[2]>> /\ Twin(a) = <<a[2], a[1]>> /\ a[1] # a[2] /\ flow[a] \in Int
        BY <1>7
      <4>2. a \in Path <=> a = <<p, v>> \/ a = <<v, w>>
        BY <3>3, <4>1
      <4>3. Twin(a) \in Path <=> Twin(a) = <<p, v>> \/ Twin(a) = <<v, w>>
        BY <3>3, <4>1
      <4>4. /\ in[a] = IF a = <<p, v>> THEN B ELSE IF Twin(a) = <<p, v>> THEN -B ELSE 0
            /\ out[a] = IF a = <<v, w>> THEN B ELSE IF Twin(a) = <<v, w>> THEN -B ELSE 0
        BY DEF Shift
      <4>5. flow'[a] = IF a \in Path THEN flow[a] + B
                       ELSE IF Twin(a) \in Path THEN flow[a] - B ELSE flow[a]
        BY <1>1
      <4> HIDE DEF in, out
      <4> QED
        BY <1>4, <3>2, <4>1, <4>2, <4>3, <4>4, <4>5
    <3>5. Numbers(in, Edges) /\ Numbers(out, Edges)
      BY <1>4, <3>2, ShiftIs
    <3>6. /\ SumOf(in, Into(v)) \in Int /\ SumOf(in, OutOf(v)) \in Int
          /\ SumOf(out, Into(v)) \in Int /\ SumOf(out, OutOf(v)) \in Int
          /\ SumOf(in, Into(v)) - SumOf(in, OutOf(v)) = B
          /\ SumOf(out, Into(v)) - SumOf(out, OutOf(v)) = -B
      <4>1. /\ SumOf(in, Into(v)) \in Int /\ SumOf(in, OutOf(v)) \in Int
            /\ SumOf(in, Into(v)) - SumOf(in, OutOf(v))
               = IF v = v THEN B ELSE IF v = p THEN -B ELSE 0
        BY <1>4, <3>2, ShiftIs
      <4>2. /\ SumOf(out, Into(v)) \in Int /\ SumOf(out, OutOf(v)) \in Int
            /\ SumOf(out, Into(v)) - SumOf(out, OutOf(v))
               = IF v = w THEN B ELSE IF v = v THEN -B ELSE 0
        BY <1>4, <3>2, ShiftIs
      <4> HIDE DEF in, out
      <4> QED
        BY <3>2, <4>1, <4>2
    <3> HIDE DEF in, out
    <3>7. ASSUME NEW S \in SUBSET Edges, IsFiniteSet(S), \A a \in S : a[1] = v \/ a[2] = v
          PROVE  SumOf(flow', S) = SumOf(flow, S) + (SumOf(in, S) + SumOf(out, S))
      <4> DEFINE both == [a \in Edges |-> in[a] + out[a]]
      <4>1. Numbers(in, S) /\ Numbers(out, S) /\ Numbers(flow, S)
        BY <1>2, <3>5 DEF Numbers
      <4>2. /\ Numbers(both, S) /\ Numbers(flow', S)
            /\ \A a \in S : both[a] = in[a] + out[a]
            /\ \A a \in S : flow'[a] = flow[a] + both[a]
        BY <3>4, <3>7, <4>1 DEF Numbers
      <4> HIDE DEF both
      <4>3. SumOf(both, S) = SumOf(in, S) + SumOf(out, S)
        BY <3>7, <4>1, <4>2, SumOfPairs
      <4>4. SumOf(flow', S) = SumOf(flow, S) + SumOf(both, S)
        BY <3>7, <4>1, <4>2, SumOfPairs
      <4> QED
        BY <4>3, <4>4
    <3>8. /\ SumOf(flow', Into(v)) = SumOf(flow, Into(v)) + (SumOf(in, Into(v)) + SumOf(out, Into(v)))
          /\ SumOf(flow', OutOf(v)) = SumOf(flow, OutOf(v)) + (SumOf(in, OutOf(v)) + SumOf(out, OutOf(v)))
      BY <2>1, <3>7
    <3>9. SumOf(flow, Into(v)) \in Int
      <4>1. Numbers(flow, Into(v))
        BY <1>2, <2>1 DEF Numbers
      <4> QED
        BY <2>1, <4>1, SumIsInt
    <3> QED
      BY <1>4, <2>2, <3>6, <3>8, <3>9
  <2> QED
    BY <2>3, <2>4
<1>11. FlowIsFeasible'
  <2>1. \A arc \in Edges' : flow'[arc] \in 0..network'.edges[arc].capacity
    BY <1>1, <1>6, <1>9
  <2>2. \A v \in Nodes \ {Source, Sink} : SumOf(flow', Into(v)') = SumOf(flow', OutOf(v)')
    BY <1>6, <1>10
  <2> QED
    BY <1>6, <2>1, <2>2 DEF FlowIsFeasible, Through
<1>12. flow' \in [Edges -> Int]
  <2>1. \A arc \in Edges : flow'[arc] \in Int
    BY <1>7, <1>9
  <2> QED
    BY <1>1, <2>1
<1>13. /\ dist' = [v \in Nodes |-> IF v = Source THEN 0 ELSE Unreachable]
       /\ prev' = [v \in Nodes |-> Source]
  BY <1>1 DEF NoDistance, NoArc, Nodes, Sink
<1>14. SearchTyped'
  BY <1>1, <1>2, <1>6, <1>7, <1>13 DEF SearchTyped
<1>15. TreeInv'
  BY <1>6, <1>13 DEF TreeInv
<1> QED
  BY <1>6, <1>11, <1>12, <1>14, <1>15 DEF FlowInv

-----------------------------------------------------------------------------
(* What an augmentation is worth *)
\* The distance a node is relaxed from; the source's is the nothing it began with, whatever
\* the search writes there afterwards.
Base(v) == IF v = Source THEN 0 ELSE dist[v]
\* A node lies no nearer than the node before it and the arc between them say: it did when it
\* was reached, and since then only the node before it may have come nearer.
PriceInv ==
    /\ augmentations \in Nat
    /\ potential = <<>> => settled = {}
    /\ Source \notin settled => dist = NoDistance(network)
    /\ \A v \in Nodes \ {Source} : dist[v] # Unreachable =>
          Base(prev[v]) + Cost(<<prev[v], v>>) + potential[prev[v]] - potential[v] <= dist[v]

\* Settling a node prices what it reaches, and takes nothing from what was priced before.
LEMMA SettlePrices ==
    ASSUME FarAway, FlowInv, PriceInv, Settle
    PROVE  PriceInv'
<1> DEFINE u == Nearest
           nearer == {v \in Nodes : u # Sink /\ Open(<<u, v>>) /\ Reached(<<u, v>>) < dist[v]}
<1>1. /\ dist' = [v \in Nodes |-> IF v \in nearer THEN Reached(<<u, v>>) ELSE dist[v]]
      /\ prev' = [v \in Nodes |-> IF v \in nearer THEN u ELSE prev[v]]
      /\ settled' = settled \cup {u}
      /\ network' = network /\ flow' = flow /\ potential' = potential
      /\ augmentations' = augmentations
      /\ potential # <<>> /\ Queue # {}
  BY DEF Settle, Searching
<1>2. u \in Nodes /\ u \notin settled /\ dist[u] # Unreachable
  BY <1>1, NearestIs DEF Queue
<1>3. /\ IsNetwork(network) /\ flow \in [Edges -> Int] /\ Unreachable \in Int /\ Unreachable # 0
      /\ potential \in [Nodes -> Int] /\ dist \in [Nodes -> Int] /\ prev \in [Nodes -> Nodes]
      /\ Source \in Nodes
  BY <1>1, NodesAre DEF FlowInv, SearchTyped, FarAway
<1> HIDE DEF u
<1>4. ASSUME NEW v \in nearer
      PROVE  /\ Reached(<<u, v>>) \in Int /\ Reached(<<u, v>>) < dist[v]
             /\ Reached(<<u, v>>) = dist[u] + Cost(<<u, v>>) + potential[u] - potential[v]
             /\ Cost(<<u, v>>) \in Int
  <2>1. <<u, v>> \in Edges \/ <<v, u>> \in Edges
    BY DEF Open, Twin
  <2>2. Cost(<<u, v>>) \in Int
    BY <1>2, <1>3, <2>1, OpenIs
  <2>3. Reached(<<u, v>>) = dist[u] + Cost(<<u, v>>) + potential[u] - potential[v]
    BY DEF Reached
  <2> QED
    BY <1>2, <1>3, <2>2, <2>3
<1>5. nearer \in SUBSET Nodes
  OBVIOUS
<1> HIDE DEF nearer
<1>6. dist' \in [Nodes -> Int] /\ \A v \in Nodes : dist'[v] <= dist[v]
  BY <1>1, <1>3, <1>4
<1>7. /\ Edges' = Edges /\ Nodes' = Nodes /\ Source' = Source
      /\ \A arc : Cost(arc)' = Cost(arc)
  BY <1>1 DEF Edges, Nodes, Source, Sink, Cost, Twin
<1>8. Source \notin settled => u = Source /\ dist[Source] = 0
  <2> HAVE Source \notin settled
  <2>1. dist = NoDistance(network)
    BY DEF PriceInv
  <2>2. \A v \in Nodes : dist[v] = IF v = Source THEN 0 ELSE Unreachable
    BY <2>1 DEF NoDistance, Nodes, Sink
  <2> QED
    BY <1>2, <1>3, <2>2
<1> DEFINE After(v) == IF v = Source THEN 0 ELSE dist'[v]
<1>9. ASSUME NEW v \in Nodes PROVE After(v) <= Base(v) /\ After(v) \in Int /\ Base(v) \in Int
  BY <1>3, <1>6 DEF Base
<1>10. After(u) <= dist[u]
  <2>1. CASE u = Source
    BY <1>2, <1>8, <2>1
  <2>2. CASE u # Source
    BY <1>2, <1>6, <2>2
  <2> QED
    BY <2>1, <2>2
<1> HIDE DEF After
<1>11. ASSUME NEW v \in Nodes \ {Source}, dist'[v] # Unreachable
       PROVE  After(prev'[v]) + Cost(<<prev'[v], v>>) + potential[prev'[v]] - potential[v] <= dist'[v]
  <2>1. CASE v \in nearer
    <3>1. prev'[v] = u /\ dist'[v] = dist[u] + Cost(<<u, v>>) + potential[u] - potential[v]
      BY <1>1, <1>4, <2>1
    <3>2. /\ After(u) \in Int /\ dist[u] \in Int /\ Cost(<<u, v>>) \in Int
          /\ potential[u] \in Int /\ potential[v] \in Int
      BY <1>2, <1>3, <1>4, <1>9, <2>1
    <3>3. After(u) + Cost(<<u, v>>) + potential[u] - potential[v] <= dist'[v]
      BY <1>10, <3>1, <3>2
    <3> QED
      BY <3>1, <3>3
  <2>2. CASE v \notin nearer
    <3> DEFINE p == prev[v]
    <3>1. prev'[v] = p /\ dist'[v] = dist[v] /\ p \in Nodes
      BY <1>1, <1>3, <2>2
    <3>2. Base(p) + Cost(<<p, v>>) + potential[p] - potential[v] <= dist[v]
      BY <1>11, <3>1 DEF PriceInv
    <3>3. <<p, v>> \in Edges \/ <<v, p>> \in Edges
      BY <1>11, <3>1 DEF FlowInv, TreeInv, Open, Twin
    <3> HIDE DEF p
    <3>4. Cost(<<p, v>>) \in Int
      BY <1>3, <3>1, <3>3, OpenIs
    <3>5. /\ After(p) \in Int /\ Base(p) \in Int /\ After(p) <= Base(p)
          /\ potential[p] \in Int /\ potential[v] \in Int /\ dist[v] \in Int
      BY <1>3, <1>9, <3>1
    <3>6. After(p) + Cost(<<p, v>>) + potential[p] - potential[v] <= dist[v]
      BY <3>2, <3>4, <3>5
    <3> QED
      BY <3>1, <3>6
  <2> QED
    BY <2>1, <2>2
<1>12. /\ augmentations' \in Nat
       /\ potential' = <<>> => settled' = {}
       /\ Source \in settled'
  BY <1>1, <1>8 DEF PriceInv
<1>13. ASSUME NEW v \in Nodes \ {Source}, dist'[v] # Unreachable
       PROVE  /\ After(prev'[v]) = Base(prev[v])'
              /\ Cost(<<prev'[v], v>>) = Cost(<<prev[v], v>>)'
  BY <1>1 DEF After, Base, Source, Cost, Edges, Twin
<1> QED
  BY <1>1, <1>7, <1>11, <1>12, <1>13 DEF PriceInv

\* What an arc costs comes out of the price of its node, and the prices along the walk cancel
\* out: the walk costs no more than the search says the sink does.
LEMMA WalkCosts ==
    ASSUME FlowInv, PriceInv, TrailFacts, potential # <<>>
    PROVE  LET costs == [v \in Trail |-> Cost(<<prev[v], v>>)]
           IN /\ IsFiniteSet(Trail) /\ Numbers(costs, Trail)
              /\ SumOf(costs, Trail) \in Int /\ PathCost \in Int
              /\ SumOf(costs, Trail) <= PathCost
<1> DEFINE costs == [v \in Trail |-> Cost(<<prev[v], v>>)]
           height == [v \in Nodes |-> Base(v) + potential[v]]
           before == [v \in Trail |-> height[prev[v]]]
           below == [v \in Trail |-> costs[v] + before[v]]
           Rest == Trail \ {Sink}
<1>1. /\ IsNetwork(network) /\ flow \in [Edges -> Int]
      /\ potential \in [Nodes -> Int] /\ dist \in [Nodes -> Int] /\ prev \in [Nodes -> Nodes]
  BY DEF FlowInv, SearchTyped
<1>2. /\ IsFiniteSet(Nodes) /\ Source \in Nodes /\ Sink \in Nodes /\ Sink # Source
      /\ Sink \in Trail /\ Source \notin Trail /\ Trail \in SUBSET Nodes
  BY <1>1, NodesAre DEF TrailFacts, Source
<1>3. IsFiniteSet(Trail) /\ IsFiniteSet(Rest)
  BY <1>2, FS_Subset
<1>4. \A v \in Nodes : height[v] \in Int
  BY <1>1 DEF Base
<1>5. ASSUME NEW v \in Trail
      PROVE  /\ costs[v] \in Int /\ before[v] \in Int /\ below[v] = costs[v] + before[v]
             /\ below[v] <= height[v]
  <2> DEFINE p == prev[v]
  <2>1. /\ v \in Nodes \ {Source} /\ p \in Nodes /\ dist[v] # Unreachable
        /\ <<p, v>> \in Edges \/ <<v, p>> \in Edges
    BY <1>1 DEF TrailFacts, Open, Twin
  <2>2. Base(p) + Cost(<<p, v>>) + potential[p] - potential[v] <= dist[v]
    BY <2>1 DEF PriceInv
  <2>3. costs[v] = Cost(<<p, v>>) /\ before[v] = Base(p) + potential[p] /\ height[v] = dist[v] + potential[v]
    BY <2>1 DEF Base
  <2> HIDE DEF p, costs, before, height
  <2>4. Cost(<<p, v>>) \in Int /\ Base(p) \in Int
    BY <1>1, <2>1, OpenIs DEF Base
  <2>5. dist[v] \in Int /\ potential[v] \in Int /\ potential[p] \in Int
    BY <1>1, <2>1
  <2> DEFINE c == Cost(<<p, v>>)
             b == Base(p)
  <2>6. /\ b + c + potential[p] - potential[v] <= dist[v]
        /\ costs[v] = c /\ before[v] = b + potential[p] /\ height[v] = dist[v] + potential[v]
        /\ c \in Int /\ b \in Int
    BY <2>2, <2>3, <2>4
  <2>7. below[v] = costs[v] + before[v]
    OBVIOUS
  <2> HIDE DEF c, b, below
  <2> QED
    BY <2>5, <2>6, <2>7
<1>6. /\ Numbers(costs, Trail) /\ Numbers(before, Trail) /\ Numbers(below, Trail)
      /\ Numbers(height, Trail) /\ Numbers(height, Rest) /\ Numbers(height, Rest \cup {Source})
  <2> HIDE DEF costs, before, below, height
  <2> QED
    BY <1>2, <1>4, <1>5 DEF Numbers
<1>7. {prev[v] : v \in Trail} = Rest \cup {Source}
  <2>1. \A v \in Trail : prev[v] \in Rest \cup {Source}
    BY DEF TrailFacts
  <2>2. \A w \in Rest \cup {Source} : \E v \in Trail : prev[v] = w
    BY DEF TrailFacts
  <2> HIDE DEF Rest
  <2> QED
    BY <2>1, <2>2
<1>8. SumOf(before, Trail) = SumOf(height, {prev[v] : v \in Trail})
  <2>1. \A v \in Trail : before[v] = height[prev[v]]
    OBVIOUS
  <2>2. \A v, w \in Trail : prev[v] = prev[w] => v = w
    BY DEF TrailFacts
  <2> HIDE DEF before, height
  <2> QED
    BY <1>3, <1>6, <2>1, <2>2, SumRenamed
<1>9. height[Sink] - height[Source] = PathCost
  BY <1>1, <1>2 DEF PathCost, Base
<1> HIDE DEF costs, before, below, height
<1>10. /\ SumOf(below, Trail) = SumOf(costs, Trail) + SumOf(before, Trail)
       /\ SumOf(below, Trail) <= SumOf(height, Trail)
       /\ SumOf(costs, Trail) \in Int
  BY <1>3, <1>5, <1>6, SumOfPairs, SumRises, SumIsInt
<1>11. SumOf(height, Trail) = height[Sink] + SumOf(height, Rest)
  BY <1>2, <1>3, <1>6, SumSplit
<1>12. SumOf(height, Rest \cup {Source}) = height[Source] + SumOf(height, Rest) /\ SumOf(height, Rest) \in Int
  BY <1>2, <1>3, <1>6, SumWithOne
<1>13. height[Sink] \in Int /\ height[Source] \in Int
  BY <1>2, <1>4
<1>14. SumOf(costs, Trail) <= height[Sink] - height[Source]
  <2> DEFINE r == SumOf(height, Rest)
             c == SumOf(costs, Trail)
             b == SumOf(before, Trail)
             hs == height[Sink]
             h0 == height[Source]
             e == SumOf(below, Trail)
             t == SumOf(height, Trail)
  <2>1. e = c + b /\ e <= t /\ c \in Int /\ t = hs + r /\ b = h0 + r /\ r \in Int /\ hs \in Int /\ h0 \in Int
    BY <1>7, <1>8, <1>10, <1>11, <1>12, <1>13
  <2> HIDE DEF r, c, b, hs, h0, e, t
  <2>2. c <= hs - h0
    BY <2>1
  <2> QED
    BY <2>2 DEF c, hs, h0
<1> QED
  BY <1>3, <1>6, <1>9, <1>10, <1>13, <1>14 DEF costs

\* What a number of summands give back, their sum gives back.
LEMMA SumNegated ==
    ASSUME NEW k \in Int, NEW S, IsFiniteSet(S), NEW w, NEW r, Numbers(w, S),
           \A x \in S : r[x] = -(k * w[x])
    PROVE  k * SumOf(w, S) + SumOf(r, S) = 0
<1> DEFINE none == 0
<1>1. ASSUME NEW x \in S PROVE r[x] \in Int /\ k * w[x] + r[x] = none * w[x]
  <2> DEFINE c == k * w[x]
  <2>1. w[x] \in Int
    BY DEF Numbers
  <2>2. c \in Int /\ r[x] = -c /\ none * w[x] = 0
    BY <2>1
  <2> HIDE DEF c, none
  <2>3. r[x] \in Int /\ c + r[x] = none * w[x]
    BY <2>2
  <2> QED
    BY <2>3 DEF c
<1>2. Numbers(r, S) /\ none \in Int
  BY <1>1 DEF Numbers
<1>3. SumOf(w, S) \in Int
  BY SumIsInt
<1> DEFINE h == w
<1>4. \A x \in S : k * w[x] + r[x] = none * h[x]
  BY <1>1
<1>5. Numbers(h, S)
  OBVIOUS
<1> HIDE DEF none, h
<1>6. k * SumOf(w, S) + SumOf(r, S) = none * SumOf(h, S)
  BY <1>2, <1>4, <1>5, SumOfQuotients
<1>7. none * SumOf(h, S) = 0
  BY <1>3 DEF none, h
<1> QED
  BY <1>6, <1>7

\* A push along the walk earns the bottleneck, once for every unit the walk's arcs give back.
LEMMA PushEarns ==
    ASSUME FlowInv, TrailFacts, NEW B \in Nat, NEW f,
           f = [arc \in Edges |-> IF arc \in Path THEN flow[arc] + B
                                  ELSE IF Twin(arc) \in Path THEN flow[arc] - B
                                  ELSE flow[arc]],
           IsFiniteSet(Trail), NEW costs, costs = [v \in Trail |-> Cost(<<prev[v], v>>)],
           Numbers(costs, Trail)
    PROVE  /\ Worth(f) = Worth(flow) - B * SumOf(costs, Trail)
           /\ Worth(flow) \in Int
<1> DEFINE was == [arc \in Edges |-> -(flow[arc] * Cost(arc))]
           is == [arc \in Edges |-> -(f[arc] * Cost(arc))]
           more == [arc \in Edges |-> IF arc \in Path THEN -(B * Cost(arc))
                                      ELSE IF Twin(arc) \in Path THEN B * Cost(arc) ELSE 0]
           edge == [v \in Trail |-> IF <<prev[v], v>> \in Edges THEN <<prev[v], v>> ELSE <<v, prev[v]>>]
           On == {edge[v] : v \in Trail}
           gain == [v \in Trail |-> more[edge[v]]]
<1>1. /\ IsNetwork(network) /\ flow \in [Edges -> Int] /\ prev \in [Nodes -> Nodes]
      /\ Trail \in SUBSET Nodes
      /\ IsFiniteSet(Edges)
      /\ \A arc \in Edges : /\ arc = <<arc[1], arc[2]>> /\ arc[1] \in Nodes /\ arc[2] \in Nodes
                            /\ arc[1] < arc[2] /\ arc[1] \in Nat /\ arc[2] \in Nat
                            /\ Twin(arc) = <<arc[2], arc[1]>>
  BY NodesAre DEF FlowInv, SearchTyped, TrailFacts, Twin
<1>2. Path = {<<prev[v], v>> : v \in Trail}
  BY DEF Path, Trail
<1>3. \A u, v : <<u, v>> \in Edges => <<v, u>> \notin Edges
  BY <1>1
<1>4. \A arc \in Edges : Cost(arc) \in Int /\ flow[arc] \in Int
  BY <1>1, NodesAre DEF Cost
<1>5. ASSUME NEW arc \in Edges
      PROVE  /\ was[arc] \in Int /\ is[arc] \in Int /\ more[arc] \in Int
             /\ is[arc] = was[arc] + more[arc]
  <2> DEFINE c == Cost(arc)
             x == flow[arc]
  <2>1. c \in Int /\ x \in Int
    BY <1>4
  <2>2. /\ was[arc] = -(x * c) /\ is[arc] = -(f[arc] * c)
        /\ more[arc] = IF arc \in Path THEN -(B * c) ELSE IF Twin(arc) \in Path THEN B * c ELSE 0
        /\ f[arc] = IF arc \in Path THEN x + B ELSE IF Twin(arc) \in Path THEN x - B ELSE x
    OBVIOUS
  <2> HIDE DEF c, x, was, is, more
  <2>3. /\ (x + B) * c = x * c + B * c /\ (x - B) * c = x * c - B * c
        /\ x * c \in Int /\ B * c \in Int
    BY <2>1
  <2> QED
    BY <2>2, <2>3
<1>6. Numbers(was, Edges) /\ Numbers(is, Edges) /\ Numbers(more, Edges)
  <2> HIDE DEF was, is, more
  <2> QED
    BY <1>5 DEF Numbers
<1>7. SumOf(is, Edges) = SumOf(was, Edges) + SumOf(more, Edges) /\ SumOf(was, Edges) \in Int
  <2> HIDE DEF was, is, more
  <2> QED
    BY <1>1, <1>5, <1>6, SumOfPairs, SumIsInt
\* The edges of the walk, each run along or against.
<1>8. ASSUME NEW v \in Trail
      PROVE  /\ edge[v] \in Edges
             /\ more[edge[v]] = -(B * costs[v])
  <2> DEFINE p == prev[v]
  <2>1. p \in Nodes /\ (<<p, v>> \in Edges \/ <<v, p>> \in Edges) /\ <<p, v>> \in Path
    BY <1>1, <1>2 DEF TrailFacts, Open, Twin
  <2>2. costs[v] = Cost(<<p, v>>)
    OBVIOUS
  <2>3. CASE <<p, v>> \in Edges
    <3>1. edge[v] = <<p, v>>
      BY <2>3
    <3> QED
      BY <2>1, <2>2, <2>3, <3>1
  <2>4. CASE <<p, v>> \notin Edges
    <3>1. edge[v] = <<v, p>> /\ <<v, p>> \in Edges
      BY <2>1, <2>4
    <3>2. <<v, p>> \notin Path
      <4>1. SUFFICES ASSUME NEW w \in Trail, <<v, p>> = <<prev[w], w>> PROVE FALSE
        BY <1>2
      <4> QED
        BY <4>1 DEF TrailFacts
    <3>3. Twin(<<v, p>>) = <<p, v>> /\ Twin(<<p, v>>) = <<v, p>>
      BY DEF Twin
    <3>4. Cost(<<p, v>>) = -Cost(<<v, p>>) /\ Cost(<<v, p>>) \in Int
      BY <1>4, <2>4, <3>1, <3>3 DEF Cost
    <3>5. more[edge[v]] = B * Cost(<<v, p>>)
      BY <2>1, <3>1, <3>2, <3>3
    <3> QED
      BY <2>2, <3>1, <3>4, <3>5
  <2> QED
    BY <2>3, <2>4
<1>9. ASSUME NEW v \in Trail, NEW w \in Trail, edge[v] = edge[w] PROVE v = w
  BY <1>9 DEF TrailFacts
<1>10. On \in SUBSET Edges /\ \A arc \in Edges \ On : more[arc] = 0
  <2>1. On \in SUBSET Edges
    <3>1. \A v \in Trail : edge[v] \in Edges
      BY <1>8
    <3> HIDE DEF edge
    <3> QED
      BY <3>1
  <2>2. ASSUME NEW arc \in Edges, arc \in Path \/ Twin(arc) \in Path PROVE arc \in On
    <3>1. CASE arc \in Path
      <4>1. PICK v \in Trail : arc = <<prev[v], v>>
        BY <1>2, <3>1
      <4>2. edge[v] = arc
        BY <4>1
      <4> QED
        BY <4>2
    <3>2. CASE Twin(arc) \in Path
      <4>1. PICK v \in Trail : <<arc[2], arc[1]>> = <<prev[v], v>>
        BY <1>1, <1>2, <3>2
      <4>2. arc = <<v, prev[v]>> /\ <<prev[v], v>> \notin Edges
        BY <1>1, <1>3, <4>1
      <4>3. edge[v] = arc
        BY <4>2
      <4> QED
        BY <4>3
    <3> QED
      BY <2>2, <3>1, <3>2
  <2> QED
    BY <2>1, <2>2
<1>11. SumOf(more, Edges) = SumOf(more, On)
  <2> HIDE DEF more, On
  <2> QED
    BY <1>1, <1>6, <1>10, SumOfOthers
<1>12. SumOf(gain, Trail) = SumOf(more, On)
  <2>1. \A v \in Trail : gain[v] = more[edge[v]]
    OBVIOUS
  <2>2. Numbers(gain, Trail)
    BY <1>5, <1>8, <2>1 DEF Numbers
  <2> HIDE DEF gain, more, edge
  <2> QED
    BY <1>9, <2>1, <2>2, SumRenamed
<1>13. B * SumOf(costs, Trail) + SumOf(gain, Trail) = 0
  <2>1. \A v \in Trail : gain[v] = -(B * costs[v])
    BY <1>8
  <2> HIDE DEF gain, edge, more
  <2>2. B \in Int /\ IsFiniteSet(Trail) /\ Numbers(costs, Trail)
    OBVIOUS
  <2> QED
    BY <2>1, <2>2, SumNegated
<1>14. Worth(f) = SumOf(is, Edges) /\ Worth(flow) = SumOf(was, Edges)
  <2>1. DOMAIN f = Edges /\ DOMAIN flow = Edges
    BY <1>1
  <2> QED
    BY <2>1 DEF Worth
<1>15. SumOf(costs, Trail) \in Int
  BY SumIsInt
<1> HIDE DEF was, is, more, gain, On
<1>16. B * SumOf(costs, Trail) \in Int /\ SumOf(gain, Trail) \in Int
  <2>1. B * SumOf(costs, Trail) \in Int
    BY <1>15
  <2>2. SumOf(more, Edges) \in Int
    BY <1>1, <1>6, SumIsInt
  <2> QED
    BY <1>11, <1>12, <2>1, <2>2
<1> QED
  BY <1>7, <1>11, <1>12, <1>13, <1>14, <1>16

\* The walk is pushed along only when what it costs is below nothing.
LEMMA AugmentEarns ==
    ASSUME FlowInv, PriceInv, NEW limit, Augment(limit)
    PROVE  Worth(flow') > Worth(flow)
<1> DEFINE B == Bottleneck
           costs == [v \in Trail |-> Cost(<<prev[v], v>>)]
           C == SumOf(costs, Trail)
<1>1. /\ flow' = [arc \in Edges |-> IF arc \in Path THEN flow[arc] + B
                                    ELSE IF Twin(arc) \in Path THEN flow[arc] - B
                                    ELSE flow[arc]]
      /\ potential # <<>> /\ dist[Sink] # Unreachable /\ WalkEnds /\ PathCost < 0
  BY DEF Augment, Pays
<1>2. TrailFacts
  BY <1>1, TrailIs
<1>3. B \in Nat \ {0}
  BY <1>2, BottleneckIs
<1>4. /\ IsFiniteSet(Trail) /\ Numbers(costs, Trail)
      /\ C \in Int /\ PathCost \in Int /\ C <= PathCost
  BY <1>1, <1>2, WalkCosts
<1> HIDE DEF B
<1>5. costs = [v \in Trail |-> Cost(<<prev[v], v>>)]
  OBVIOUS
<1> HIDE DEF costs
<1>6. Worth(flow') = Worth(flow) - B * C /\ Worth(flow) \in Int
  BY <1>1, <1>2, <1>3, <1>4, <1>5, PushEarns
<1> HIDE DEF C
<1>7. C <= -1
  BY <1>1, <1>4
<1>8. C * B <= (-1) * B
  BY <1>3, <1>4, <1>7, Scaled
<1>9. B * C <= -1 /\ B * C \in Int
  BY <1>3, <1>4, <1>8
<1> QED
  BY <1>6, <1>9

\* A search that has settled nothing has priced nothing, a path that was pushed along
\* included.
LEMMA NothingPriced ==
    ASSUME (dist = NoDistance(network))', augmentations' \in Nat, settled' = {}
    PROVE  PriceInv'
<1>1. \A v \in (Nodes \ {Source})' : dist'[v] = Unreachable
  BY DEF NoDistance, Nodes, Sink, Source
<1> QED
  BY <1>1 DEF PriceInv

\* The steps of a solve keep the prices,
LEMMA SolvePrices ==
    ASSUME FarAway, FlowInv, PriceInv, NEW limit, StartFlow \/ Settle \/ Augment(limit)
    PROVE  PriceInv'
<1>1. CASE StartFlow
  <2>1. settled = {} /\ dist = NoDistance(network) /\ augmentations \in Nat
    BY <1>1 DEF StartFlow, PriceInv
  <2>2. (dist = NoDistance(network))' /\ augmentations' \in Nat /\ settled' = {}
    BY <1>1, <2>1 DEF StartFlow, NoDistance, Source
  <2> QED
    BY <2>2, NothingPriced
<1>2. CASE Settle
  BY <1>2, SettlePrices
<1>3. CASE Augment(limit)
  <2>1. (dist = NoDistance(network))' /\ augmentations' \in Nat /\ settled' = {}
    BY <1>3 DEF Augment, PriceInv, NoDistance, Source
  <2> QED
    BY <2>1, NothingPriced
<1> QED
  BY <1>1, <1>2, <1>3

\*   so does a network that is built,
LEMMA BuildPrices ==
    ASSUME NEW net, BuildNetwork(net)
    PROVE  PriceInv'
<1>1. (dist = NoDistance(network))' /\ augmentations' \in Nat /\ settled' = {}
  BY DEF BuildNetwork, NoDistance, Source
<1> QED
  BY <1>1, NothingPriced

\*   and what leaves the search alone.
LEMMA PricesStay ==
    ASSUME PriceInv, UNCHANGED flowVars
    PROVE  PriceInv'
<1>1. /\ network' = network /\ flow' = flow /\ potential' = potential /\ dist' = dist
      /\ settled' = settled /\ prev' = prev /\ augmentations' = augmentations
  BY DEF flowVars
<1>2. Nodes' = Nodes /\ Source' = Source /\ (\A arc : Cost(arc)' = Cost(arc))
  BY <1>1 DEF Nodes, Sink, Source, Cost, Edges, Twin
<1>3. (\A v : Base(v)' = Base(v)) /\ NoDistance(network)' = NoDistance(network)
  BY <1>1 DEF Base, Source, NoDistance
<1> QED
  BY <1>1, <1>2, <1>3 DEF PriceInv

\* A search that begins keeps the flow.
LEMMA StartKeeps ==
    ASSUME FarAway, FlowInv, StartFlow
    PROVE  FlowInv'
<1>1. /\ potential' \in [Nodes -> Int]
      /\ network' = network /\ flow' = flow /\ dist' = dist /\ prev' = prev
  BY PotentialsTyped DEF StartFlow, FlowInv
<1>2. /\ Edges' = Edges /\ Nodes' = Nodes /\ Source' = Source /\ Sink' = Sink
      /\ IsNetwork(network)' /\ FlowIsFeasible'
  BY <1>1 DEF FlowInv, Edges, Nodes, Source, Sink, IsNetwork, FlowIsFeasible, Through, Into, OutOf
<1>3. TreeInv'
  BY <1>1 DEF FlowInv, TreeInv, Edges, Nodes, Source, Sink, Open, Room, Twin
<1> QED
  BY <1>1, <1>2, <1>3 DEF FlowInv, SearchTyped

\* A network that carries nothing.
LEMMA BuildStarts ==
    ASSUME FarAway, NEW net, IsNetwork(net), BuildNetwork(net)
    PROVE  FlowInv'
<1>1. /\ network' = net /\ potential' = <<>>
      /\ flow' = [arc \in Edges' |-> 0]
      /\ dist' = [v \in Nodes' |-> IF v = Source' THEN 0 ELSE Unreachable]
      /\ prev' = [v \in Nodes' |-> Source']
  BY DEF BuildNetwork, NoDistance, NoArc, Nodes, Sink, Source, Edges
<1>2. IsNetwork(network')
  BY <1>1
<1>3. /\ IsFiniteSet(Edges') /\ Source' \in Nodes' /\ Unreachable \in Nat \ {0}
      /\ \A arc \in Edges' : network'.edges[arc].capacity \in Nat
      /\ \A v : Into(v)' \in SUBSET Edges' /\ OutOf(v)' \in SUBSET Edges'
  BY <1>2 DEF IsNetwork, Edges, Nodes, Source, Sink, FarAway, Into, OutOf
<1>4. ASSUME NEW S \in SUBSET Edges' PROVE SumOf(flow', S) = 0
  <2>1. IsFiniteSet(S) /\ {} \in SUBSET S /\ Numbers(flow', S) /\ \A x \in S \ {} : flow'[x] = 0
    BY <1>1, <1>3, FS_Subset DEF Numbers
  <2>2. SumOf(flow', S) = SumOf(flow', {})
    BY <2>1, SumOfOthers
  <2> QED
    BY <2>2, SumOfNone
<1>5. FlowIsFeasible'
  <2>1. \A v : SumOf(flow', Into(v)') = SumOf(flow', OutOf(v)')
    BY <1>3, <1>4
  <2>2. \A arc \in Edges' : flow'[arc] \in 0..network'.edges[arc].capacity
    BY <1>1, <1>3
  <2> QED
    BY <2>1, <2>2 DEF FlowIsFeasible, Through
<1>6. SearchTyped'
  BY <1>1, <1>3 DEF SearchTyped
<1>7. TreeInv'
  BY <1>1 DEF TreeInv
<1>8. flow' \in [Edges' -> Int]
  BY <1>1
<1> QED
  BY <1>2, <1>5, <1>6, <1>7, <1>8 DEF FlowInv

-----------------------------------------------------------------------------
(***************************************************************************)
(* The clearing.  A feasible flow keeps supply, budgets and issuer limits, *)
(* for each of them is an arc that cuts the pairs it limits off the rest   *)
(* of the network (Gathered).  The repairs run until the debtor and grade  *)
(* limits and the minimum lots are kept as well.  And cash is turned into  *)
(* notional by a division that rounds down, whose cost is below the cash   *)
(* again, so that what cash kept notional keeps.                           *)
(***************************************************************************)

-----------------------------------------------------------------------------
(* Money *)
LEMMA DivRoundIs ==
    ASSUME NEW a \in Nat, NEW b \in Nat \ {0}
    PROVE  DivRound(a, b) \in Nat /\ 2 * (b * DivRound(a, b)) <= 2 * a + b
<1> DEFINE q == (2 * a + b) \div (2 * b)
           r == (2 * a + b) % (2 * b)
<1>1. 2 * a + b \in Nat /\ 2 * b \in Nat \ {0}
  OBVIOUS
<1>2. q \in Nat /\ r \in 0..(2 * b - 1) /\ (2 * b) * q + r = 2 * a + b
  BY <1>1, DivisionIs
<1>3. q = DivRound(a, b)
  BY DEF DivRound
<1> HIDE DEF q, r
<1>4. (2 * b) * q = 2 * (b * q) /\ b * q \in Int
  BY <1>2
<1> QED
  BY <1>2, <1>3, <1>4

\* A lot is sold below its face.
LEMMA PriceIs ==
    ASSUME NEW lot, MayBeSold(lot), Scale \in Nat \ {0}
    PROVE  UnitPrice(lot) \in Nat \ {0} /\ UnitPrice(lot) <= Scale
<1> DEFINE s == lot.supply
           a == lot.reserve
           p == UnitPrice(lot)
<1>1. s \in Nat \ {0} /\ a \in Nat /\ a < s /\ p > 0
  BY DEF MayBeSold
<1>2. a * Scale \in Nat
  BY <1>1
<1>3. p \in Nat /\ 2 * (s * p) <= 2 * (a * Scale) + s
  BY <1>1, <1>2, DivRoundIs DEF UnitPrice, RateAgainst
<1> HIDE DEF s, a, p
<1>4. ASSUME Scale + 1 <= p PROVE FALSE
  <2>1. s * (Scale + 1) <= s * p /\ a * Scale <= s * Scale
    BY <1>1, <1>3, <1>4, Scaled
  <2>2. s * (Scale + 1) = s * Scale + s /\ s * Scale \in Int /\ s * p \in Int
    BY <1>1, <1>3
  <2> QED
    BY <1>1, <1>2, <1>3, <2>1, <2>2
<1> QED
  BY <1>1, <1>3, <1>4 DEF p

\* What a face costs is an amount.
LEMMA CostIs ==
    ASSUME NEW lot, MayBeSold(lot), Scale \in Nat \ {0}, NEW m \in Nat, NEW n \in Nat, m <= n
    PROVE  CostOf(lot, m) \in Nat /\ CostOf(lot, n) \in Nat /\ CostOf(lot, m) <= CostOf(lot, n)
<1> DEFINE p == UnitPrice(lot)
<1>1. p \in Nat
  BY PriceIs
<1>2. CostOf(lot, m) = HalfEven(m * p, Scale) /\ CostOf(lot, n) = HalfEven(n * p, Scale)
  BY DEF CostOf, Mul
<1> HIDE DEF p
<1>3. m * p \in Nat /\ n * p \in Nat /\ m * p <= n * p
  BY <1>1, Scaled
<1>4. (m * p) * Scale <= (n * p) * Scale
  BY <1>3, Scaled
<1> QED
  BY <1>2, <1>3, <1>4, HalfEvenRises

\* Nothing costs nothing.
LEMMA NothingCosts ==
    ASSUME NEW lot, MayBeSold(lot), Scale \in Nat \ {0}
    PROVE  CostOf(lot, 0) = 0
<1> DEFINE p == UnitPrice(lot)
<1>1. p \in Nat
  BY PriceIs
<1> HIDE DEF p
<1>2. 0 * p = 0 /\ 0 <= 0 * Scale
  BY <1>1
<1>3. HalfEven(0, Scale) \in Nat /\ HalfEven(0, Scale) <= 0
  BY <1>2, HalfEvenAtMost
<1> QED
  BY <1>2, <1>3 DEF CostOf, Mul, p

\* What cash buys costs no more than the cash.
LEMMA WhatCashBuys ==
    ASSUME NEW lot, MayBeSold(lot), Scale \in Nat \ {0}, NEW c \in Nat
    PROVE  /\ DivFloor(c, UnitPrice(lot)) \in Nat
           /\ CostOf(lot, DivFloor(c, UnitPrice(lot))) <= c
<1> DEFINE p == UnitPrice(lot)
           m == DivRound(c * Scale * Scale, p)
           n == m \div Scale
<1>1. p \in Nat \ {0} /\ p <= Scale
  BY PriceIs
<1>2. DivFloor(c, p) = n
  BY DEF DivFloor
<1>3. c * Scale * Scale \in Nat
  OBVIOUS
<1>4. m \in Nat /\ 2 * (p * m) <= 2 * (c * Scale * Scale) + p
  BY <1>1, <1>3, DivRoundIs
<1> HIDE DEF m
<1>5. n \in Nat /\ (m % Scale) \in 0..(Scale - 1) /\ Scale * n + (m % Scale) = m
  BY <1>4, DivisionIs
<1> HIDE DEF n
<1>6. Scale * n \in Int /\ Scale * n <= m
  BY <1>5
<1>7. p * (Scale * n) <= p * m
  BY <1>1, <1>4, <1>6, Scaled
<1>8. ASSUME c * Scale + 1 <= n * p PROVE FALSE
  <2>1. c * Scale + 1 \in Int /\ n * p \in Int
    BY <1>1, <1>5
  <2>2. (c * Scale + 1) * Scale <= (n * p) * Scale
    BY <1>8, <2>1, Scaled
  <2>3. (n * p) * Scale = p * (Scale * n)
    BY <1>1, <1>5
  <2>4. (c * Scale + 1) * Scale = c * Scale * Scale + Scale
    OBVIOUS
  <2>5. p * m \in Int /\ p * (Scale * n) \in Int
    BY <1>1, <1>4, <1>6
  <2> QED
    BY <1>1, <1>3, <1>4, <1>7, <2>2, <2>3, <2>4, <2>5
<1>9. n * p \in Nat /\ c * Scale \in Nat
  BY <1>1, <1>5
<1>10. n * p <= c * Scale
  BY <1>8, <1>9
<1>11. HalfEven(n * p, Scale) <= c
  BY <1>9, <1>10, HalfEvenAtMost
<1> QED
  BY <1>2, <1>5, <1>11 DEF CostOf, Mul

\* A share of a budget is an amount.
LEMMA LimitIs ==
    ASSUME NEW bidder, NEW share, bidder.budget \in Nat, IsShare(share), Scale \in Nat \ {0}
    PROVE  ShareLimit(bidder, share) \in Nat
<1>1. share \in Nat
  BY DEF IsShare
<1>2. bidder.budget * share \in Nat
  BY <1>1
<1> DEFINE a == bidder.budget * share
           b == Scale
<1>3. HalfEven(a, b) \in Nat
  <2>1. a * b <= a * b /\ a \in Nat /\ b \in Nat \ {0}
    BY <1>2
  <2> HIDE DEF a, b
  <2> QED
    BY <2>1, HalfEvenRises
<1> QED
  BY <1>3 DEF ShareLimit, Mul

-----------------------------------------------------------------------------
(* The pairs *)
LEMMA BatchIs ==
    ASSUME asked \in Batches
    PROVE  /\ Scale \in Nat \ {0} /\ Points \in Nat \ {0} /\ Fine \in Nat \ {0}
           /\ Len(asked.lots) \in Nat /\ DOMAIN asked.lots = 1..Len(asked.lots)
           /\ Len(asked.bids) \in Nat /\ DOMAIN asked.bids = 1..Len(asked.bids)
           /\ \A i \in DOMAIN asked.lots : MayBeSold(asked.lots[i])
           /\ \A j \in DOMAIN asked.bids : MayBid(asked.bids[j])
           /\ asked.params.funding \in Int /\ asked.params.riskPenalty \in Int
BY ClearingAssumption DEF MayBeBatched, IsList

\* Grades are numbers.
LEMMA GradesAre == \A g \in Grades : g \in Int
BY DEF Grades

\* What a bid may be asked to keep are amounts.
LEMMA LimitsAre ==
    ASSUME NEW bidder, MayBid(bidder), Scale \in Nat \ {0}
    PROVE  /\ IssuerLimit(bidder) \in Nat /\ DebtorLimit(bidder) \in Nat
           /\ \A g \in Grades : GradeLimit(bidder, g) \in Nat
BY LimitIs DEF MayBid, IssuerLimit, DebtorLimit, GradeLimit

\* What a lot yields beyond the bid's minimum is an integer.
LEMMA YieldIs ==
    ASSUME NEW bidder, NEW lot, MayBid(bidder), MayBeSold(lot),
           Scale \in Nat \ {0}, Points \in Nat \ {0}, Fine \in Nat \ {0}
    PROVE  Surplus(bidder, lot) \in Int
<1>1. /\ lot.supply - lot.reserve \in Nat /\ lot.reserve \in Nat \ {0} /\ lot.tenor \in Nat \ {0}
      /\ bidder.minYield \in Nat
  BY DEF MayBeSold, MayBid
<1> DEFINE a == (lot.supply - lot.reserve) * Scale
           b == 365 * Scale
<1>2. a \in Nat /\ b \in Nat
  BY <1>1
<1> HIDE DEF a, b
<1>3. DivRound(a, lot.reserve) \in Nat /\ DivRound(b, lot.tenor) \in Nat
  BY <1>1, <1>2, DivRoundIs
<1> DEFINE x == DivRound(a, lot.reserve)
           y == DivRound(b, lot.tenor)
           annual == x * y * Points
           one == Scale * Scale
           points == HalfEven(annual, one)
<1>4. ImpliedYield(lot) = points
  BY DEF ImpliedYield, RateAgainst, a, b
<1> HIDE DEF x, y
<1>5. annual \in Nat /\ one \in Nat \ {0}
  <2>1. x \in Nat /\ y \in Nat
    BY <1>3 DEF x, y
  <2>2. x * y \in Nat
    BY <2>1
  <2> DEFINE z == x * y
  <2> HIDE DEF z
  <2>3. z * Points \in Nat
    BY <2>2 DEF z
  <2> QED
    BY <2>3 DEF z
<1> HIDE DEF annual, one
<1>6. points \in Nat
  BY <1>5, HalfEvenIs
<1> HIDE DEF points
<1>7. points * Fine \in Int
  BY <1>6
<1> QED
  BY <1>1, <1>4, <1>7 DEF Surplus

\* What a pair that may trade is.
PairFacts(e) ==
    /\ e.lot \in DOMAIN asked.lots /\ e.bid \in DOMAIN asked.bids
    /\ Feasible(asked.bids[e.bid], asked.lots[e.lot])
    /\ e.value \in Int
    /\ e.maxCash \in Nat /\ e.maxCash <= asked.bids[e.bid].budget
    /\ e.minimumCash = IF asked.bids[e.bid].minimumLot > 0
                       THEN CostOf(asked.lots[e.lot], asked.bids[e.bid].minimumLot) ELSE 0
    /\ e.minimumCash \in Nat

LEMMA PairIs ==
    ASSUME asked \in Batches, NEW e \in MayTrade
    PROVE  PairFacts(e) /\ e = Edge(e.lot, e.bid)
<1>1. PICK i \in DOMAIN asked.lots, j \in DOMAIN asked.bids : e = Edge(i, j)
  BY DEF MayTrade, Pairs
<1> DEFINE lot == asked.lots[i]
           bidder == asked.bids[j]
<1>2. MayBeSold(lot) /\ MayBid(bidder) /\ Scale \in Nat \ {0}
  BY BatchIs
<1>3. /\ e.lot = i /\ e.bid = j
      /\ e.value = Value(bidder, lot)
      /\ e.maxCash = Min({lot.reserve, bidder.budget})
      /\ e.minimumCash = IF bidder.minimumLot > 0 THEN CostOf(lot, bidder.minimumLot) ELSE 0
  BY <1>1 DEF Edge
<1>4. Feasible(bidder, lot)
  BY <1>3 DEF MayTrade
<1>5. Value(bidder, lot) \in Int
  <2> DEFINE s == Surplus(bidder, lot)
             k == asked.params.funding - asked.params.riskPenalty * (lot.grade - 1)
             x == Weight(bidder, lot)
             S == {0, x}
             a == Max(S)
  <2>1. s \in Int /\ Fine \in Nat \ {0}
    BY <1>2, YieldIs, BatchIs
  <2>2. k \in Int
    <3>1. lot.grade \in Int /\ asked.params.funding \in Int /\ asked.params.riskPenalty \in Int
      BY <1>2, BatchIs, GradesAre DEF MayBeSold
    <3> QED
      BY <3>1
  <2>3. x = s + k * Fine
    BY DEF Weight
  <2> HIDE DEF s, k
  <2>4. x \in Int
    BY <2>1, <2>2, <2>3
  <2>5. Value(bidder, lot) = HalfEven(a, Fine)
    BY DEF Value
  <2>6. 0 \in Int /\ S = {0, x} /\ a = Max(S)
    OBVIOUS
  <2> HIDE DEF x, S, a
  <2>7. a \in {0, x} /\ 0 <= a
    BY <2>4, <2>6, OfTwo
  <2>8. a \in Nat
    BY <2>4, <2>7
  <2>9. HalfEven(a, Fine) \in Nat
    BY <2>1, <2>8, HalfEvenIs
  <2> QED
    BY <2>5, <2>9
<1>6. lot.reserve \in Nat /\ bidder.budget \in Nat /\ bidder.minimumLot \in Nat
  BY <1>2 DEF MayBeSold, MayBid
<1>7. e.maxCash \in Nat /\ e.maxCash <= bidder.budget
  <2> DEFINE a == lot.reserve
             b == bidder.budget
             S == {a, b}
  <2>1. e.maxCash = Min(S) /\ a \in Nat /\ b \in Nat /\ S = {a, b}
    BY <1>3, <1>6
  <2>2. Min(S) \in {a, b} /\ Min(S) <= b
    <3> HIDE DEF a, b, S
    <3> QED
      BY <2>1, OfTwo
  <2> QED
    BY <2>1, <2>2
<1>8. e.minimumCash \in Nat
  BY <1>2, <1>3, <1>6, CostIs
<1> QED
  BY <1>1, <1>3, <1>4, <1>5, <1>7, <1>8 DEF PairFacts

\* Pairs in order are pairs, each once.
LEMMA OrderedPairs ==
    ASSUME asked \in Batches, NEW S \in SUBSET MayTrade
    PROVE  /\ Ordered(S, EdgeBefore) \in Seq(MayTrade)
           /\ \A n, m \in DOMAIN Ordered(S, EdgeBefore) :
                 Ordered(S, EdgeBefore)[n] = Ordered(S, EdgeBefore)[m] => n = m
<1> DEFINE R == {p \in S \X S : EdgeBefore(p[1], p[2])}
           N == Cardinality(S)
           O == Ordered(S, EdgeBefore)
<1>1. \A e \in S : e.lot \in Nat /\ e.bid \in Nat /\ e = Edge(e.lot, e.bid)
  BY PairIs, BatchIs DEF PairFacts
<1>2. IsFiniteSet(S) /\ N \in Nat
  <2> DEFINE D == (DOMAIN asked.lots) \X (DOMAIN asked.bids)
             pair == [p \in D |-> Edge(p[1], p[2])]
  <2>1. IsFiniteSet(D)
    <3> DEFINE l == Len(asked.lots)
               b == Len(asked.bids)
    <3>1. l \in Int /\ b \in Int /\ 1 \in Int /\ DOMAIN asked.lots = 1..l /\ DOMAIN asked.bids = 1..b
      BY BatchIs
    <3>2. IsFiniteSet(1..l) /\ IsFiniteSet(1..b)
      <4> HIDE DEF l, b
      <4> QED
        BY <3>1, FS_Interval
    <3> QED
      BY <3>1, <3>2, FS_Product
  <2>2. Pairs = {pair[p] : p \in D}
    <3>1. ASSUME NEW i \in DOMAIN asked.lots, NEW j \in DOMAIN asked.bids
          PROVE  <<i, j>> \in D /\ pair[<<i, j>>] = Edge(i, j)
      OBVIOUS
    <3>2. ASSUME NEW p \in D
          PROVE  p[1] \in DOMAIN asked.lots /\ p[2] \in DOMAIN asked.bids /\ pair[p] = Edge(p[1], p[2])
      OBVIOUS
    <3> HIDE DEF pair, D
    <3>3. ASSUME NEW e \in Pairs PROVE e \in {pair[p] : p \in D}
      <4>1. PICK i \in DOMAIN asked.lots, j \in DOMAIN asked.bids : e = Edge(i, j)
        BY DEF Pairs
      <4> QED
        BY <3>1, <4>1
    <3>4. ASSUME NEW e \in {pair[p] : p \in D} PROVE e \in Pairs
      <4>1. PICK p \in D : e = pair[p]
        OBVIOUS
      <4> QED
        BY <3>2, <4>1 DEF Pairs
    <3> QED
      BY <3>3, <3>4
  <2>3. IsFiniteSet({pair[p] : p \in D})
    <3> HIDE DEF pair, D
    <3> QED
      BY <2>1, ImageIsFinite
  <2>4. S \in SUBSET Pairs
    BY DEF MayTrade
  <2> QED
    BY <2>2, <2>3, <2>4, FS_Subset, FS_CardinalityType
<1>3. \A n \in 1..N : \E x \in S : Cardinality({y \in S : <<y, x>> \in R}) = n - 1
  <2>1. \A x \in S : <<x, x>> \notin R
    BY <1>1 DEF EdgeBefore
  <2>2. \A x, y, z \in S : <<x, y>> \in R /\ <<y, z>> \in R => <<x, z>> \in R
    BY <1>1 DEF EdgeBefore
  <2>3. \A x, y \in S : x = y \/ <<x, y>> \in R \/ <<y, x>> \in R
    BY <1>1 DEF EdgeBefore
  <2> HIDE DEF R
  <2>4. \A n \in 1..Cardinality(S) : \E x \in S : Cardinality({y \in S : <<y, x>> \in R}) = n - 1
    BY <1>2, <2>1, <2>2, <2>3, RankIs, ZenonT(60)
  <2> QED
    BY <2>4
<1>4. ASSUME NEW n \in 1..N
      PROVE  O[n] \in S /\ Cardinality({y \in S : EdgeBefore(y, O[n])}) = n - 1
  <2>1. PICK x \in S : Cardinality({y \in S : <<y, x>> \in R}) = n - 1
    BY <1>3
  <2>2. {y \in S : <<y, x>> \in R} = {y \in S : EdgeBefore(y, x)}
    OBVIOUS
  <2>3. \E z \in S : Cardinality({y \in S : EdgeBefore(y, z)}) = n - 1
    BY <2>1, <2>2
  <2>4. O[n] = CHOOSE z \in S : Cardinality({y \in S : EdgeBefore(y, z)}) = n - 1
    BY DEF Ordered
  <2> QED
    BY <2>3, <2>4
<1>5. O \in [1..N -> S] /\ \A n \in 1..N : n \in Nat
  <2>1. \A n \in 1..N : (CHOOSE x \in S : Cardinality({y \in S : EdgeBefore(y, x)}) = n - 1) \in S
    <3> TAKE n \in 1..N
    <3>1. O[n] = CHOOSE x \in S : Cardinality({y \in S : EdgeBefore(y, x)}) = n - 1
      BY DEF Ordered
    <3> HIDE DEF O, N
    <3> QED
      BY <1>4, <3>1
  <2>2. \A n \in 1..N : n \in Nat
    BY <1>2
  <2>3. O = [n \in 1..N |-> CHOOSE x \in S : Cardinality({y \in S : EdgeBefore(y, x)}) = n - 1]
    BY Zenon DEF Ordered
  <2> HIDE DEF O, N
  <2> QED
    BY Zenon, <2>1, <2>2, <2>3
<1>6. O \in Seq(MayTrade)
  BY <1>2, <1>5, SeqDef
<1>7. \A n, m \in 1..N : O[n] = O[m] => n = m
  <2> TAKE n, m \in 1..N
  <2> HAVE O[n] = O[m]
  <2>1. n - 1 = m - 1
    <3> HIDE DEF O, N
    <3> QED
      BY <1>4
  <2> QED
    BY <1>5, <2>1
<1> QED
  BY <1>5, <1>6, <1>7

-----------------------------------------------------------------------------
(* What a node of the search knows *)
\* The pairs are those that may trade, each of them once.
PairsInv ==
    /\ asked \in Batches
    /\ edges \in Seq(MayTrade)
    /\ \A d, e \in Ids : edges[d] = edges[e] => d = e

\* What a node of the search may be told.
States == [forbidden : SUBSET Ids, forced : SUBSET Ids, preassign : [Ids -> Nat], capped : [Ids -> Int]]

\* The pairs are finitely many, each of a lot on sale and a bid that may be made.
LEMMA IdsAre ==
    ASSUME PairsInv
    PROVE  /\ IsFiniteSet(Ids)
           /\ Len(edges) \in Nat
           /\ Scale \in Nat \ {0}
           /\ \A e \in Ids : e \in Nat /\ e <= Len(edges) /\ 1 <= e
           /\ \A e \in Ids : edges[e] \in MayTrade
           /\ \A e \in Ids : PairFacts(edges[e]) /\ MayBeSold(Lot(e)) /\ MayBid(BidOf(e))
           /\ \A e, d \in Ids : edges[d].lot = edges[e].lot /\ edges[d].bid = edges[e].bid => d = e
<1>1. Len(edges) \in Nat /\ \A e \in Ids : edges[e] \in MayTrade
  BY LenProperties, ElementOfSeq DEF PairsInv, Ids
<1>2. IsFiniteSet(Ids)
  <2> DEFINE n == Len(edges)
             a == 1
  <2>1. Ids = a..n /\ a \in Int /\ n \in Int
    BY <1>1 DEF Ids
  <2> HIDE DEF a, n
  <2> QED
    BY <2>1, FS_Interval
<1>3. asked \in Batches
  BY DEF PairsInv
<1>4. \A e \in Ids : PairFacts(edges[e]) /\ edges[e] = Edge(edges[e].lot, edges[e].bid)
  BY <1>1, <1>3, PairIs
<1>5. \A e \in Ids : MayBeSold(Lot(e)) /\ MayBid(BidOf(e))
  BY <1>3, <1>4, BatchIs DEF PairFacts, Lot, BidOf
<1>6. \A e, d \in Ids : edges[d].lot = edges[e].lot /\ edges[d].bid = edges[e].bid => d = e
  BY <1>4 DEF PairsInv
<1>7. \A e \in Ids : e \in Nat /\ e <= Len(edges) /\ 1 <= e
  BY <1>1 DEF Ids
<1> QED
  BY <1>1, <1>2, <1>3, <1>4, <1>5, <1>6, <1>7, BatchIs

\* A group's limit is an amount.
LEMMA GroupLimitIs ==
    ASSUME PairsInv, NEW g \in Groups
    PROVE  GroupLimit(g) \in Nat /\ g = <<g[1], g[2], g[3]>> /\ g[1] \in Nat /\ g[2] \in Nat /\ g[3] \in Nat
<1>1. PICK e \in Ids : g = <<edges[e].bid, 1, Lot(e).debtor>> \/ g = <<edges[e].bid, 2, Lot(e).grade>>
  BY DEF Groups
<1>2. /\ Scale \in Nat \ {0} /\ MayBid(BidOf(e)) /\ MayBeSold(Lot(e)) /\ PairFacts(edges[e])
      /\ asked \in Batches
  BY IdsAre DEF PairsInv
<1>3. Lot(e).debtor \in Nat /\ Lot(e).grade \in Grades /\ Lot(e).grade \in Nat
  BY <1>2 DEF MayBeSold, Grades
<1>4. edges[e].bid \in Nat
  BY <1>2, BatchIs DEF PairFacts
<1>5. DebtorLimit(asked.bids[g[1]]) \in Nat /\ (g[2] # 1 => GradeLimit(asked.bids[g[1]], g[3]) \in Nat)
  BY <1>1, <1>2, <1>3, LimitsAre DEF BidOf
<1> QED
  BY <1>1, <1>3, <1>4, <1>5 DEF GroupLimit

\* A bid has finitely many debtors and grades to watch.
LEMMA GroupsFinite ==
    ASSUME PairsInv
    PROVE  IsFiniteSet(Groups) /\ IsFiniteSet(Breached) /\ Cardinality(Breached) \in Nat
<1> DEFINE f == [e \in Ids |-> <<edges[e].bid, 1, Lot(e).debtor>>]
           h == [e \in Ids |-> <<edges[e].bid, 2, Lot(e).grade>>]
<1>1. Groups = {f[e] : e \in Ids} \cup {h[e] : e \in Ids}
  BY DEF Groups
<1> HIDE DEF f, h
<1>2. IsFiniteSet({f[e] : e \in Ids}) /\ IsFiniteSet({h[e] : e \in Ids})
  BY IdsAre, ImageIsFinite
<1>3. IsFiniteSet(Groups)
  BY <1>1, <1>2, FS_Union
<1> QED
  BY <1>3, FS_Subset, FS_CardinalityType DEF Breached

\* The groups in order are breached ones.
LEMMA OrderedGroups ==
    ASSUME PairsInv
    PROVE  \A n \in 1..Cardinality(Breached) : Ordered(Breached, GroupBefore)[n] \in Breached
<1> DEFINE S == Breached
           R == {p \in S \X S : GroupBefore(p[1], p[2])}
           N == Cardinality(S)
           O == Ordered(Breached, GroupBefore)
<1>1. \A g \in S : g = <<g[1], g[2], g[3]>> /\ g[1] \in Nat /\ g[2] \in Nat /\ g[3] \in Nat
  BY GroupLimitIs DEF Breached
<1>2. IsFiniteSet(S) /\ N \in Nat
  BY GroupsFinite
<1> HIDE DEF S
<1>3. \A n \in 1..N : \E x \in S : Cardinality({y \in S : <<y, x>> \in R}) = n - 1
  <2>1. \A x \in S : <<x, x>> \notin R
    BY <1>1 DEF GroupBefore
  <2>2. \A x, y, z \in S : <<x, y>> \in R /\ <<y, z>> \in R => <<x, z>> \in R
    BY <1>1 DEF GroupBefore
  <2>3. \A x, y \in S : x = y \/ <<x, y>> \in R \/ <<y, x>> \in R
    BY <1>1 DEF GroupBefore
  <2> HIDE DEF R
  <2>4. \A n \in 1..Cardinality(S) : \E x \in S : Cardinality({y \in S : <<y, x>> \in R}) = n - 1
    BY <1>2, <2>1, <2>2, <2>3, RankIs, ZenonT(60)
  <2> QED
    BY <2>4
<1>4. ASSUME NEW n \in 1..N PROVE O[n] \in S
  <2>1. PICK x \in S : Cardinality({y \in S : <<y, x>> \in R}) = n - 1
    BY <1>3
  <2>2. {y \in S : <<y, x>> \in R} = {y \in S : GroupBefore(y, x)}
    OBVIOUS
  <2>3. \E z \in S : Cardinality({y \in S : GroupBefore(y, z)}) = n - 1
    BY <2>1, <2>2
  <2>4. O[n] = CHOOSE z \in S : Cardinality({y \in S : GroupBefore(y, z)}) = n - 1
    BY DEF Ordered, S
  <2> QED
    BY <2>3, <2>4
<1> QED
  BY <1>4 DEF S

\* Pairs in order are pairs.
LEMMA OrderedIds ==
    ASSUME PairsInv, NEW S \in SUBSET Ids
    PROVE  Ordered(S, <) \in Seq(Ids)
<1> DEFINE R == {p \in S \X S : p[1] < p[2]}
           N == Cardinality(S)
           O == Ordered(S, <)
<1>1. \A e \in S : e \in Nat
  BY IdsAre
<1>2. IsFiniteSet(S) /\ N \in Nat
  BY IdsAre, FS_Subset, FS_CardinalityType
<1>3. \A n \in 1..N : \E x \in S : Cardinality({y \in S : <<y, x>> \in R}) = n - 1
  <2>1. \A x \in S : <<x, x>> \notin R
    BY <1>1
  <2>2. \A x, y, z \in S : <<x, y>> \in R /\ <<y, z>> \in R => <<x, z>> \in R
    BY <1>1
  <2>3. \A x, y \in S : x = y \/ <<x, y>> \in R \/ <<y, x>> \in R
    BY <1>1
  <2> HIDE DEF R
  <2>4. \A n \in 1..Cardinality(S) : \E x \in S : Cardinality({y \in S : <<y, x>> \in R}) = n - 1
    BY <1>2, <2>1, <2>2, <2>3, RankIs, ZenonT(60)
  <2> QED
    BY <2>4
<1>4. O = [n \in 1..N |-> CHOOSE x \in S : Cardinality({y \in S : y < x}) = n - 1]
  BY Zenon DEF Ordered
<1>5. ASSUME NEW n \in 1..N
      PROVE  (CHOOSE z \in S : Cardinality({y \in S : y < z}) = n - 1) \in S
  <2>1. PICK x \in S : Cardinality({y \in S : <<y, x>> \in R}) = n - 1
    BY <1>3
  <2>2. {y \in S : <<y, x>> \in R} = {y \in S : y < x}
    OBVIOUS
  <2>3. \E z \in S : Cardinality({y \in S : y < z}) = n - 1
    BY <2>1, <2>2
  <2> QED
    BY <2>3
<1>6. O \in [1..N -> S]
  <2> HIDE DEF O, N
  <2> QED
    BY Zenon, <1>4, <1>5
<1> HIDE DEF O, N
<1>7. O \in [1..N -> Ids]
  BY <1>6
<1> QED
  BY <1>2, <1>7, SeqDef DEF O

\* Every pair's cash is an amount.
Amounts == [Ids -> Nat]

\* The cash of a set of pairs is an amount.
LEMMA CashIs ==
    ASSUME PairsInv, NEW c, \A e \in Ids : c[e] \in Nat, NEW S \in SUBSET Ids
    PROVE  /\ IsFiniteSet(S) /\ Numbers(c, S) /\ SumOf(c, S) \in Nat
           /\ \A T \in SUBSET S : SumOf(c, T) \in Nat /\ SumOf(c, T) <= SumOf(c, S)
           /\ \A e \in S : c[e] <= SumOf(c, S)
<1>1. IsFiniteSet(S) /\ Numbers(c, S)
  BY IdsAre, FS_Subset DEF Numbers
<1>2. \A T \in SUBSET S : SumOf(c, T) \in Nat
  BY <1>1, FS_Subset, SumIsNat
<1>3. ASSUME NEW T \in SUBSET S PROVE SumOf(c, T) <= SumOf(c, S)
  <2>1. SumOf(c, S) = SumOf(c, T) + SumOf(c, S \ T)
    BY <1>1, SumOfTwo
  <2>2. SumOf(c, T) \in Nat /\ SumOf(c, S \ T) \in Nat
    BY <1>2
  <2> QED
    BY <2>1, <2>2
<1>4. ASSUME NEW e \in S PROVE c[e] <= SumOf(c, S)
  <2>1. SumOf(c, S) = c[e] + SumOf(c, S \ {e})
    BY <1>1, SumSplit
  <2>2. SumOf(c, S \ {e}) \in Nat /\ c[e] \in Nat
    BY <1>2
  <2> QED
    BY <2>1, <2>2
<1> QED
  BY <1>1, <1>2, <1>3, <1>4

\* The root of the search forbids, forces and spends nothing.
LEMMA NewStateTyped ==
    ASSUME FarAway
    PROVE  NewState(Len(edges)) \in States
BY DEF FarAway, NewState, States, Ids

\* Capping one breached group gives caps.
LEMMA CapTyped ==
    ASSUME PairsInv, cash \in Amounts, NEW s \in States, NEW g \in Breached
    PROVE  CapGroup(s, g) \in States
<1> DEFINE in == Funded(Members(g))
           capped == [e \in Ids |-> IF e \in in THEN Min({s.capped[e], Shares(g)[e]}) ELSE s.capped[e]]
           final == [capped EXCEPT ![MostValuable(in)] = @ + GroupLimit(g) - SumOf(Shares(g), in)]
<1>1. in \in SUBSET Ids /\ \A e \in in : cash[e] \in Nat \ {0}
  BY DEF Funded, Members, Amounts
<1>2. GroupLimit(g) \in Nat
  BY GroupLimitIs DEF Breached
<1>3. ASSUME NEW e \in in PROVE Shares(g)[e] \in Nat
  <2>1. CashOf(in) \in Nat /\ cash[e] <= CashOf(in) /\ cash[e] \in Nat \ {0}
    BY <1>1, CashIs DEF CashOf, Amounts
  <2>2. CashOf(in) \in Nat \ {0}
    BY <2>1
  <2> DEFINE a == GroupLimit(g) * cash[e]
             b == CashOf(in)
  <2>3. a \in Nat /\ b \in Nat \ {0}
    BY <1>2, <2>1, <2>2
  <2>4. Shares(g)[e] = a \div b
    BY DEF Shares
  <2> HIDE DEF a, b
  <2> QED
    BY <2>3, <2>4, DivisionIs
<1> HIDE DEF in
<1>4. SumOf(Shares(g), in) \in Int
  BY <1>1, <1>3, IdsAre, FS_Subset, SumIsNat
<1>5. s.capped \in [Ids -> Int] /\ s.preassign \in [Ids -> Nat] /\ s.forbidden \in SUBSET Ids
  BY DEF States
<1>6. ASSUME NEW e \in in PROVE Min({s.capped[e], Shares(g)[e]}) \in Int
  <2> DEFINE a == s.capped[e]
             b == Shares(g)[e]
             S == {a, b}
  <2>1. a \in Int /\ b \in Int /\ S = {a, b}
    BY <1>1, <1>3, <1>5
  <2> HIDE DEF a, b, S
  <2>2. Min(S) \in Int
    BY <2>1, OfTwo
  <2> QED
    BY <2>2 DEF S, a, b
<1>7. capped \in [Ids -> Int]
  BY <1>5, <1>6
<1> HIDE DEF capped
<1>8. final \in [Ids -> Int]
  <2> DEFINE x == MostValuable(in)
             v == capped[x] + GroupLimit(g) - SumOf(Shares(g), in)
  <2>1. x \in Ids => v \in Int
    BY <1>2, <1>4, <1>7
  <2>2. final = [capped EXCEPT ![x] = v]
    BY <1>7
  <2> HIDE DEF x, v, final
  <2> QED
    BY <1>7, <2>1, <2>2
<1>9. CapGroup(s, g) = [s EXCEPT !.capped = final,
                 !.forbidden = @ \cup {e \in in : final[e] <= 0},
                 !.preassign = [e \in Ids |-> IF e \in in THEN 0 ELSE @[e]]]
  BY DEF CapGroup, in, capped
<1> HIDE DEF final
<1>10. [e \in Ids |-> IF e \in in THEN 0 ELSE s.preassign[e]] \in [Ids -> Nat]
  BY <1>5
<1> QED
  BY <1>1, <1>5, <1>8, <1>9, <1>10 DEF States

\* Caps are set group by group, in order.
CapStep(g, n) == IF n = 0 THEN st ELSE CapGroup(g[n - 1], Ordered(Breached, GroupBefore)[n])

\* The caps of all breached groups are set one group after the other.
LEMMA CappedIs ==
    Capped = CHOOSE g : g = [n \in 0..Cardinality(Breached) |-> CapStep(g, n)]
BY Zenon DEF Capped, CapStep

\* Capping all breached groups gives caps.
LEMMA CappedTyped ==
    ASSUME PairsInv, cash \in Amounts, st \in States
    PROVE  Capped[Cardinality(Breached)] \in States
<1> DEFINE N == Cardinality(Breached)
           D == 0..N
           group == Ordered(Breached, GroupBefore)
           step == [n \in D |-> [g \in [D -> States] |-> CapStep(g, n)]]
<1>1. N \in Nat /\ D = 0..N /\ N \in D
  BY GroupsFinite
<1>2. \A n \in D : n # 0 => n - 1 \in D /\ n - 1 < n /\ n \in 1..N
  BY <1>1
<1>3. ASSUME NEW n \in D, NEW g \in [D -> States] PROVE CapStep(g, n) \in States
  <2>1. CASE n = 0
    BY <2>1 DEF CapStep
  <2>2. CASE n # 0
    <3>1. n \in 1..N /\ g[n - 1] \in States
      BY <1>2, <2>2
    <3>2. group[n] \in Breached
      BY <3>1, OrderedGroups
    <3> HIDE DEF group
    <3>3. CapGroup(g[n - 1], group[n]) \in States
      BY <3>1, <3>2, CapTyped
    <3> QED
      BY <2>2, <3>3 DEF CapStep, group
  <2> QED
    BY <2>1, <2>2
<1> HIDE DEF N
<1>4. /\ step \in [D -> [[D -> States] -> States]]
      /\ \A n \in D : \A g \in [D -> States] : step[n][g] = CapStep(g, n)
  BY <1>3
<1> HIDE DEF D
<1>5. IsRecursion(D, States, step)
  <2> HIDE DEF step
  <2>1. ASSUME NEW n \in D, NEW g \in [D -> States], NEW h \in [D -> States],
               \A m \in D : m < n => g[m] = h[m]
        PROVE  step[n][g] = step[n][h]
    <3>1. CapStep(g, n) = CapStep(h, n)
      BY <1>2, <2>1 DEF CapStep
    <3> QED
      BY <1>4, <3>1
  <2> QED
    BY <1>4, <2>1 DEF IsRecursion
<1> HIDE DEF step
<1>6. PICK f \in [D -> States] : \A n \in D : f[n] = step[n][f]
  <2>1. \E f : Solves(f, D, States, step)
    BY <1>1, <1>5, RecursionExists
  <2> QED
    BY <2>1 DEF Solves
<1>7. f = [n \in D |-> CapStep(f, n)]
  BY <1>4, <1>6
<1>8. Capped = CHOOSE g : g = [n \in D |-> CapStep(g, n)]
  BY Zenon, CappedIs DEF D, N
<1>9. Capped = [n \in D |-> CapStep(Capped, n)]
  BY <1>7, <1>8
<1>10. \A n \in D : Capped[n] = CapStep(Capped, n)
  BY Zenon, <1>9
<1>11. \A n \in 0..N : Capped[n] \in States
  <2> DEFINE P == {n \in D : Capped[n] \in States}
  <2>1. ASSUME NEW n \in 0..N, \A m \in 0..N : m < n => m \in P PROVE n \in P
    <3>1. n \in D
      BY <1>1
    <3>2. CASE n = 0
      BY <1>10, <3>1, <3>2 DEF CapStep
    <3>3. CASE n # 0
      <4>1. n - 1 \in D /\ n - 1 < n /\ n \in 1..N
        BY <1>2, <3>1, <3>3
      <4>2. Capped[n - 1] \in States
        BY <1>1, <2>1, <4>1
      <4>3. group[n] \in Breached
        BY <4>1, OrderedGroups DEF N
      <4> HIDE DEF group
      <4>4. CapGroup(Capped[n - 1], group[n]) \in States
        BY <4>2, <4>3, CapTyped
      <4>5. Capped[n] = CapGroup(Capped[n - 1], group[n])
        BY <1>10, <3>1, <3>3 DEF CapStep, group
      <4> QED
        BY <3>1, <4>4, <4>5
    <3> QED
      BY <3>2, <3>3
  <2> HIDE DEF P
  <2>2. \A n \in 0..N : n \in P
    BY <1>1, <2>1, UpToInduction
  <2> QED
    BY <2>2 DEF P
<1> QED
  BY <1>1, <1>11 DEF N

\* A pair below its minimum lot is forbidden, and the rest stays what it was.
LEMMA DropTyped ==
    ASSUME st \in States, NEW S \in SUBSET Ids
    PROVE  Drop(S) \in States
<1>1. [e \in Ids |-> IF e \in S THEN 0 ELSE st.preassign[e]] \in [Ids -> Nat]
  BY DEF States
<1> QED
  BY <1>1 DEF States, Drop

\* A branch forbids a pair or forces it, and the rest stays what it was.
LEMMA ChildTyped ==
    ASSUME FarAway, PairsInv, st \in States, NEW e \in Ids
    PROVE  Child(e) \in States
<1>1. edges[e].minimumCash \in Nat
  BY IdsAre DEF PairFacts
<1> DEFINE capped == [st.capped EXCEPT ![e] = Unreachable]
           preassign == [st.preassign EXCEPT ![e] = edges[e].minimumCash]
<1>2. capped \in [Ids -> Int] /\ preassign \in [Ids -> Nat]
  BY <1>1 DEF States, FarAway
<1>3. Child(e) = [st EXCEPT !.forbidden = @ \ {e}, !.forced = @ \cup {e},
                             !.capped = capped, !.preassign = preassign]
  BY DEF Child
<1> DEFINE forbidden == st.forbidden \ {e}
           forced == st.forced \cup {e}
<1>4. Child(e) = [st EXCEPT !.forbidden = forbidden, !.forced = forced,
                            !.capped = capped, !.preassign = preassign]
  BY <1>3 DEF States
<1>5. forbidden \in SUBSET Ids /\ forced \in SUBSET Ids
  BY DEF States
<1> HIDE DEF capped, preassign, forbidden, forced
<1> QED
  BY <1>2, <1>4, <1>5 DEF States

-----------------------------------------------------------------------------
(* The network of a node *)
NodeInv == PairsInv /\ st \in States

\* The pairs a node allows, and the issuers it must watch.
LEMMA AllowedAre ==
    ASSUME NodeInv
    PROVE  /\ Allowed \in SUBSET Ids /\ IsFiniteSet(Allowed)
           /\ IsFiniteSet(IssuerKeys) /\ Cardinality(IssuerKeys) \in Nat
           /\ \A e \in Allowed : /\ edges[e].lot \in 1..Len(asked.lots)
                                 /\ edges[e].bid \in 1..Len(asked.bids)
                                 /\ IssuerKey(e) = <<edges[e].bid, Lot(e).issuer>>
                                 /\ Lot(e).issuer \in Nat
           /\ \A key \in IssuerKeys : /\ key = <<key[1], key[2]>>
                                      /\ key[1] \in 1..Len(asked.bids) /\ key[2] \in Nat
<1>1. PairsInv /\ asked \in Batches
  BY DEF NodeInv, PairsInv
<1>2. Allowed \in SUBSET Ids
  BY DEF Allowed
<1>3. \A e \in Allowed : /\ edges[e].lot \in 1..Len(asked.lots)
                         /\ edges[e].bid \in 1..Len(asked.bids)
                         /\ Lot(e).issuer \in Nat
  BY <1>1, <1>2, IdsAre, BatchIs DEF PairFacts, MayBeSold
<1>4. IsFiniteSet(Ids) /\ IsFiniteSet(Allowed)
  BY <1>1, <1>2, IdsAre, FS_Subset
<1> DEFINE f == [e \in Allowed |-> IssuerKey(e)]
<1>5. IssuerKeys \in SUBSET {f[e] : e \in Allowed}
  BY DEF IssuerKeys
<1> HIDE DEF f
<1>6. IsFiniteSet({f[e] : e \in Allowed})
  BY <1>4, ImageIsFinite
<1>7. IsFiniteSet(IssuerKeys) /\ Cardinality(IssuerKeys) \in Nat
  BY <1>5, <1>6, FS_Subset, FS_CardinalityType
<1>8. \A e \in Allowed : IssuerKey(e) = <<edges[e].bid, Lot(e).issuer>>
  BY DEF IssuerKey
<1>9. \A key \in IssuerKeys : key = <<key[1], key[2]>> /\ key[1] \in 1..Len(asked.bids) /\ key[2] \in Nat
  <2> TAKE key \in IssuerKeys
  <2>1. PICK e \in Allowed : key = IssuerKey(e)
    BY DEF IssuerKeys
  <2>2. key = <<edges[e].bid, Lot(e).issuer>>
    BY <1>8, <2>1
  <2> QED
    BY <1>3, <2>2
<1> QED
  BY <1>2, <1>3, <1>4, <1>7, <1>8, <1>9

\* The numbers of lots, issuers, bids and the sink do not meet.
LEMMA NumberingIs ==
    ASSUME NodeInv
    PROVE  /\ Len(asked.lots) \in Nat /\ Len(asked.bids) \in Nat
           /\ \A key \in IssuerKeys :
                 IssuerNode(key) \in Nat /\ Len(asked.lots) < IssuerNode(key)
                 /\ IssuerNode(key) <= Len(asked.lots) + Cardinality(IssuerKeys)
           /\ \A k, h \in IssuerKeys : IssuerNode(k) = IssuerNode(h) => k = h
           /\ \A j \in Nat : BidNode(j) = Len(asked.lots) + Cardinality(IssuerKeys) + j
           /\ SinkNode = Len(asked.lots) + Cardinality(IssuerKeys) + Len(asked.bids) + 1
<1> DEFINE below(key) == {k \in IssuerKeys : k[1] < key[1] \/ (k[1] = key[1] /\ k[2] < key[2])}
           K == Cardinality(IssuerKeys)
           L == Len(asked.lots)
<1>1. Len(asked.lots) \in Nat /\ Len(asked.bids) \in Nat
  BY BatchIs DEF NodeInv, PairsInv
<1>2. IsFiniteSet(IssuerKeys) /\ K \in Nat
  BY AllowedAre
<1>3. \A key \in IssuerKeys : key = <<key[1], key[2]>> /\ key[1] \in Nat /\ key[2] \in Nat
  BY AllowedAre, <1>1
<1>4. ASSUME NEW key \in IssuerKeys
      PROVE  IsFiniteSet(below(key)) /\ Cardinality(below(key)) \in Nat /\ Cardinality(below(key)) < K
             /\ IssuerNode(key) = L + 1 + Cardinality(below(key))
  <2>1. below(key) \in SUBSET IssuerKeys /\ key \notin below(key)
    BY <1>3
  <2>2. IssuerNode(key) = L + 1 + Cardinality(below(key))
    BY DEF IssuerNode
  <2> HIDE DEF below
  <2>3. below(key) # IssuerKeys
    BY <2>1
  <2> QED
    BY <1>2, <2>1, <2>2, <2>3, FS_Subset, FS_CardinalityType
<1>5. ASSUME NEW k \in IssuerKeys, NEW h \in IssuerKeys, k[1] < h[1] \/ (k[1] = h[1] /\ k[2] < h[2])
      PROVE  Cardinality(below(k)) < Cardinality(below(h))
  <2>1. below(k) \in SUBSET below(h) /\ k \in below(h) /\ k \notin below(k)
    BY <1>3, <1>5
  <2> HIDE DEF below
  <2> QED
    BY <1>4, <2>1, FS_Subset
<1>6. ASSUME NEW k \in IssuerKeys, NEW h \in IssuerKeys, IssuerNode(k) = IssuerNode(h) PROVE k = h
  <2>1. Cardinality(below(k)) = Cardinality(below(h))
    <3> HIDE DEF below
    <3> QED
      BY <1>1, <1>4, <1>6
  <2>2. /\ ~(k[1] < h[1] \/ (k[1] = h[1] /\ k[2] < h[2]))
        /\ ~(h[1] < k[1] \/ (h[1] = k[1] /\ h[2] < k[2]))
    <3> HIDE DEF below
    <3> QED
      BY <1>4, <1>5, <2>1
  <2>3. k[1] = h[1] /\ k[2] = h[2]
    BY <1>3, <2>2
  <2> QED
    BY <1>3, <2>3
<1>7. SinkNode = L + K + Len(asked.bids) + 1
  BY DEF SinkNode, BidNode
<1> HIDE DEF below, K
<1> QED
  BY <1>1, <1>2, <1>4, <1>6, <1>7 DEF BidNode, K

\* The room of every pair and of every node is an integer.
LEMMA CapsAre ==
    ASSUME NodeInv
    PROVE  /\ \A i \in DOMAIN asked.lots : LotCapacity(i) \in Int /\ Committed(OfLot(i)) \in Nat
           /\ \A j \in DOMAIN asked.bids : BidCapacity(j) \in Int /\ Committed(OfBid(j)) \in Nat
           /\ \A key \in IssuerKeys : IssuerCapacity(key) \in Int /\ Committed(OfIssuer(key)) \in Nat
           /\ \A e \in Ids : /\ EdgeCap(e) \in Int /\ EdgeCap(e) <= edges[e].maxCash
                             /\ IssuerKey(e) \notin IssuerKeys => EdgeCap(e) <= IssuerLimit(BidOf(e))
           /\ \A j \in DOMAIN asked.bids : IssuerLimit(asked.bids[j]) \in Nat
<1>1. PairsInv /\ asked \in Batches /\ st.preassign \in [Ids -> Nat] /\ st.capped \in [Ids -> Int]
  BY DEF NodeInv, PairsInv, States
<1>2. \A S : Committed(S) \in Nat
  <2> TAKE S
  <2>1. S \cap Allowed \in SUBSET Ids
    BY DEF Allowed
  <2> QED
    BY <1>1, <2>1, CashIs DEF Committed
<1>3. \A i \in DOMAIN asked.lots : LotCapacity(i) \in Int
  BY <1>1, <1>2, BatchIs DEF LotCapacity, MayBeSold
<1>4. \A j \in DOMAIN asked.bids : BidCapacity(j) \in Int /\ IssuerLimit(asked.bids[j]) \in Nat
  BY <1>1, <1>2, BatchIs, LimitsAre DEF BidCapacity, MayBid
<1>5. \A key \in IssuerKeys : IssuerCapacity(key) \in Int
  <2> TAKE key \in IssuerKeys
  <2>1. key[1] \in DOMAIN asked.bids
    BY <1>1, AllowedAre, BatchIs
  <2>2. IssuerLimit(asked.bids[key[1]]) \in Nat
    BY <1>4, <2>1
  <2> QED
    BY <1>2, <2>2 DEF IssuerCapacity
<1>6. ASSUME NEW e \in Ids
      PROVE  /\ EdgeCap(e) \in Int /\ EdgeCap(e) <= edges[e].maxCash
             /\ IssuerKey(e) \notin IssuerKeys => EdgeCap(e) <= IssuerLimit(BidOf(e))
  <2>1. edges[e].maxCash \in Int /\ st.capped[e] \in Int /\ IssuerLimit(BidOf(e)) \in Int
    BY <1>1, IdsAre, LimitsAre DEF PairFacts
  <2>2. CapacityOf(e) \in Int /\ CapacityOf(e) <= edges[e].maxCash
    <3> DEFINE a == edges[e].maxCash
               b == st.capped[e]
               S == {a, b}
    <3>1. a \in Int /\ b \in Int /\ S = {a, b} /\ CapacityOf(e) = Min(S)
      BY <2>1 DEF CapacityOf
    <3> HIDE DEF S, b
    <3>2. Min(S) \in Int /\ Min(S) <= a
      BY <3>1, OfTwo
    <3> QED
      BY <3>1, <3>2
  <2>3. CASE IssuerKey(e) \in IssuerKeys
    BY <2>2, <2>3 DEF EdgeCap
  <2>4. CASE IssuerKey(e) \notin IssuerKeys
    <3> DEFINE a == CapacityOf(e)
               b == IssuerLimit(BidOf(e))
               S == {a, b}
    <3>1. a \in Int /\ b \in Int /\ S = {a, b} /\ EdgeCap(e) = Min(S)
      BY <2>1, <2>2, <2>4 DEF EdgeCap
    <3> HIDE DEF S, b, a
    <3>2. Min(S) \in Int /\ Min(S) <= a /\ Min(S) <= b
      BY <3>1, OfTwo
    <3> QED
      BY <2>1, <2>2, <3>1, <3>2 DEF a, b
  <2> QED
    BY <2>3, <2>4
<1> QED
  BY <1>2, <1>3, <1>4, <1>5, <1>6

\* An arc of the network leads from a smaller number to a larger one.
ArcFacts(arc) ==
    /\ arc.at = <<arc.at[1], arc.at[2]>>
    /\ arc.at[1] \in Nat /\ arc.at[2] \in Nat /\ arc.at[1] < arc.at[2] /\ arc.at[2] <= SinkNode
    /\ arc.capacity \in Int /\ arc.cost \in Int

\* The numbers of lots, issuers, bids and sink rise in this order.
LEMMA ArcMade ==
    ASSUME NEW u \in Nat, NEW v \in Nat, u < v, v <= SinkNode, NEW c \in Int, NEW k \in Int
    PROVE  ArcFacts([at |-> <<u, v>>, capacity |-> c, cost |-> k])
BY DEF ArcFacts

\* There are finitely many arcs, and each leads upwards.
LEMMA ArcsAre ==
    ASSUME NodeInv
    PROVE  SinkNode \in Nat \ {0} /\ IsFiniteSet(Arcs) /\ \A arc \in Arcs : ArcFacts(arc)
<1>0. PairsInv /\ asked \in Batches /\ st.preassign \in [Ids -> Nat]
  BY DEF NodeInv, PairsInv, States
<1> DEFINE L == Len(asked.lots)
           B == Len(asked.bids)
           K == Cardinality(IssuerKeys)
<1>1. /\ L \in Nat /\ B \in Nat /\ K \in Nat
      /\ DOMAIN asked.lots = 1..L /\ DOMAIN asked.bids = 1..B
      /\ SinkNode = L + K + B + 1
      /\ \A j \in Nat : BidNode(j) = L + K + j
      /\ \A key \in IssuerKeys : IssuerNode(key) \in Nat /\ L < IssuerNode(key) /\ IssuerNode(key) <= L + K
  BY <1>0, BatchIs, NumberingIs, AllowedAre
<1> HIDE DEF L, B, K
<1>11. /\ \A i \in 1..L : i \in Nat /\ 0 < i /\ i <= L
       /\ \A j \in 1..B : j \in Nat /\ 0 < j /\ j <= B
  OBVIOUS
<1>12. L \in Nat /\ B \in Nat /\ K \in Nat /\ SinkNode = L + K + B + 1
  BY <1>1
<1>2. IsFiniteSet(Arcs)
  <2> DEFINE l == [i \in DOMAIN asked.lots |-> LotArc(i)]
             p == [e \in Allowed |-> PairArc(e)]
             k == [key \in IssuerKeys |-> IssuerArc(key)]
             b == [j \in DOMAIN asked.bids |-> BidArc(j)]
  <2>1. Arcs = ({l[i] : i \in DOMAIN asked.lots} \cup {p[e] : e \in Allowed})
               \cup ({k[key] : key \in IssuerKeys} \cup {b[j] : j \in DOMAIN asked.bids})
    BY DEF Arcs
  <2> HIDE DEF l, p, k, b
  <2>2. IsFiniteSet(DOMAIN asked.lots) /\ IsFiniteSet(DOMAIN asked.bids)
    <3> DEFINE a == 1
    <3>1. a \in Int /\ DOMAIN asked.lots = a..L /\ DOMAIN asked.bids = a..B
      BY <1>1
    <3> HIDE DEF a
    <3> QED
      BY <1>1, <3>1, FS_Interval
  <2>3. IsFiniteSet({l[i] : i \in DOMAIN asked.lots}) /\ IsFiniteSet({b[j] : j \in DOMAIN asked.bids})
    BY <2>2, ImageIsFinite
  <2>5. IsFiniteSet(Allowed) /\ IsFiniteSet(IssuerKeys)
    BY AllowedAre
  <2>4. IsFiniteSet({p[e] : e \in Allowed}) /\ IsFiniteSet({k[key] : key \in IssuerKeys})
    BY <2>5, ImageIsFinite
  <2> QED
    BY <2>1, <2>3, <2>4, FS_Union
<1>3. ASSUME NEW i \in DOMAIN asked.lots PROVE ArcFacts(LotArc(i))
  <2>3. i \in 1..L
    BY <1>1
  <2>4. i \in Nat /\ 0 < i /\ i <= L
    BY <1>11, <2>3
  <2>1. 0 \in Nat /\ 0 \in Int /\ i \in Nat /\ 0 < i /\ i <= SinkNode
    BY <1>12, <2>4
  <2>2. LotCapacity(i) \in Int
    BY CapsAre
  <2> QED
    BY <2>1, <2>2, ArcMade DEF LotArc, Source
<1>4. ASSUME NEW e \in Allowed PROVE ArcFacts(PairArc(e))
  <2>1. /\ edges[e].lot \in 1..L /\ edges[e].bid \in 1..B /\ e \in Ids
    BY <1>1, AllowedAre DEF L, B
  <2>2. /\ EdgeCap(e) \in Int /\ st.preassign[e] \in Nat /\ edges[e].value \in Int
    BY <1>0, <2>1, CapsAre, IdsAre DEF PairFacts
  <2> DEFINE v == IF IssuerKey(e) \in IssuerKeys THEN IssuerNode(IssuerKey(e))
                  ELSE BidNode(edges[e].bid)
  <2>3. v \in Nat /\ L < v /\ v <= SinkNode
    <3>1. edges[e].bid \in Nat /\ 0 < edges[e].bid /\ edges[e].bid <= B
      BY <1>11, <2>1
    <3>2. CASE IssuerKey(e) \in IssuerKeys
      <4>1. v = IssuerNode(IssuerKey(e))
        BY <3>2
      <4> HIDE DEF v
      <4> QED
        BY <1>1, <3>2, <4>1
    <3>3. CASE IssuerKey(e) \notin IssuerKeys
      <4>1. v = BidNode(edges[e].bid)
        BY <3>3
      <4> HIDE DEF v
      <4>2. BidNode(edges[e].bid) = L + K + edges[e].bid
        BY <1>1, <3>1
      <4> QED
        BY <1>12, <3>1, <4>1, <4>2
    <3> QED
      BY <3>2, <3>3
  <2>4. PairArc(e).at = <<edges[e].lot, v>>
    BY DEF PairArc, ArcOf
  <2> HIDE DEF v
  <2>5. edges[e].lot \in Nat /\ edges[e].lot <= L
    BY <1>11, <2>1
  <2>6. /\ edges[e].lot \in Nat /\ edges[e].lot < v
        /\ EdgeCap(e) - st.preassign[e] \in Int /\ -edges[e].value \in Int
    BY <1>12, <2>2, <2>3, <2>5
  <2>7. PairArc(e) = [at |-> <<edges[e].lot, v>>, capacity |-> EdgeCap(e) - st.preassign[e],
                      cost |-> -edges[e].value]
    BY <2>4 DEF PairArc
  <2> QED
    BY <2>3, <2>6, <2>7, ArcMade
<1>5. ASSUME NEW key \in IssuerKeys PROVE ArcFacts(IssuerArc(key))
  <2>1. key[1] \in 1..B
    BY AllowedAre DEF B
  <2>2. key[1] \in Nat /\ 0 < key[1] /\ key[1] <= B /\ 0 \in Int
    BY <1>11, <2>1
  <2>6. BidNode(key[1]) = L + K + key[1]
    BY <1>1, <2>2
  <2>3. IssuerNode(key) \in Nat /\ IssuerNode(key) <= L + K
    BY <1>1
  <2>4. BidNode(key[1]) \in Nat /\ IssuerNode(key) < BidNode(key[1]) /\ BidNode(key[1]) <= SinkNode
    BY <1>12, <2>2, <2>3, <2>6
  <2>5. IssuerCapacity(key) \in Int
    BY CapsAre
  <2> QED
    BY <2>2, <2>3, <2>4, <2>5, ArcMade DEF IssuerArc
<1>6. ASSUME NEW j \in DOMAIN asked.bids PROVE ArcFacts(BidArc(j))
  <2>5. j \in 1..B
    BY <1>1
  <2>6. j \in Nat /\ 0 < j /\ j <= B
    BY <1>11, <2>5
  <2>1. j \in Nat /\ 0 < j /\ j <= B /\ 0 \in Int
    BY <2>6
  <2>4. BidNode(j) = L + K + j
    BY <1>1, <2>1
  <2>2. /\ BidNode(j) \in Nat /\ BidNode(j) < SinkNode /\ SinkNode \in Nat /\ SinkNode <= SinkNode
    BY <1>12, <2>1, <2>4
  <2>3. BidCapacity(j) \in Int
    BY CapsAre
  <2> QED
    BY <2>1, <2>2, <2>3, ArcMade DEF BidArc
<1>7. \A arc \in Arcs : ArcFacts(arc)
  BY <1>3, <1>4, <1>5, <1>6 DEF Arcs
<1> QED
  BY <1>1, <1>2, <1>7

\* What BuildNetwork builds is a network a flow can be found in.
LEMMA RelaxationIsNetwork ==
    ASSUME NodeInv
    PROVE  IsNetwork(Relaxation)
<1> DEFINE W == {arc \in Arcs : arc.capacity > 0}
           D == {arc.at : arc \in W}
<1>1. /\ Relaxation.sink = SinkNode
      /\ DOMAIN Relaxation.edges = D
      /\ \A at \in D : LET arc == CHOOSE k \in W : k.at = at
                       IN  Relaxation.edges[at] = [capacity |-> arc.capacity, cost |-> arc.cost]
  BY DEF Relaxation
<1>2. SinkNode \in Nat \ {0} /\ IsFiniteSet(Arcs) /\ \A arc \in Arcs : ArcFacts(arc)
  BY ArcsAre
<1>3. IsFiniteSet(D)
  <2> DEFINE f == [arc \in W |-> arc.at]
  <2>1. IsFiniteSet(W) /\ D = {f[arc] : arc \in W}
    BY <1>2, FS_Subset
  <2> HIDE DEF W, D, f
  <2> QED
    BY <2>1, ImageIsFinite
<1>4. ASSUME NEW at \in D
      PROVE  /\ at \in (0..SinkNode) \X (0..SinkNode) /\ at[1] < at[2]
             /\ Relaxation.edges[at].capacity \in Nat /\ Relaxation.edges[at].cost \in Int
  <2> DEFINE arc == CHOOSE k \in W : k.at = at
  <2>1. arc \in W /\ arc.at = at
    OBVIOUS
  <2>2. ArcFacts(arc) /\ arc.capacity > 0
    BY <1>2, <2>1
  <2>3. Relaxation.edges[at] = [capacity |-> arc.capacity, cost |-> arc.cost]
    BY <1>1
  <2> HIDE DEF arc
  <2>4. /\ at = <<at[1], at[2]>> /\ at[1] \in Nat /\ at[2] \in Nat /\ at[1] < at[2] /\ at[2] <= SinkNode
        /\ arc.capacity \in Int /\ arc.cost \in Int
    BY <2>1, <2>2 DEF ArcFacts
  <2>5. at[1] \in 0..SinkNode /\ at[2] \in 0..SinkNode
    BY <1>2, <2>4
  <2>6. Relaxation.edges[at].capacity = arc.capacity /\ Relaxation.edges[at].cost = arc.cost
    BY <2>3
  <2> QED
    BY <2>2, <2>4, <2>5, <2>6
<1> HIDE DEF D, W
<1> QED
  BY <1>1, <1>2, <1>3, <1>4 DEF IsNetwork

-----------------------------------------------------------------------------
(* Cuts *)
Entering(U) == {arc \in Edges : arc[1] \notin U /\ arc[2] \in U}
\* The arcs out of it.
Leaving(U) == {arc \in Edges : arc[1] \in U /\ arc[2] \notin U}

\* Between any two sets of nodes some flow runs, and the flow into a set is that of its parts.
LEMMA ThroughSplit ==
    ASSUME FlowInv, NEW A \in SUBSET Edges, NEW B \in SUBSET Edges, A \cap B = {}
    PROVE  /\ Through(A \cup B) = Through(A) + Through(B)
           /\ Through(A) \in Int /\ Through(B) \in Int
<1>1. IsFiniteSet(Edges) /\ flow \in [Edges -> Int]
  BY NodesAre DEF FlowInv
<1> DEFINE S == A \cup B
<1>2. IsFiniteSet(S) /\ Numbers(flow, S) /\ A \in SUBSET S /\ S \ A = B
  BY <1>1, FS_Subset DEF Numbers
<1> HIDE DEF S
<1>3. SumOf(flow, S) = SumOf(flow, A) + SumOf(flow, S \ A) /\ SumOf(flow, A) \in Int
      /\ SumOf(flow, S \ A) \in Int
  BY <1>2, SumOfTwo
<1> QED
  BY <1>2, <1>3 DEF S, Through

\* An arc is counted once on either side of a cut.
LEMMA Across ==
    ASSUME NEW a \in Int, NEW b \in Int, NEW c \in Int, NEW d \in Int, NEW e \in Int, NEW f \in Int,
           a + b = c + d, c + e = a + f
    PROVE  b + e = d + f
OBVIOUS

\* What enters a set of nodes between the source and the sink leaves it.
LEMMA CutBalances ==
    ASSUME FlowInv, NEW U \in SUBSET (Nodes \ {Source, Sink})
    PROVE  Through(Entering(U)) = Through(Leaving(U))
<1> DEFINE P == {s \in SUBSET U : Through(Entering(s)) = Through(Leaving(s))}
<1>1. {} \in P
  <2>1. Entering({}) = {} /\ Leaving({}) = {}
    BY DEF Entering, Leaving
  <2> QED
    BY <2>1
<1>2. ASSUME NEW s \in SUBSET U, s \in P, NEW v \in U \ s PROVE s \cup {v} \in P
  <2> DEFINE fromV == {arc \in Edges : arc[1] = v /\ arc[2] \in s}
             toS == {arc \in Edges : arc[1] \notin s \cup {v} /\ arc[2] \in s}
             toV == {arc \in Edges : arc[1] \in s /\ arc[2] = v}
             offS == {arc \in Edges : arc[1] \in s /\ arc[2] \notin s \cup {v}}
             intoV == {arc \in Edges : arc[1] \notin s \cup {v} /\ arc[2] = v}
             offV == {arc \in Edges : arc[1] = v /\ arc[2] \notin s \cup {v}}
  <2>1. /\ Entering(s) = fromV \cup toS /\ fromV \cap toS = {}
        /\ Leaving(s) = toV \cup offS /\ toV \cap offS = {}
        /\ Entering(s \cup {v}) = toS \cup intoV /\ toS \cap intoV = {}
        /\ Leaving(s \cup {v}) = offS \cup offV /\ offS \cap offV = {}
    BY DEF Entering, Leaving
  <2>2. \A arc \in Edges : arc[1] # arc[2]
    BY NodesAre DEF FlowInv
  <2>3. /\ Into(v) = toV \cup intoV /\ toV \cap intoV = {}
        /\ OutOf(v) = fromV \cup offV /\ fromV \cap offV = {}
    BY <2>2 DEF Into, OutOf
  <2>4. Through(Into(v)) = Through(OutOf(v))
    BY DEF FlowInv, FlowIsFeasible
  <2>5. /\ fromV \in SUBSET Edges /\ toS \in SUBSET Edges /\ toV \in SUBSET Edges
        /\ offS \in SUBSET Edges /\ intoV \in SUBSET Edges /\ offV \in SUBSET Edges
    OBVIOUS
  <2>6. Through(Entering(s)) = Through(Leaving(s))
    BY <1>2
  <2> HIDE DEF fromV, toS, toV, offS, intoV, offV, P
  <2>7. /\ Through(Entering(s)) = Through(fromV) + Through(toS)
        /\ Through(Leaving(s)) = Through(toV) + Through(offS)
        /\ Through(Entering(s \cup {v})) = Through(toS) + Through(intoV)
        /\ Through(Leaving(s \cup {v})) = Through(offS) + Through(offV)
    BY <2>1, <2>5, ThroughSplit
  <2>8. /\ Through(Into(v)) = Through(toV) + Through(intoV)
        /\ Through(OutOf(v)) = Through(fromV) + Through(offV)
    BY <2>3, <2>5, ThroughSplit
  <2>9. /\ Through(fromV) \in Int /\ Through(toS) \in Int /\ Through(toV) \in Int
        /\ Through(offS) \in Int /\ Through(intoV) \in Int /\ Through(offV) \in Int
    BY <2>1, <2>3, <2>5, ThroughSplit
  <2>10. Through(Entering(s \cup {v})) = Through(Leaving(s \cup {v}))
    <3>2. Through(fromV) + Through(toS) = Through(toV) + Through(offS)
      BY <2>6, <2>7
    <3>3. Through(toV) + Through(intoV) = Through(fromV) + Through(offV)
      BY <2>4, <2>8
    <3>4. Through(toS) + Through(intoV) = Through(offS) + Through(offV)
      BY <2>9, <3>2, <3>3, Across
    <3> QED
      BY <2>7, <3>4
  <2> QED
    BY <2>10 DEF P
<1>3. IsFiniteSet(U)
  BY NodesAre, FS_Subset DEF FlowInv
<1>4. U \in P
  <2> HIDE DEF P
  <2> QED
    BY <1>1, <1>2, <1>3, SetInduction
<1> QED
  BY <1>4

\* One arc carries what it has room for, and none carries nothing.
LEMMA OneArcCarries ==
    ASSUME FlowInv, NEW at, NEW A \in SUBSET {at}, NEW room \in Nat, A \in SUBSET Edges,
           at \in Edges => network.edges[at].capacity <= room
    PROVE  Through(A) \in Int /\ Through(A) <= room
<1>1. IsFiniteSet(A) /\ flow \in [Edges -> Int]
  BY NodesAre, FS_Subset DEF FlowInv
<1>2. CASE A = {}
  BY <1>2, SumOfNone DEF Through
<1>3. CASE A # {}
  <2>1. A = {at} /\ at \in Edges /\ flow[at] \in Int
    BY <1>1, <1>3
  <2>2. flow[at] <= network.edges[at].capacity /\ network.edges[at].capacity \in Int
    BY <2>1, NodesAre DEF FlowInv, FlowIsFeasible
  <2>3. SumOf(flow, A) = IF at \in A THEN flow[at] ELSE 0
    BY <1>1, <2>1, SumOfOne
  <2> QED
    BY <2>1, <2>2, <2>3 DEF Through
<1> QED
  BY <1>2, <1>3

\* Where every arc begins and ends, with L lots, K watched issuers and B bids.
EndsFacts(L, K, B) ==
    /\ L \in Nat /\ K \in Nat /\ B \in Nat /\ SinkNode = L + K + B + 1
    /\ \A i \in DOMAIN asked.lots : LotArc(i).at = <<0, i>> /\ i \in Nat /\ 0 < i /\ i <= L
    /\ \A e \in Allowed :
          /\ PairArc(e).at = ArcOf(e)
          /\ ArcOf(e)[1] = edges[e].lot /\ edges[e].lot \in Nat /\ 0 < edges[e].lot /\ edges[e].lot <= L
          /\ ArcOf(e)[2] \in Nat /\ L < ArcOf(e)[2]
          /\ edges[e].bid \in Nat /\ 0 < edges[e].bid /\ IssuerKey(e)[1] = edges[e].bid
          /\ IssuerKey(e) \in IssuerKeys =>
                ArcOf(e)[2] = IssuerNode(IssuerKey(e)) /\ ArcOf(e)[2] <= L + K
          /\ IssuerKey(e) \notin IssuerKeys => ArcOf(e)[2] = L + K + edges[e].bid
    /\ \A key \in IssuerKeys :
          /\ IssuerArc(key).at[1] = IssuerNode(key) /\ IssuerArc(key).at[2] = L + K + key[1]
          /\ IssuerNode(key) \in Nat /\ L < IssuerNode(key) /\ IssuerNode(key) <= L + K
          /\ key[1] \in Nat /\ 0 < key[1] /\ key[1] <= B
    /\ \A k, h \in IssuerKeys : IssuerNode(k) = IssuerNode(h) => k = h
    /\ \A j \in DOMAIN asked.bids :
          /\ BidArc(j).at[1] = L + K + j /\ BidArc(j).at[2] = SinkNode
          /\ j \in Nat /\ 0 < j /\ j <= B /\ BidNode(j) = L + K + j

\* The numbers BuildNetwork gives the nodes tell every arc from every other.
LEMMA EndsAre ==
    ASSUME NodeInv
    PROVE  EndsFacts(Len(asked.lots), Cardinality(IssuerKeys), Len(asked.bids))
<1>0. PairsInv /\ asked \in Batches
  BY DEF NodeInv, PairsInv
<1> DEFINE L == Len(asked.lots)
           B == Len(asked.bids)
           K == Cardinality(IssuerKeys)
<1>1. /\ L \in Nat /\ B \in Nat /\ K \in Nat
      /\ DOMAIN asked.lots = 1..L /\ DOMAIN asked.bids = 1..B
      /\ SinkNode = L + K + B + 1
      /\ \A j \in Nat : BidNode(j) = L + K + j
      /\ \A key \in IssuerKeys : IssuerNode(key) \in Nat /\ L < IssuerNode(key) /\ IssuerNode(key) <= L + K
      /\ \A k, h \in IssuerKeys : IssuerNode(k) = IssuerNode(h) => k = h
  BY <1>0, BatchIs, NumberingIs, AllowedAre
<1>2. \A e \in Allowed : edges[e].lot \in 1..L /\ edges[e].bid \in 1..B
  BY AllowedAre
<1>3. \A key \in IssuerKeys : key[1] \in 1..B
  BY AllowedAre
<1> HIDE DEF L, B, K
<1>11. /\ \A i \in 1..L : i \in Nat /\ 0 < i /\ i <= L
       /\ \A j \in 1..B : j \in Nat /\ 0 < j /\ j <= B
  OBVIOUS
<1>12. L \in Nat /\ B \in Nat /\ K \in Nat
  BY <1>1
<1>4. \A i \in DOMAIN asked.lots : LotArc(i).at = <<0, i>> /\ i \in Nat /\ 0 < i /\ i <= L
  BY <1>1, <1>11 DEF LotArc, Source
<1>5. ASSUME NEW e \in Allowed
      PROVE  /\ PairArc(e).at = ArcOf(e)
             /\ ArcOf(e)[1] = edges[e].lot /\ 0 < edges[e].lot /\ edges[e].lot <= L
             /\ edges[e].lot \in Nat /\ ArcOf(e)[2] \in Nat /\ L < ArcOf(e)[2]
             /\ edges[e].bid \in Nat /\ 0 < edges[e].bid /\ IssuerKey(e)[1] = edges[e].bid
             /\ IssuerKey(e) \in IssuerKeys => /\ ArcOf(e)[2] = IssuerNode(IssuerKey(e))
                                               /\ ArcOf(e)[2] <= L + K
             /\ IssuerKey(e) \notin IssuerKeys => ArcOf(e)[2] = L + K + edges[e].bid
  <2>1. PairArc(e).at = ArcOf(e) /\ ArcOf(e)[1] = edges[e].lot /\ IssuerKey(e)[1] = edges[e].bid
    BY DEF PairArc, ArcOf, IssuerKey
  <2>2. 0 < edges[e].lot /\ edges[e].lot <= L /\ edges[e].lot \in Nat
        /\ edges[e].bid \in Nat /\ 0 < edges[e].bid
    BY <1>2, <1>11
  <2>3. CASE IssuerKey(e) \in IssuerKeys
    <3>1. ArcOf(e)[2] = IssuerNode(IssuerKey(e))
      BY <2>3 DEF ArcOf
    <3>2. IssuerNode(IssuerKey(e)) \in Nat /\ IssuerNode(IssuerKey(e)) <= L + K
          /\ L < IssuerNode(IssuerKey(e))
      BY <1>1, <2>3
    <3> QED
      BY <2>1, <2>2, <2>3, <3>1, <3>2
  <2>4. CASE IssuerKey(e) \notin IssuerKeys
    <3>1. ArcOf(e)[2] = BidNode(edges[e].bid)
      BY <2>4 DEF ArcOf
    <3>2. BidNode(edges[e].bid) = L + K + edges[e].bid
      BY <1>1, <2>2
    <3>3. BidNode(edges[e].bid) \in Nat /\ L < BidNode(edges[e].bid)
      BY <1>12, <2>2, <3>2
    <3> QED
      BY <2>1, <2>2, <2>4, <3>1, <3>2, <3>3
  <2> QED
    BY <2>3, <2>4
<1>6. ASSUME NEW key \in IssuerKeys
      PROVE  /\ IssuerArc(key).at[1] = IssuerNode(key) /\ IssuerArc(key).at[2] = L + K + key[1]
             /\ IssuerNode(key) \in Nat /\ L < IssuerNode(key) /\ IssuerNode(key) <= L + K
             /\ key[1] \in Nat /\ 0 < key[1] /\ key[1] <= B
  <2>1. key[1] \in Nat /\ 0 < key[1] /\ key[1] <= B
    BY <1>3, <1>11
  <2>2. BidNode(key[1]) = L + K + key[1]
    BY <1>1, <2>1
  <2>3. IssuerNode(key) \in Nat /\ L < IssuerNode(key) /\ IssuerNode(key) <= L + K
    BY <1>1
  <2> QED
    BY <2>1, <2>2, <2>3 DEF IssuerArc
<1>7. ASSUME NEW j \in DOMAIN asked.bids
      PROVE  /\ BidArc(j).at[1] = L + K + j /\ BidArc(j).at[2] = SinkNode
             /\ j \in Nat /\ 0 < j /\ j <= B /\ BidNode(j) = L + K + j
  <2>1. j \in Nat /\ 0 < j /\ j <= B
    BY <1>1, <1>11
  <2>2. BidNode(j) = L + K + j
    BY <1>1, <2>1
  <2> QED
    BY <2>1, <2>2 DEF BidArc
<1>8. SinkNode = L + K + B + 1 /\ \A k, h \in IssuerKeys : IssuerNode(k) = IssuerNode(h) => k = h
  BY <1>1
<1>9. EndsFacts(L, K, B)
  BY <1>12, <1>4, <1>5, <1>6, <1>7, <1>8 DEF EndsFacts
<1> QED
  BY <1>9 DEF L, K, B

\* The arcs of the network are those with room, each with what its arc says.
LEMMA ArcsUnique ==
    ASSUME NodeInv
    PROVE  /\ \A a, b \in Arcs : a.at = b.at => a = b
           /\ \A e, d \in Allowed : ArcOf(e) = ArcOf(d) => e = d
<1> DEFINE L == Len(asked.lots)
           B == Len(asked.bids)
           K == Cardinality(IssuerKeys)
<1>1. EndsFacts(L, K, B)
  BY EndsAre
<1>2. PairsInv
  BY DEF NodeInv
<1> HIDE DEF L, B, K
<1>12. L \in Nat /\ B \in Nat /\ K \in Nat
  BY <1>1 DEF EndsFacts
<1>3. \A k, h \in IssuerKeys : IssuerNode(k) = IssuerNode(h) => k = h
  BY <1>1 DEF EndsFacts
<1>4. \A i \in DOMAIN asked.lots : LotArc(i).at[1] = 0 /\ LotArc(i).at[2] = i
  BY <1>1 DEF EndsFacts
<1>5. ASSUME NEW e \in Allowed
      PROVE  /\ PairArc(e).at[1] = edges[e].lot /\ 0 < edges[e].lot /\ edges[e].lot <= L
             /\ edges[e].lot \in Nat /\ PairArc(e).at[2] \in Nat
             /\ IssuerKey(e) \in IssuerKeys => /\ PairArc(e).at[2] = IssuerNode(IssuerKey(e))
                                               /\ PairArc(e).at[2] <= L + K
             /\ IssuerKey(e) \notin IssuerKeys => /\ PairArc(e).at[2] = L + K + edges[e].bid
                                                  /\ edges[e].bid \in Nat /\ 0 < edges[e].bid
  BY <1>1 DEF EndsFacts
<1>6. ASSUME NEW key \in IssuerKeys
      PROVE  /\ IssuerArc(key).at[1] = IssuerNode(key) /\ IssuerNode(key) \in Nat
             /\ L < IssuerNode(key) /\ IssuerNode(key) <= L + K
  BY <1>1 DEF EndsFacts
<1>7. ASSUME NEW j \in DOMAIN asked.bids
      PROVE  BidArc(j).at[1] = L + K + j /\ j \in Nat /\ 0 < j
  BY <1>1 DEF EndsFacts
<1>8. ASSUME NEW i \in DOMAIN asked.lots, NEW b \in Arcs, LotArc(i).at = b.at PROVE LotArc(i) = b
  <2>1. b.at[1] = 0 /\ b.at[2] = i
    BY <1>4, <1>8
  <2>2. \A e \in Allowed : b # PairArc(e)
    BY <1>5, <2>1
  <2>3. \A key \in IssuerKeys : b # IssuerArc(key)
    BY <1>6, <1>12, <2>1
  <2>4. \A j \in DOMAIN asked.bids : b # BidArc(j)
    BY <1>7, <1>12, <2>1
  <2>5. PICK h \in DOMAIN asked.lots : b = LotArc(h)
    BY <2>2, <2>3, <2>4 DEF Arcs
  <2> QED
    BY <1>4, <2>1, <2>5
<1>9. ASSUME NEW e \in Allowed, NEW d \in Allowed, PairArc(e).at = PairArc(d).at PROVE e = d
  <2>1. edges[e].lot = edges[d].lot /\ PairArc(e).at[2] = PairArc(d).at[2]
    BY <1>5, <1>9
  <2>2. edges[e].bid = edges[d].bid
    <3>1. CASE IssuerKey(e) \in IssuerKeys /\ IssuerKey(d) \in IssuerKeys
      <4>1. IssuerKey(e) = IssuerKey(d)
        <5>1. IssuerNode(IssuerKey(e)) = IssuerNode(IssuerKey(d))
          BY <1>5, <2>1, <3>1
        <5> QED
          BY <1>3, <3>1, <5>1
      <4> QED
        BY <4>1 DEF IssuerKey
    <3>2. CASE IssuerKey(e) \in IssuerKeys /\ IssuerKey(d) \notin IssuerKeys
      BY <1>5, <1>12, <2>1, <3>2
    <3>3. CASE IssuerKey(e) \notin IssuerKeys /\ IssuerKey(d) \in IssuerKeys
      BY <1>5, <1>12, <2>1, <3>3
    <3>4. CASE IssuerKey(e) \notin IssuerKeys /\ IssuerKey(d) \notin IssuerKeys
      BY <1>5, <1>12, <2>1, <3>4
    <3> QED
      BY <3>1, <3>2, <3>3, <3>4
  <2>3. e \in Ids /\ d \in Ids
    BY AllowedAre
  <2> QED
    BY <1>2, <2>1, <2>2, <2>3, IdsAre
<1>10. ASSUME NEW e \in Allowed, NEW b \in Arcs, PairArc(e).at = b.at PROVE PairArc(e) = b
  <2>1. b.at[1] = edges[e].lot /\ 0 < edges[e].lot /\ edges[e].lot <= L /\ edges[e].lot \in Nat
    BY <1>5, <1>10
  <2>2. \A i \in DOMAIN asked.lots : b # LotArc(i)
    BY <1>4, <2>1
  <2>3. \A key \in IssuerKeys : b # IssuerArc(key)
    BY <1>6, <1>12, <2>1
  <2>4. \A j \in DOMAIN asked.bids : b # BidArc(j)
    BY <1>7, <1>12, <2>1
  <2>5. PICK d \in Allowed : b = PairArc(d)
    BY <2>2, <2>3, <2>4 DEF Arcs
  <2> QED
    BY <1>9, <1>10, <2>5
<1>13. ASSUME NEW key \in IssuerKeys, NEW b \in Arcs, IssuerArc(key).at = b.at PROVE IssuerArc(key) = b
  <2>1. b.at[1] = IssuerNode(key) /\ IssuerNode(key) \in Nat /\ L < IssuerNode(key) /\ IssuerNode(key) <= L + K
    BY <1>6, <1>13
  <2>2. \A i \in DOMAIN asked.lots : b # LotArc(i)
    BY <1>4, <1>12, <2>1
  <2>3. \A e \in Allowed : b # PairArc(e)
    BY <1>5, <1>12, <2>1
  <2>4. \A j \in DOMAIN asked.bids : b # BidArc(j)
    BY <1>7, <1>12, <2>1
  <2>5. PICK h \in IssuerKeys : b = IssuerArc(h)
    BY <2>2, <2>3, <2>4 DEF Arcs
  <2>6. IssuerNode(h) = IssuerNode(key)
    BY <1>6, <2>1, <2>5
  <2> QED
    BY <1>3, <2>5, <2>6
<1>14. ASSUME NEW j \in DOMAIN asked.bids, NEW b \in Arcs, BidArc(j).at = b.at PROVE BidArc(j) = b
  <2>1. b.at[1] = L + K + j /\ j \in Nat /\ 0 < j
    BY <1>7, <1>14
  <2>2. \A i \in DOMAIN asked.lots : b # LotArc(i)
    BY <1>4, <1>12, <2>1
  <2>3. \A e \in Allowed : b # PairArc(e)
    BY <1>5, <1>12, <2>1
  <2>4. \A key \in IssuerKeys : b # IssuerArc(key)
    BY <1>6, <1>12, <2>1
  <2>5. PICK h \in DOMAIN asked.bids : b = BidArc(h)
    BY <2>2, <2>3, <2>4 DEF Arcs
  <2>6. h = j
    BY <1>7, <1>12, <2>1, <2>5
  <2> QED
    BY <2>5, <2>6
<1>15. ASSUME NEW a \in Arcs, NEW b \in Arcs, a.at = b.at PROVE a = b
  BY <1>8, <1>10, <1>13, <1>14, <1>15 DEF Arcs
<1>16. ASSUME NEW e \in Allowed, NEW d \in Allowed, ArcOf(e) = ArcOf(d) PROVE e = d
  <2>1. PairArc(e).at = ArcOf(e) /\ PairArc(d).at = ArcOf(d)
    BY DEF PairArc
  <2> QED
    BY <1>9, <1>16, <2>1
<1> QED
  BY <1>15, <1>16

\* An arc is in the network when it has room, with the room it has.
LEMMA RelaxationHas ==
    ASSUME NodeInv
    PROVE  /\ Relaxation.sink = SinkNode
           /\ \A arc \in Arcs : /\ arc.at \in DOMAIN Relaxation.edges <=> arc.capacity > 0
                                /\ arc.at \in DOMAIN Relaxation.edges =>
                                     Relaxation.edges[arc.at].capacity = arc.capacity
           /\ \A at \in DOMAIN Relaxation.edges : \E arc \in Arcs : arc.at = at
<1> DEFINE W == {arc \in Arcs : arc.capacity > 0}
           D == {arc.at : arc \in W}
<1>1. /\ Relaxation.sink = SinkNode
      /\ DOMAIN Relaxation.edges = D
      /\ \A at \in D : LET arc == CHOOSE k \in W : k.at = at
                       IN  Relaxation.edges[at] = [capacity |-> arc.capacity, cost |-> arc.cost]
  BY DEF Relaxation
<1>2. ASSUME NEW arc \in Arcs
      PROVE  /\ arc.at \in D <=> arc.capacity > 0
             /\ arc.at \in D => Relaxation.edges[arc.at].capacity = arc.capacity
  <2>1. arc.at \in D <=> arc.capacity > 0
    BY ArcsUnique
  <2>2. ASSUME arc.at \in D PROVE Relaxation.edges[arc.at].capacity = arc.capacity
    <3> DEFINE same == CHOOSE k \in W : k.at = arc.at
    <3>1. same \in W /\ same.at = arc.at
      BY <2>2
    <3>2. same = arc
      BY <3>1, ArcsUnique
    <3>3. Relaxation.edges[arc.at] = [capacity |-> same.capacity, cost |-> same.cost]
      BY <1>1, <2>2
    <3> HIDE DEF same
    <3> QED
      BY <3>2, <3>3
  <2> QED
    BY <2>1, <2>2
<1>3. \A at \in D : \E arc \in Arcs : arc.at = at
  OBVIOUS
<1> HIDE DEF D, W
<1> QED
  BY <1>1, <1>2, <1>3

\* What the network gives a pair.
Carried(e) == IF ArcOf(e) \in Edges THEN flow[ArcOf(e)] ELSE 0
\* The same for every pair.
Carries == [e \in Ids |-> Carried(e)]
\* The arcs of a set of pairs that are in the network.
ArcsOf(A) == {ArcOf(e) : e \in A} \cap Edges

\* While a flow is being found, the network is the one of the node of the search.
SolveInv == NodeInv /\ FlowInv /\ network = Relaxation /\ Committable

\* An arc of the network has the capacity it was built with.
LEMMA NetworkHas ==
    ASSUME SolveInv
    PROVE  /\ Sink = SinkNode
           /\ \A at \in Edges : \E arc \in Arcs : arc.at = at
           /\ \A arc \in Arcs : arc.at \in Edges =>
                 network.edges[arc.at].capacity = arc.capacity /\ arc.capacity \in Nat
<1>1. /\ Sink = Relaxation.sink /\ Edges = DOMAIN Relaxation.edges
      /\ network.edges = Relaxation.edges /\ NodeInv
  BY DEF SolveInv, Sink, Edges
<1>2. \A arc \in Arcs : arc.at \in Edges => arc.capacity > 0 /\ arc.capacity \in Int
  BY <1>1, RelaxationHas, ArcsAre DEF ArcFacts
<1> QED
  BY <1>1, <1>2, RelaxationHas

\* A cut that one arc closes bounds what the pairs that cross it get.
LEMMA Gathered ==
    ASSUME SolveInv, NEW A \in SUBSET Allowed, NEW U \in SUBSET (Nodes \ {Source, Sink}),
           NEW arc \in Arcs, arc.capacity \in Nat,
           \/ Entering(U) = ArcsOf(A) /\ Leaving(U) \in SUBSET {arc.at}
           \/ Leaving(U) = ArcsOf(A) /\ Entering(U) \in SUBSET {arc.at}
    PROVE  SumOf(Carries, A) \in Nat /\ SumOf(Carries, A) <= arc.capacity
<1>1. NodeInv /\ FlowInv /\ Allowed \in SUBSET Ids /\ IsFiniteSet(Allowed)
  BY AllowedAre DEF SolveInv
<1>2. IsFiniteSet(A) /\ A \in SUBSET Ids
  BY <1>1, FS_Subset
<1>3. IsFiniteSet(Edges) /\ \A at \in Edges : flow[at] \in Nat /\ network.edges[at].capacity \in Nat
  BY <1>1, NodesAre DEF FlowInv, FlowIsFeasible
<1>4. Through(Entering(U)) = Through(Leaving(U))
  BY <1>1, CutBalances
<1>5. Through(ArcsOf(A)) <= arc.capacity
  <2> DEFINE C == IF Entering(U) = ArcsOf(A) THEN Leaving(U) ELSE Entering(U)
  <2>1. C \in SUBSET {arc.at} /\ C \in SUBSET Edges /\ Through(ArcsOf(A)) = Through(C)
    BY <1>4 DEF Entering, Leaving
  <2>2. arc.at \in Edges => network.edges[arc.at].capacity <= arc.capacity
    BY <1>3, NetworkHas
  <2> HIDE DEF C
  <2>3. Through(C) <= arc.capacity
    BY <1>1, <2>1, <2>2, OneArcCarries
  <2> QED
    BY <2>1, <2>3
<1>6. \A e \in A : Carries[e] \in Nat
  BY <1>2, <1>3 DEF Carries, Carried
<1>7. SumOf(Carries, A) \in Nat
  BY <1>2, <1>6, SumIsNat
<1>8. SumOf(Carries, A) = Through(ArcsOf(A))
  <2> DEFINE all == {ArcOf(e) : e \in A}
             y == [at \in all |-> IF at \in Edges THEN flow[at] ELSE 0]
             name == [e \in A |-> ArcOf(e)]
  <2>1. Numbers(Carries, A) /\ \A e \in A : Carries[e] = y[name[e]]
    BY <1>2, <1>6 DEF Numbers, Carries, Carried
  <2>2. \A d, e \in A : name[d] = name[e] => d = e
    BY <1>1, ArcsUnique
  <2>3. all = {name[e] : e \in A} /\ ArcsOf(A) = all \cap Edges
    BY DEF ArcsOf
  <2>4. /\ \A at \in all \cap Edges : y[at] = flow[at]
        /\ \A at \in all \ (all \cap Edges) : y[at] = 0
        /\ Numbers(y, all)
    BY <1>3 DEF Numbers
  <2> HIDE DEF all, y, name
  <2>5. IsFiniteSet(all)
    BY <1>2, <2>3, ImageIsFinite
  <2>6. SumOf(Carries, A) = SumOf(y, {name[e] : e \in A})
    BY <1>2, <2>1, <2>2, SumRenamed
  <2>7. SumOf(y, all) = SumOf(y, all \cap Edges)
    BY <2>4, <2>5, SumOfOthers
  <2>8. SumOf(y, all \cap Edges) = SumOf(flow, all \cap Edges)
    <3>1. IsFiniteSet(all \cap Edges) /\ Numbers(y, all \cap Edges)
      BY <2>4, <2>5, FS_Subset DEF Numbers
    <3> QED
      BY <2>4, <3>1, SumOfSame
  <2> QED
    BY <2>3, <2>6, <2>7, <2>8 DEF Through
<1> QED
  BY <1>5, <1>7, <1>8

\* A lot sells, a bid spends and an issuer gets what their nodes have room for.
LEMMA LotCarries ==
    ASSUME SolveInv, NEW i \in DOMAIN asked.lots
    PROVE  SumOf(Carries, OfLot(i) \cap Allowed) \in Nat
           /\ SumOf(Carries, OfLot(i) \cap Allowed) <= LotCapacity(i)
<1> DEFINE L == Len(asked.lots)
           K == Cardinality(IssuerKeys)
           B == Len(asked.bids)
           A == OfLot(i) \cap Allowed
           U == {i}
<1>1. NodeInv
  BY DEF SolveInv
<1>2. EndsFacts(L, K, B)
  BY <1>1, EndsAre
<1> HIDE DEF L, K, B
<1>3. L \in Nat /\ K \in Nat /\ B \in Nat /\ Sink = L + K + B + 1 /\ i \in Nat /\ 0 < i /\ i <= L
  BY <1>2, NetworkHas DEF EndsFacts
<1>4. U \in SUBSET (Nodes \ {Source, Sink})
  BY <1>3 DEF Nodes, Source
<1>5. LotArc(i) \in Arcs /\ LotArc(i).capacity = LotCapacity(i)
  BY DEF Arcs, LotArc
<1>6. LotCapacity(i) \in Nat
  BY <1>1, CapsAre DEF SolveInv, Committable
<1>7. \A at \in Edges : \E arc \in Arcs : arc.at = at
  BY NetworkHas
<1>8. ASSUME NEW at \in Edges, at[1] = i PROVE \E e \in A : at = ArcOf(e)
  <2>1. PICK arc \in Arcs : arc.at = at
    BY <1>7
  <2>2. \A h \in DOMAIN asked.lots : LotArc(h).at[1] = 0
    BY <1>2 DEF EndsFacts
  <2>3. \A key \in IssuerKeys : IssuerArc(key).at[1] \in Nat /\ L < IssuerArc(key).at[1]
    BY <1>2 DEF EndsFacts
  <2>4. \A j \in DOMAIN asked.bids : BidArc(j).at[1] \in Nat /\ L < BidArc(j).at[1]
    BY <1>2, <1>3 DEF EndsFacts
  <2>5. PICK e \in Allowed : arc = PairArc(e)
    BY <1>3, <1>8, <2>1, <2>2, <2>3, <2>4 DEF Arcs
  <2>6. at = ArcOf(e) /\ edges[e].lot = i
    BY <1>2, <1>8, <2>1, <2>5 DEF EndsFacts
  <2>7. e \in Ids
    BY DEF Allowed
  <2> QED
    BY <2>6, <2>7 DEF OfLot
<1>9. ASSUME NEW at \in Edges, at[2] = i PROVE at = LotArc(i).at
  <2>1. PICK arc \in Arcs : arc.at = at
    BY <1>7
  <2>2. \A e \in Allowed : PairArc(e).at[2] \in Nat /\ L < PairArc(e).at[2]
    BY <1>2 DEF EndsFacts
  <2>3. \A key \in IssuerKeys : IssuerArc(key).at[2] \in Nat /\ L < IssuerArc(key).at[2]
    BY <1>2, <1>3 DEF EndsFacts
  <2>4. \A j \in DOMAIN asked.bids : BidArc(j).at[2] \in Nat /\ L < BidArc(j).at[2]
    BY <1>2, <1>3 DEF EndsFacts
  <2>5. PICK h \in DOMAIN asked.lots : arc = LotArc(h)
    BY <1>3, <1>9, <2>1, <2>2, <2>3, <2>4 DEF Arcs
  <2>6. LotArc(h).at = <<0, h>>
    BY <1>2 DEF EndsFacts
  <2>7. h = i
    BY <1>9, <2>1, <2>5, <2>6
  <2> QED
    BY <2>1, <2>5, <2>7
<1>10. \A e \in A : ArcOf(e)[1] = i /\ ArcOf(e)[2] # i
  BY <1>2, <1>3 DEF EndsFacts, OfLot
<1>11. Leaving(U) = ArcsOf(A)
  <2> HIDE DEF A
  <2>1. ASSUME NEW at \in Leaving(U) PROVE at \in ArcsOf(A)
    <3>1. at \in Edges /\ at[1] = i
      BY DEF Leaving
    <3> QED
      BY <1>8, <3>1 DEF ArcsOf
  <2>2. ASSUME NEW at \in ArcsOf(A) PROVE at \in Leaving(U)
    BY <1>10 DEF ArcsOf, Leaving
  <2> QED
    BY <2>1, <2>2
<1>12. Entering(U) \in SUBSET {LotArc(i).at}
  BY <1>9 DEF Entering
<1>13. A \in SUBSET Allowed
  OBVIOUS
<1> HIDE DEF A, U
<1> QED
  BY <1>4, <1>5, <1>6, <1>11, <1>12, <1>13, Gathered DEF A

\* A bid spends on one issuer what the issuer's node has room for.
LEMMA IssuerCarries ==
    ASSUME SolveInv, NEW key \in IssuerKeys
    PROVE  SumOf(Carries, OfIssuer(key)) \in Nat
           /\ SumOf(Carries, OfIssuer(key)) <= IssuerCapacity(key)
<1> DEFINE L == Len(asked.lots)
           K == Cardinality(IssuerKeys)
           B == Len(asked.bids)
           A == OfIssuer(key)
           n == IssuerNode(key)
           U == {n}
<1>1. NodeInv
  BY DEF SolveInv
<1>2. EndsFacts(L, K, B)
  BY <1>1, EndsAre
<1> HIDE DEF L, K, B
<1>3. L \in Nat /\ K \in Nat /\ B \in Nat /\ Sink = L + K + B + 1 /\ n \in Nat /\ L < n /\ n <= L + K
  BY <1>2, NetworkHas DEF EndsFacts
<1>4. U \in SUBSET (Nodes \ {Source, Sink})
  BY <1>3 DEF Nodes, Source
<1>5. IssuerArc(key) \in Arcs /\ IssuerArc(key).capacity = IssuerCapacity(key)
  BY DEF Arcs, IssuerArc
<1>6. IssuerCapacity(key) \in Nat
  BY <1>1, CapsAre DEF SolveInv, Committable
<1>7. \A at \in Edges : \E arc \in Arcs : arc.at = at
  BY NetworkHas
<1>8. ASSUME NEW at \in Edges, at[2] = n PROVE \E e \in A : at = ArcOf(e)
  <2>1. PICK arc \in Arcs : arc.at = at
    BY <1>7
  <2>2. \A h \in DOMAIN asked.lots : LotArc(h).at[2] \in Nat /\ LotArc(h).at[2] <= L
    BY <1>2 DEF EndsFacts
  <2>3. \A k \in IssuerKeys : IssuerArc(k).at[2] \in Nat /\ L + K < IssuerArc(k).at[2]
    BY <1>2, <1>3 DEF EndsFacts
  <2>4. \A j \in DOMAIN asked.bids : BidArc(j).at[2] = Sink
    BY <1>2, NetworkHas DEF EndsFacts
  <2>5. PICK e \in Allowed : arc = PairArc(e)
    BY <1>3, <1>8, <2>1, <2>2, <2>3, <2>4 DEF Arcs
  <2>6. at = ArcOf(e) /\ ArcOf(e)[2] = n
    BY <1>2, <1>8, <2>1, <2>5 DEF EndsFacts
  <2>7. IssuerKey(e) \in IssuerKeys
    <3>1. IssuerKey(e) \notin IssuerKeys =>
             ArcOf(e)[2] = L + K + edges[e].bid /\ edges[e].bid \in Nat /\ 0 < edges[e].bid
      BY <1>2 DEF EndsFacts
    <3> QED
      BY <1>3, <2>6, <3>1
  <2>8. IssuerKey(e) = key
    BY <1>2, <2>6, <2>7 DEF EndsFacts
  <2> QED
    BY <2>6, <2>8 DEF OfIssuer
<1>9. ASSUME NEW at \in Edges, at[1] = n PROVE at = IssuerArc(key).at
  <2>1. PICK arc \in Arcs : arc.at = at
    BY <1>7
  <2>2. \A h \in DOMAIN asked.lots : LotArc(h).at[1] = 0
    BY <1>2 DEF EndsFacts
  <2>3. \A e \in Allowed : PairArc(e).at[1] \in Nat /\ PairArc(e).at[1] <= L
    BY <1>2 DEF EndsFacts
  <2>4. \A j \in DOMAIN asked.bids : BidArc(j).at[1] \in Nat /\ L + K < BidArc(j).at[1]
    BY <1>2, <1>3 DEF EndsFacts
  <2>5. PICK k \in IssuerKeys : arc = IssuerArc(k)
    BY <1>3, <1>9, <2>1, <2>2, <2>3, <2>4 DEF Arcs
  <2>6. IssuerNode(k) = IssuerNode(key)
    BY <1>2, <1>9, <2>1, <2>5 DEF EndsFacts
  <2>7. k = key
    BY <1>2, <2>6 DEF EndsFacts
  <2> QED
    BY <2>1, <2>5, <2>7
<1>10. \A e \in A : ArcOf(e)[2] = n /\ ArcOf(e)[1] # n
  <2> TAKE e \in A
  <2>1. e \in Allowed /\ IssuerKey(e) = key
    BY DEF OfIssuer
  <2>2. ArcOf(e)[2] = n /\ ArcOf(e)[1] \in Nat /\ ArcOf(e)[1] <= L
    BY <1>2, <2>1 DEF EndsFacts
  <2> QED
    BY <1>3, <2>2
<1>11. Entering(U) = ArcsOf(A)
  <2> HIDE DEF A, n
  <2>1. ASSUME NEW at \in Entering(U) PROVE at \in ArcsOf(A)
    <3>1. at \in Edges /\ at[2] = n
      BY DEF Entering
    <3> QED
      BY <1>8, <3>1 DEF ArcsOf
  <2>2. ASSUME NEW at \in ArcsOf(A) PROVE at \in Entering(U)
    BY <1>10 DEF ArcsOf, Entering
  <2> QED
    BY <2>1, <2>2
<1>12. Leaving(U) \in SUBSET {IssuerArc(key).at}
  BY <1>9 DEF Leaving
<1>13. A \in SUBSET Allowed
  BY DEF OfIssuer
<1> HIDE DEF A, U
<1> QED
  BY <1>4, <1>5, <1>6, <1>11, <1>12, <1>13, Gathered DEF A

\* A bid spends what is left of its budget.
LEMMA BidCarries ==
    ASSUME SolveInv, NEW j \in DOMAIN asked.bids
    PROVE  SumOf(Carries, OfBid(j) \cap Allowed) \in Nat
           /\ SumOf(Carries, OfBid(j) \cap Allowed) <= BidCapacity(j)
<1> DEFINE L == Len(asked.lots)
           K == Cardinality(IssuerKeys)
           B == Len(asked.bids)
           A == OfBid(j) \cap Allowed
           keys == {key \in IssuerKeys : key[1] = j}
           U == {L + K + j} \cup {IssuerNode(key) : key \in keys}
<1>1. NodeInv
  BY DEF SolveInv
<1>2. EndsFacts(L, K, B)
  BY <1>1, EndsAre
<1> HIDE DEF L, K, B
<1>3. L \in Nat /\ K \in Nat /\ B \in Nat /\ Sink = L + K + B + 1 /\ j \in Nat /\ 0 < j /\ j <= B
  BY <1>2, NetworkHas DEF EndsFacts
<1>14. \A key \in IssuerKeys : IssuerNode(key) \in Nat /\ L < IssuerNode(key) /\ IssuerNode(key) <= L + K
  BY <1>2 DEF EndsFacts
<1>15. \A u \in U : u \in Nat /\ L < u /\ u < Sink
  BY <1>3, <1>14
<1>16. \A key \in IssuerKeys : IssuerNode(key) \in U => key[1] = j
  <2> TAKE key \in IssuerKeys
  <2> HAVE IssuerNode(key) \in U
  <2>1. IssuerNode(key) # L + K + j
    BY <1>3, <1>14
  <2>2. PICK k \in keys : IssuerNode(key) = IssuerNode(k)
    BY <2>1
  <2> QED
    BY <1>2, <2>2 DEF EndsFacts
<1>17. \A h \in Nat : 0 < h /\ L + K + h \in U => h = j
  <2> TAKE h \in Nat
  <2> HAVE 0 < h /\ L + K + h \in U
  <2>1. \A key \in keys : IssuerNode(key) # L + K + h
    BY <1>3, <1>14
  <2>2. L + K + h = L + K + j
    BY <2>1
  <2> QED
    BY <1>3, <2>2
<1>18. L + K + j \in U /\ \A key \in IssuerKeys : key[1] = j => IssuerNode(key) \in U
  OBVIOUS
<1> HIDE DEF keys, U
<1>4. U \in SUBSET (Nodes \ {Source, Sink})
  <2> SUFFICES ASSUME NEW u \in U PROVE u \in Nodes \ {Source, Sink}
    OBVIOUS
  <2>1. u \in Nat /\ L < u /\ u < Sink
    BY <1>15
  <2> QED
    BY <1>3, <2>1 DEF Nodes, Source
<1>5. BidArc(j) \in Arcs /\ BidArc(j).capacity = BidCapacity(j)
  BY DEF Arcs, BidArc
<1>6. BidCapacity(j) \in Nat
  BY <1>1, CapsAre DEF SolveInv, Committable
<1>7. \A at \in Edges : \E arc \in Arcs : arc.at = at
  BY NetworkHas
<1>8. ASSUME NEW at \in Edges, at[2] \in U, at[1] \notin U PROVE \E e \in A : at = ArcOf(e)
  <2>1. PICK arc \in Arcs : arc.at = at
    BY <1>7
  <2>0. at[2] \in Nat /\ L < at[2] /\ at[2] < Sink
    BY <1>8, <1>15
  <2>2. \A h \in DOMAIN asked.lots : LotArc(h).at[2] \in Nat /\ LotArc(h).at[2] <= L
    BY <1>2 DEF EndsFacts
  <2>3. ASSUME NEW k \in IssuerKeys, arc = IssuerArc(k) PROVE FALSE
    <3>1. at[1] = IssuerNode(k) /\ at[2] = L + K + k[1] /\ k[1] \in Nat /\ 0 < k[1]
      BY <1>2, <2>1, <2>3 DEF EndsFacts
    <3>2. k[1] = j
      BY <1>8, <1>17, <3>1
    <3> QED
      BY <1>8, <1>18, <3>1, <3>2
  <2>4. \A h \in DOMAIN asked.bids : BidArc(h).at[2] = Sink
    BY <1>2, NetworkHas DEF EndsFacts
  <2>5. PICK e \in Allowed : arc = PairArc(e)
    BY <1>3, <2>0, <2>1, <2>2, <2>3, <2>4 DEF Arcs
  <2>6. at = ArcOf(e)
    BY <1>2, <2>1, <2>5 DEF EndsFacts
  <2>7. edges[e].bid = j
    <3>0. IssuerKey(e)[1] = edges[e].bid /\ edges[e].bid \in Nat /\ 0 < edges[e].bid
      BY <1>2 DEF EndsFacts
    <3>1. CASE IssuerKey(e) \notin IssuerKeys
      <4>1. ArcOf(e)[2] = L + K + edges[e].bid
        BY <1>2, <3>1 DEF EndsFacts
      <4> QED
        BY <1>8, <1>17, <2>6, <3>0, <4>1
    <3>2. CASE IssuerKey(e) \in IssuerKeys
      <4>1. ArcOf(e)[2] = IssuerNode(IssuerKey(e))
        BY <1>2, <3>2 DEF EndsFacts
      <4> QED
        BY <1>8, <1>16, <2>6, <3>0, <3>2, <4>1
    <3> QED
      BY <3>1, <3>2
  <2>8. e \in Ids
    BY DEF Allowed
  <2> QED
    BY <2>6, <2>7, <2>8 DEF OfBid
<1>9. ASSUME NEW at \in Edges, at[1] \in U, at[2] \notin U PROVE at = BidArc(j).at
  <2>1. PICK arc \in Arcs : arc.at = at
    BY <1>7
  <2>0. at[1] \in Nat /\ L < at[1] /\ at[1] < Sink
    BY <1>9, <1>15
  <2>2. \A h \in DOMAIN asked.lots : LotArc(h).at[1] = 0
    BY <1>2 DEF EndsFacts
  <2>3. \A e \in Allowed : PairArc(e).at[1] \in Nat /\ PairArc(e).at[1] <= L
    BY <1>2 DEF EndsFacts
  <2>4. ASSUME NEW k \in IssuerKeys, arc = IssuerArc(k) PROVE FALSE
    <3>1. at[1] = IssuerNode(k) /\ at[2] = L + K + k[1]
      BY <1>2, <2>1, <2>4 DEF EndsFacts
    <3>2. k[1] = j
      BY <1>9, <1>16, <3>1
    <3> QED
      BY <1>9, <1>18, <3>1, <3>2
  <2>5. PICK h \in DOMAIN asked.bids : arc = BidArc(h)
    BY <1>3, <2>0, <2>1, <2>2, <2>3, <2>4 DEF Arcs
  <2>6. BidArc(h).at[1] = L + K + h /\ h \in Nat /\ 0 < h
    BY <1>2 DEF EndsFacts
  <2>7. h = j
    BY <1>9, <1>17, <2>1, <2>5, <2>6
  <2> QED
    BY <2>1, <2>5, <2>7
<1>10. \A e \in A : ArcOf(e)[2] \in U /\ ArcOf(e)[1] \notin U
  <2> TAKE e \in A
  <2>1. e \in Allowed /\ edges[e].bid = j
    BY DEF OfBid
  <2>2. /\ ArcOf(e)[1] \in Nat /\ ArcOf(e)[1] <= L /\ IssuerKey(e)[1] = j
        /\ IssuerKey(e) \in IssuerKeys => ArcOf(e)[2] = IssuerNode(IssuerKey(e))
        /\ IssuerKey(e) \notin IssuerKeys => ArcOf(e)[2] = L + K + j
    BY <1>2, <2>1 DEF EndsFacts
  <2>3. ArcOf(e)[1] \notin U
    <3> SUFFICES ASSUME ArcOf(e)[1] \in U PROVE FALSE
      OBVIOUS
    <3>1. L < ArcOf(e)[1]
      BY <1>15
    <3> QED
      BY <1>3, <2>2, <3>1
  <2>4. ArcOf(e)[2] \in U
    BY <1>18, <2>2
  <2> QED
    BY <2>3, <2>4
<1>11. Entering(U) = ArcsOf(A)
  <2> HIDE DEF A
  <2>1. ASSUME NEW at \in Entering(U) PROVE at \in ArcsOf(A)
    <3>1. at \in Edges /\ at[2] \in U /\ at[1] \notin U
      BY DEF Entering
    <3> QED
      BY <1>8, <3>1 DEF ArcsOf
  <2>2. ASSUME NEW at \in ArcsOf(A) PROVE at \in Entering(U)
    BY <1>10 DEF ArcsOf, Entering
  <2> QED
    BY <2>1, <2>2
<1>12. Leaving(U) \in SUBSET {BidArc(j).at}
  BY <1>9 DEF Leaving
<1>13. A \in SUBSET Allowed
  OBVIOUS
<1> HIDE DEF A
<1> QED
  BY <1>4, <1>5, <1>6, <1>11, <1>12, <1>13, Gathered DEF A

-----------------------------------------------------------------------------
(* What the flow read off the network is *)
CashRead == [e \in Ids |-> IF e \in st.forbidden THEN 0
                       ELSE st.preassign[e] + (IF ArcOf(e) \in Edges THEN flow[ArcOf(e)] ELSE 0)]

\* A pair gets no more than it may take.
LEMMA PairCarries ==
    ASSUME SolveInv, NEW e \in Ids
    PROVE  /\ CashRead[e] \in Nat /\ Carries[e] \in Nat
           /\ e \notin Allowed => CashRead[e] = 0
           /\ e \in Allowed => CashRead[e] = st.preassign[e] + Carries[e] /\ CashRead[e] <= EdgeCap(e)
<1>1. NodeInv /\ FlowInv /\ PairsInv /\ st.preassign \in [Ids -> Nat]
  BY DEF SolveInv, NodeInv, States
<1>2. \A at \in Edges : flow[at] \in 0..network.edges[at].capacity /\ network.edges[at].capacity \in Nat
  BY <1>1, NodesAre DEF FlowInv, FlowIsFeasible
<1>3. Carries[e] \in Nat
  BY <1>2 DEF Carries, Carried
<1>4. CASE e \notin Allowed
  <2>1. CashRead[e] = 0
    BY <1>4 DEF Allowed, CashRead
  <2> QED
    BY <1>3, <1>4, <2>1
<1>5. CASE e \in Allowed
  <2>1. CashRead[e] = st.preassign[e] + Carries[e]
    BY <1>5 DEF Allowed, CashRead, Carries, Carried
  <2>2. EdgeCap(e) \in Int /\ st.preassign[e] <= EdgeCap(e) /\ st.preassign[e] \in Nat
    BY <1>1, <1>5, CapsAre DEF SolveInv, Committable
  <2>3. Carries[e] <= EdgeCap(e) - st.preassign[e]
    <3>1. CASE ArcOf(e) \in Edges
      <4>1. PairArc(e) \in Arcs /\ PairArc(e).at = ArcOf(e)
            /\ PairArc(e).capacity = EdgeCap(e) - st.preassign[e]
        BY <1>5 DEF Arcs, PairArc
      <4>2. network.edges[ArcOf(e)].capacity = EdgeCap(e) - st.preassign[e]
        BY <3>1, <4>1, NetworkHas
      <4>3. Carries[e] = flow[ArcOf(e)] /\ flow[ArcOf(e)] <= network.edges[ArcOf(e)].capacity
        BY <1>2, <3>1 DEF Carries, Carried
      <4> QED
        BY <4>2, <4>3
    <3>2. CASE ArcOf(e) \notin Edges
      <4>1. Carries[e] = 0
        BY <3>2 DEF Carries, Carried
      <4> QED
        BY <2>2, <4>1
    <3> QED
      BY <3>1, <3>2
  <2> QED
    BY <1>3, <1>5, <2>1, <2>2, <2>3
<1> QED
  BY <1>4, <1>5

\* What pairs get is what the branch committed and what the flow gave them.
LEMMA ReadIs ==
    ASSUME SolveInv, NEW S \in SUBSET Ids
    PROVE  /\ SumOf(CashRead, S) = Committed(S) + SumOf(Carries, S \cap Allowed)
           /\ SumOf(CashRead, S) \in Nat /\ Committed(S) \in Nat /\ SumOf(Carries, S \cap Allowed) \in Nat
           /\ SumOf(CashRead, S) = SumOf(CashRead, S \cap Allowed)
<1> DEFINE T == S \cap Allowed
<1>1. PairsInv /\ st.preassign \in [Ids -> Nat]
  BY DEF SolveInv, NodeInv, States
<1>2. /\ \A e \in Ids : CashRead[e] \in Nat /\ Carries[e] \in Nat /\ st.preassign[e] \in Nat
      /\ T \in SUBSET Ids /\ T \in SUBSET S
  BY <1>1, PairCarries DEF Allowed
<1>3. /\ IsFiniteSet(S) /\ IsFiniteSet(T)
      /\ Numbers(CashRead, S) /\ Numbers(CashRead, T) /\ Numbers(Carries, T) /\ Numbers(st.preassign, T)
      /\ SumOf(CashRead, S) \in Nat /\ SumOf(Carries, T) \in Nat /\ SumOf(st.preassign, T) \in Nat
  BY <1>1, <1>2, CashIs
<1>4. (\A e \in S \ T : CashRead[e] = 0) /\ \A e \in T : CashRead[e] = st.preassign[e] + Carries[e]
  BY PairCarries
<1>5. Committed(S) = SumOf(st.preassign, T)
  BY DEF Committed
<1> HIDE DEF T
<1>6. SumOf(CashRead, S) = SumOf(CashRead, T)
  BY <1>2, <1>3, <1>4, SumOfOthers
<1>7. SumOf(CashRead, T) = SumOf(st.preassign, T) + SumOf(Carries, T)
  BY <1>3, <1>4, SumOfPairs
<1> QED
  BY <1>3, <1>5, <1>6, <1>7 DEF T

\* The flow keeps every limit that its network knows of.
LEMMA FlowKeepsLimits ==
    ASSUME SolveInv
    PROVE  CashRead \in Amounts /\ WithinNetwork(CashRead)
<1>1. NodeInv /\ PairsInv /\ asked \in Batches
  BY DEF SolveInv, NodeInv, PairsInv
<1>2. CashRead \in Amounts
  BY PairCarries DEF CashRead, Amounts
<1>3. ASSUME NEW i \in DOMAIN asked.lots PROVE SumOf(CashRead, OfLot(i)) <= asked.lots[i].reserve
  <2>1. OfLot(i) \in SUBSET Ids
    BY DEF OfLot
  <2>2. SumOf(Carries, OfLot(i) \cap Allowed) <= LotCapacity(i)
    BY LotCarries
  <2>3. asked.lots[i].reserve \in Nat
    BY <1>1, BatchIs DEF MayBeSold
  <2> QED
    BY <2>1, <2>2, <2>3, ReadIs DEF LotCapacity
<1>4. ASSUME NEW j \in DOMAIN asked.bids PROVE SumOf(CashRead, OfBid(j)) <= asked.bids[j].budget
  <2>1. OfBid(j) \in SUBSET Ids
    BY DEF OfBid
  <2>2. SumOf(Carries, OfBid(j) \cap Allowed) <= BidCapacity(j)
    BY BidCarries
  <2>3. asked.bids[j].budget \in Nat
    BY <1>1, BatchIs DEF MayBid
  <2> QED
    BY <2>1, <2>2, <2>3, ReadIs DEF BidCapacity
<1>5. ASSUME NEW e \in Ids PROVE CashRead[e] <= edges[e].maxCash
  <2>1. EdgeCap(e) \in Int /\ EdgeCap(e) <= edges[e].maxCash /\ edges[e].maxCash \in Nat
    BY <1>1, CapsAre, IdsAre DEF PairFacts
  <2> QED
    BY <2>1, PairCarries
<1>6. ASSUME NEW e \in Ids PROVE SumOf(CashRead, SameIssuer(e)) <= IssuerLimit(BidOf(e))
  <2> DEFINE key == IssuerKey(e)
  <2>1. SameIssuer(e) \in SUBSET Ids /\ IsFiniteSet(Ids)
    BY <1>1, IdsAre DEF SameIssuer, OfBid
  <2>2. SameIssuer(e) \cap Allowed = OfIssuer(key)
    BY DEF SameIssuer, OfBid, OfIssuer, IssuerKey, Allowed
  <2>3. IssuerLimit(BidOf(e)) \in Nat /\ key[1] = edges[e].bid
    BY <1>1, IdsAre, LimitsAre DEF IssuerKey
  <2>4. CASE key \in IssuerKeys
    <3>1. SumOf(Carries, OfIssuer(key)) <= IssuerCapacity(key)
      BY <2>4, IssuerCarries
    <3>2. SameIssuer(e) \cap Allowed = OfIssuer(key) \cap Allowed
      BY <2>2
    <3>3. Committed(SameIssuer(e)) = Committed(OfIssuer(key))
      BY <3>2 DEF Committed
    <3>4. IssuerCapacity(key) = IssuerLimit(BidOf(e)) - Committed(SameIssuer(e))
      BY <2>3, <3>3 DEF IssuerCapacity, BidOf
    <3> HIDE DEF key
    <3> QED
      BY <2>1, <2>2, <2>3, <3>1, <3>4, ReadIs
  <2>5. CASE key \notin IssuerKeys
    <3>1. SumOf(CashRead, SameIssuer(e)) = SumOf(CashRead, OfIssuer(key))
      BY <2>1, <2>2, ReadIs
    <3>2. CASE OfIssuer(key) = {}
      <4>1. SumOf(CashRead, {}) = 0
        BY SumOfNone
      <4> QED
        BY <2>3, <3>1, <3>2, <4>1
    <3>3. CASE OfIssuer(key) # {}
      <4>1. PICK d \in OfIssuer(key) : TRUE
        BY <3>3
      <4>2. d \in Allowed /\ d \in Ids /\ IssuerKey(d) = key
        BY <1>1, AllowedAre DEF OfIssuer
      <4>3. IsFiniteSet(OfIssuer(key)) /\ ~(Cardinality(OfIssuer(key)) > 1)
        <5>1. IsFiniteSet(OfIssuer(key))
          BY <2>1, <2>2, FS_Subset
        <5> QED
          BY <2>5, <4>2, <5>1 DEF IssuerKeys
      <4>4. OfIssuer(key) = {d}
        <5>1. SUFFICES ASSUME NEW c \in OfIssuer(key), c # d PROVE FALSE
          OBVIOUS
        <5>2. {c, d} \in SUBSET OfIssuer(key) /\ IsFiniteSet({c, d}) /\ Cardinality({c, d}) = 2
          <6>1. {c, d} = {d} \cup {c} /\ c \notin {d} /\ IsFiniteSet({d}) /\ Cardinality({d}) = 1
            BY <5>1, FS_Singleton
          <6>2. IsFiniteSet({d} \cup {c}) /\ Cardinality({d} \cup {c}) = 1 + 1
            BY <6>1, FS_AddElement
          <6> QED
            BY <6>1, <6>2
        <5>3. Cardinality({c, d}) <= Cardinality(OfIssuer(key)) /\ Cardinality(OfIssuer(key)) \in Nat
          BY <4>3, <5>2, FS_Subset, FS_CardinalityType
        <5> QED
          BY <4>3, <5>2, <5>3
      <4>5. SumOf(CashRead, OfIssuer(key)) = CashRead[d]
        <5>1. d \in OfIssuer(key) /\ \A y \in OfIssuer(key) : y # d => CashRead[y] = 0
          BY <4>4
        <5>2. CashRead[d] \in Int
          BY <4>2, PairCarries
        <5> HIDE DEF key
        <5>3. SumOf(CashRead, OfIssuer(key)) = IF d \in OfIssuer(key) THEN CashRead[d] ELSE 0
          BY <4>3, <5>1, <5>2, SumOfOne
        <5> QED
          BY <5>1, <5>3
      <4>6. BidOf(d) = BidOf(e)
        BY <4>2 DEF IssuerKey, BidOf
      <4>7. CashRead[d] <= EdgeCap(d) /\ EdgeCap(d) <= IssuerLimit(BidOf(d)) /\ EdgeCap(d) \in Int
            /\ CashRead[d] \in Nat
        BY <1>1, <2>5, <4>2, CapsAre, PairCarries
      <4> QED
        BY <2>3, <3>1, <4>5, <4>6, <4>7
    <3> QED
      BY <3>2, <3>3
  <2> QED
    BY <2>4, <2>5
<1> QED
  BY <1>2, <1>3, <1>4, <1>5, <1>6 DEF WithinNetwork

-----------------------------------------------------------------------------
(* Candidates *)

\* A node that needs no repair breaks no rule of the repairs.
LEMMA RepairedKeeps ==
    ASSUME PairsInv, cash \in Amounts, Breached = {}, TooSmall = {}
    PROVE  WithinRepairs(cash)
<1> SUFFICES ASSUME NEW e \in Ids
             PROVE  /\ SumOf(cash, SameDebtor(e)) <= DebtorLimit(BidOf(e))
                    /\ SumOf(cash, SameGrade(e)) <= GradeLimit(BidOf(e), Lot(e).grade)
                    /\ cash[e] = 0 \/ cash[e] >= edges[e].minimumCash
  BY DEF WithinRepairs
<1> DEFINE g == <<edges[e].bid, 1, Lot(e).debtor>>
           h == <<edges[e].bid, 2, Lot(e).grade>>
<1>1. g \in Groups /\ h \in Groups
  BY DEF Groups
<1>2. /\ Members(g) = SameDebtor(e) /\ Members(h) = SameGrade(e)
      /\ Members(g) \in SUBSET Ids /\ Members(h) \in SUBSET Ids
  BY DEF Members, SameDebtor, SameGrade, OfBid
<1>3. GroupLimit(g) = DebtorLimit(BidOf(e)) /\ GroupLimit(h) = GradeLimit(BidOf(e), Lot(e).grade)
  BY DEF GroupLimit, BidOf
<1> HIDE DEF g, h
<1>4. /\ GroupLimit(g) \in Nat /\ CashOf(Members(g)) \in Nat
      /\ GroupLimit(h) \in Nat /\ CashOf(Members(h)) \in Nat
  <2>1. \A d \in Ids : cash[d] \in Nat
    BY DEF Amounts
  <2> QED
    BY <1>1, <1>2, <2>1, GroupLimitIs, CashIs DEF CashOf
<1>5. CashOf(Members(g)) <= GroupLimit(g) /\ CashOf(Members(h)) <= GroupLimit(h)
  BY <1>1, <1>4 DEF Breached
<1>6. cash[e] = 0 \/ cash[e] >= edges[e].minimumCash
  <2>1. cash[e] \in Nat /\ edges[e].minimumCash \in Nat
    BY IdsAre DEF PairFacts, Amounts
  <2> QED
    BY <2>1 DEF TooSmall
<1> QED
  BY <1>2, <1>3, <1>5, <1>6 DEF CashOf

\* Nothing at all keeps every rule.
LEMMA NothingKeeps ==
    ASSUME PairsInv, NEW c, c = [e \in Ids |-> 0]
    PROVE  c \in Amounts /\ WithinNetwork(c) /\ WithinRepairs(c)
<1>1. c \in Amounts /\ \A e \in Ids : c[e] = 0
  BY DEF Amounts
<1>2. ASSUME NEW S \in SUBSET Ids PROVE SumOf(c, S) = 0
  <2>1. IsFiniteSet(S) /\ Numbers(c, S) /\ {} \in SUBSET S /\ \A x \in S \ {} : c[x] = 0
    BY <1>1, IdsAre, FS_Subset DEF Numbers
  <2>2. SumOf(c, S) = SumOf(c, {})
    BY <2>1, SumOfOthers
  <2> QED
    BY <2>2, SumOfNone
<1>3. asked \in Batches
  BY DEF PairsInv
<1>4. \A i \in DOMAIN asked.lots : SumOf(c, OfLot(i)) <= asked.lots[i].reserve
  <2> TAKE i \in DOMAIN asked.lots
  <2>1. OfLot(i) \in SUBSET Ids /\ asked.lots[i].reserve \in Nat
    BY <1>3, BatchIs DEF OfLot, MayBeSold
  <2> QED
    BY <1>2, <2>1
<1>5. \A j \in DOMAIN asked.bids : SumOf(c, OfBid(j)) <= asked.bids[j].budget
  <2> TAKE j \in DOMAIN asked.bids
  <2>1. OfBid(j) \in SUBSET Ids /\ asked.bids[j].budget \in Nat
    BY <1>3, BatchIs DEF OfBid, MayBid
  <2> QED
    BY <1>2, <2>1
<1>6. ASSUME NEW e \in Ids
      PROVE  /\ c[e] <= edges[e].maxCash /\ SumOf(c, SameIssuer(e)) <= IssuerLimit(BidOf(e))
             /\ SumOf(c, SameDebtor(e)) <= DebtorLimit(BidOf(e))
             /\ SumOf(c, SameGrade(e)) <= GradeLimit(BidOf(e), Lot(e).grade)
  <2>1. /\ SameIssuer(e) \in SUBSET Ids /\ SameDebtor(e) \in SUBSET Ids /\ SameGrade(e) \in SUBSET Ids
    BY DEF SameIssuer, SameDebtor, SameGrade, OfBid
  <2>2. edges[e].maxCash \in Nat /\ MayBid(BidOf(e)) /\ Lot(e).grade \in Grades /\ Scale \in Nat \ {0}
    BY IdsAre DEF PairFacts, MayBeSold
  <2>3. /\ IssuerLimit(BidOf(e)) \in Nat /\ DebtorLimit(BidOf(e)) \in Nat
        /\ GradeLimit(BidOf(e), Lot(e).grade) \in Nat
    BY <2>2, LimitsAre
  <2> QED
    BY <1>1, <1>2, <2>1, <2>2, <2>3
<1> QED
  BY <1>1, <1>4, <1>5, <1>6 DEF WithinNetwork, WithinRepairs

-----------------------------------------------------------------------------
(* Notional *)
NotionalStep(c, g, e) ==
    LET taken == SumOf([d \in SameLot(e) |-> g[d]], SameLot(e))
    IN Min({Bought(e, c[e]), Lot(e).supply - taken})

\* Notional is computed pair by pair, in canonical order.
LEMMA MaterializedIs ==
    ASSUME NEW c
    PROVE  Materialized(c) = CHOOSE g : g = [e \in Ids |-> NotionalStep(c, g, e)]
BY Zenon DEF Materialized, NotionalStep

\* What cash buys of a lot is an amount.
LEMMA BoughtIs ==
    ASSUME PairsInv, NEW e \in Ids, NEW c \in Nat
    PROVE  /\ Bought(e, c) \in Nat
           /\ CostOf(Lot(e), Bought(e, c)) <= c /\ CostOf(Lot(e), Bought(e, c)) \in Nat
<1> DEFINE n == DivFloor(c, UnitPrice(Lot(e)))
           b == Bought(e, c)
<1>1. MayBeSold(Lot(e)) /\ MayBid(BidOf(e)) /\ PairFacts(edges[e]) /\ Scale \in Nat \ {0}
  BY IdsAre
<1>2. n \in Nat /\ CostOf(Lot(e), n) <= c
  BY <1>1, WhatCashBuys
<1>3. BidOf(e).minimumLot \in Nat
  BY <1>1 DEF MayBid
<1>4. BidOf(e).minimumLot > 0 => edges[e].minimumCash = CostOf(Lot(e), BidOf(e).minimumLot)
  BY <1>1 DEF PairFacts, BidOf, Lot
<1>5. edges[e].minimumCash \in Nat
  BY <1>1 DEF PairFacts
<1>6. CASE c = 0
  <2>1. b = 0
    BY <1>6 DEF Bought
  <2> QED
    BY <1>1, <1>6, <2>1, NothingCosts
<1>7. CASE c # 0 /\ n < BidOf(e).minimumLot /\ c >= edges[e].minimumCash
  <2>1. b = BidOf(e).minimumLot
    BY <1>7 DEF Bought
  <2>2. BidOf(e).minimumLot > 0
    BY <1>2, <1>3, <1>7
  <2> HIDE DEF b, n
  <2> QED
    BY <1>3, <1>4, <1>5, <1>7, <2>1, <2>2 DEF b
<1>8. CASE c # 0 /\ ~(n < BidOf(e).minimumLot /\ c >= edges[e].minimumCash)
  <2>1. b = n
    BY <1>8 DEF Bought
  <2>2. n <= n /\ n \in Nat
    BY <1>2
  <2> HIDE DEF n
  <2>3. CostOf(Lot(e), n) \in Nat
    BY <1>1, <2>2, CostIs
  <2> QED
    BY <1>2, <2>1, <2>3
<1> QED
  BY <1>6, <1>7, <1>8

\* A pair takes no more of its lot than the pairs before it left.
LEMMA StepIs ==
    ASSUME PairsInv, NEW c \in Amounts, NEW e \in Ids, NEW g, \A d \in SameLot(e) : g[d] \in Int
    PROVE  /\ SumOf(g, SameLot(e)) \in Int /\ SameLot(e) \in SUBSET Ids
           /\ NotionalStep(c, g, e) \in Int
           /\ NotionalStep(c, g, e) <= Bought(e, c[e])
           /\ NotionalStep(c, g, e) <= Lot(e).supply - SumOf(g, SameLot(e))
           /\ SumOf(g, SameLot(e)) <= Lot(e).supply => NotionalStep(c, g, e) \in Nat
<1> DEFINE D == SameLot(e)
           h == [d \in D |-> g[d]]
           a == Bought(e, c[e])
           b == Lot(e).supply - SumOf(h, D)
           S == {a, b}
<1>1. D \in SUBSET Ids
  <2>1. Len(edges) \in Nat /\ e \in Nat /\ e <= Len(edges)
    BY IdsAre
  <2> QED
    BY <2>1 DEF SameLot, Ids
<1>2. IsFiniteSet(D) /\ Numbers(h, D) /\ \A d \in D : h[d] = g[d]
  BY <1>1, IdsAre, FS_Subset DEF Numbers
<1> HIDE DEF D, h
<1>3. SumOf(h, D) = SumOf(g, D) /\ SumOf(h, D) \in Int
  BY <1>2, SumOfSame, SumIsInt
<1>4. a \in Nat /\ Lot(e).supply \in Nat
  BY BoughtIs, IdsAre DEF Amounts, MayBeSold
<1>5. NotionalStep(c, g, e) = Min(S)
  BY DEF NotionalStep, D, h
<1>6. a \in Int /\ b \in Int /\ S = {a, b}
  BY <1>3, <1>4
<1>7. SumOf(h, D) <= Lot(e).supply => b \in Nat
  BY <1>3, <1>4
<1> HIDE DEF a, b, S
<1>8. Min(S) \in {a, b} /\ Min(S) \in Int /\ Min(S) <= a /\ Min(S) <= b
  BY <1>6, OfTwo
<1> QED
  BY <1>1, <1>3, <1>4, <1>5, <1>7, <1>8 DEF D, a, b

\* Every pair has its notional, and the definition of the notionals holds of it.
LEMMA MaterializedRecurs ==
    ASSUME PairsInv, NEW c \in Amounts
    PROVE  Materialized(c) = [e \in Ids |-> NotionalStep(c, Materialized(c), e)]
<1> DEFINE N == Len(edges)
           D == 0..N
           step == [n \in D |-> [g \in [D -> Int] |-> IF n \in Ids THEN NotionalStep(c, g, n) ELSE 0]]
<1>1. N \in Nat /\ D = 0..N /\ Ids \in SUBSET D
  BY IdsAre DEF Ids
<1>2. \A e \in Ids : \A d \in SameLot(e) : d \in D /\ d < e
  BY <1>1, IdsAre, StepIs DEF SameLot, Ids
<1>3. ASSUME NEW n \in Ids, NEW g \in [D -> Int] PROVE NotionalStep(c, g, n) \in Int
  BY <1>2, StepIs
<1> HIDE DEF N
<1>4. /\ step \in [D -> [[D -> Int] -> Int]]
      /\ \A n \in D : \A g \in [D -> Int] : step[n][g] = IF n \in Ids THEN NotionalStep(c, g, n) ELSE 0
  BY <1>3
<1> HIDE DEF D
<1>9. ASSUME NEW n \in Ids, NEW g, NEW h, \A d \in SameLot(n) : g[d] = h[d]
      PROVE  NotionalStep(c, g, n) = NotionalStep(c, h, n)
  <2>1. [d \in SameLot(n) |-> g[d]] = [d \in SameLot(n) |-> h[d]]
    BY <1>9
  <2> QED
    BY <2>1 DEF NotionalStep
<1>5. IsRecursion(D, Int, step)
  <2> HIDE DEF step
  <2>1. ASSUME NEW n \in D, NEW g \in [D -> Int], NEW h \in [D -> Int],
               \A m \in D : m < n => g[m] = h[m]
        PROVE  step[n][g] = step[n][h]
    <3>1. n \in Ids => NotionalStep(c, g, n) = NotionalStep(c, h, n)
      BY <1>2, <1>9, <2>1
    <3> QED
      BY <1>4, <3>1
  <2> QED
    BY <1>4, <2>1 DEF IsRecursion
<1> HIDE DEF step
<1>6. PICK f \in [D -> Int] : \A n \in D : f[n] = step[n][f]
  <2>1. \E f : Solves(f, D, Int, step)
    BY <1>1, <1>5, RecursionExists
  <2> QED
    BY <2>1 DEF Solves
<1> DEFINE g == [e \in Ids |-> f[e]]
<1>7. \A e \in Ids : g[e] = NotionalStep(c, g, e)
  <2> TAKE e \in Ids
  <2>1. \A d \in SameLot(e) : d \in Ids
    BY <1>2, <1>1 DEF SameLot, Ids
  <2>2. NotionalStep(c, f, e) = NotionalStep(c, g, e)
    BY <1>9, <2>1
  <2>3. f[e] = NotionalStep(c, f, e)
    BY <1>1, <1>4, <1>6
  <2> QED
    BY <2>2, <2>3
<1>8. g = [e \in Ids |-> NotionalStep(c, g, e)]
  BY <1>7
<1> QED
  BY <1>8, MaterializedIs

\* The pairs of a lot up to one of them.
UpTo(i, n) == {d \in Ids : d <= n /\ edges[d].lot = i}

\* Pair by pair, no more of a lot is sold than there is.
LEMMA SuppliesLast ==
    ASSUME PairsInv, NEW c \in Amounts, NEW m, m = Materialized(c)
    PROVE  /\ m \in [Ids -> Nat]
           /\ \A e \in Ids : m[e] <= Bought(e, c[e])
           /\ \A i \in DOMAIN asked.lots : SumOf(m, OfLot(i)) <= asked.lots[i].supply
<1> DEFINE N == Len(edges)
           Fits(n) == /\ \A d \in Ids : d <= n => m[d] \in Nat
                      /\ \A i \in DOMAIN asked.lots : SumOf(m, UpTo(i, n)) <= asked.lots[i].supply
           P == {n \in Nat : Fits(n)}
<1>1. N \in Nat /\ IsFiniteSet(Ids) /\ \A e \in Ids : e \in Nat /\ e <= N /\ 1 <= e
  BY IdsAre
<1>2. m = [e \in Ids |-> NotionalStep(c, m, e)]
  BY MaterializedRecurs
<1>3. \A e \in Ids : m[e] = NotionalStep(c, m, e)
  BY Zenon, <1>2
<1>4. \A i \in DOMAIN asked.lots : asked.lots[i].supply \in Nat
  BY BatchIs DEF PairsInv, MayBeSold
<1> HIDE DEF N
<1>5. ASSUME NEW n \in 0..N, \A k \in 0..N : k < n => k \in P PROVE n \in P
  <2>1. CASE n = 0
    <3>1. \A i : UpTo(i, n) = {}
      BY <1>1, <2>1 DEF UpTo
    <3>2. \A i \in DOMAIN asked.lots : SumOf(m, UpTo(i, n)) <= asked.lots[i].supply
      <4> TAKE i \in DOMAIN asked.lots
      <4>1. UpTo(i, n) = {}
        BY <3>1
      <4>2. SumOf(m, {}) = 0
        BY SumOfNone
      <4> QED
        BY <1>4, <4>1, <4>2
    <3>3. \A d \in Ids : ~(d <= n)
      BY <1>1, <2>1
    <3> QED
      BY <2>1, <3>2, <3>3
  <2>2. CASE n # 0
    <3>1. n \in Ids /\ n \in Nat /\ n - 1 \in 0..N /\ n - 1 < n
      BY <1>1, <2>2 DEF Ids, N
    <3>2. Fits(n - 1)
      BY <1>5, <3>1
    <3>3. ~(n <= n - 1) /\ \A d \in Ids : d <= n <=> d = n \/ d <= n - 1
      BY <1>1, <3>1
    <3>4. SameLot(n) = UpTo(edges[n].lot, n - 1)
      <4>1. ASSUME NEW d \in SameLot(n) PROVE d \in UpTo(edges[n].lot, n - 1)
        <5>1. d \in Ids /\ d <= n - 1 /\ edges[d].lot = edges[n].lot
          <6>1. d \in 1..(n - 1) /\ edges[d].lot = edges[n].lot
            BY DEF SameLot
          <6>2. n - 1 \in Nat /\ n - 1 <= N
            BY <1>1, <3>1
          <6> QED
            BY <1>1, <6>1, <6>2 DEF Ids, N
        <5> QED
          BY <5>1 DEF UpTo
      <4>2. ASSUME NEW d \in UpTo(edges[n].lot, n - 1) PROVE d \in SameLot(n)
        <5>1. d \in Ids /\ d <= n - 1 /\ edges[d].lot = edges[n].lot
          BY DEF UpTo
        <5>2. d \in Nat /\ 1 <= d
          BY <1>1, <5>1
        <5> QED
          BY <3>1, <5>1, <5>2 DEF SameLot
      <4> QED
        BY <4>1, <4>2
    <3>5. \A d \in SameLot(n) : m[d] \in Int
      BY <3>2, <3>4 DEF UpTo
    <3>6. Lot(n) = asked.lots[edges[n].lot] /\ edges[n].lot \in DOMAIN asked.lots
      BY <3>1, IdsAre DEF Lot, PairFacts
    <3>7. SumOf(m, SameLot(n)) <= Lot(n).supply
      BY <3>2, <3>4, <3>6
    <3>8. m[n] \in Nat /\ m[n] <= Lot(n).supply - SumOf(m, SameLot(n)) /\ SumOf(m, SameLot(n)) \in Int
      BY <1>3, <3>1, <3>5, <3>7, StepIs
    <3>9. ASSUME NEW i \in DOMAIN asked.lots PROVE SumOf(m, UpTo(i, n)) <= asked.lots[i].supply
      <4>1. CASE i = edges[n].lot
        <5>1. UpTo(i, n) = UpTo(i, n - 1) \cup {n} /\ n \notin UpTo(i, n - 1)
          BY <3>1, <3>3, <4>1 DEF UpTo
        <5>2. IsFiniteSet(UpTo(i, n - 1)) /\ Numbers(m, UpTo(i, n - 1) \cup {n})
          BY <1>1, <3>4, <3>5, <3>8, <4>1, FS_Subset DEF UpTo, Numbers
        <5>3. SumOf(m, UpTo(i, n - 1) \cup {n}) = m[n] + SumOf(m, UpTo(i, n - 1))
          BY <5>1, <5>2, SumWithOne
        <5> QED
          BY <1>4, <3>4, <3>6, <3>8, <4>1, <5>1, <5>3
      <4>2. CASE i # edges[n].lot
        <5>1. UpTo(i, n) = UpTo(i, n - 1)
          BY <3>3, <4>2 DEF UpTo
        <5> QED
          BY <3>2, <5>1
      <4> QED
        BY <4>1, <4>2
    <3>10. \A d \in Ids : d <= n => m[d] \in Nat
      BY <3>2, <3>3, <3>8
    <3> QED
      BY <3>1, <3>9, <3>10
  <2> QED
    BY <2>1, <2>2
<1>6. Fits(N)
  <2> HIDE DEF P
  <2>1. \A n \in 0..N : n \in P
    BY <1>1, <1>5, UpToInduction
  <2>2. N \in 0..N
    BY <1>1
  <2> QED
    BY <2>1, <2>2 DEF P
<1>7. \A e \in Ids : m[e] \in Nat
  BY <1>1, <1>6
<1>8. m \in [Ids -> Nat]
  BY <1>2, <1>7
<1>9. ASSUME NEW e \in Ids PROVE m[e] <= Bought(e, c[e])
  <2>1. \A d \in SameLot(e) : d \in Ids
    BY <1>1 DEF SameLot, Ids
  <2>2. \A d \in SameLot(e) : m[d] \in Int
    BY <1>7, <2>1
  <2>3. NotionalStep(c, m, e) <= Bought(e, c[e])
    BY <2>2, StepIs
  <2> QED
    BY <1>3, <2>3
<1>10. \A i \in DOMAIN asked.lots : UpTo(i, N) = OfLot(i)
  BY <1>1 DEF UpTo, OfLot
<1> QED
  BY <1>6, <1>8, <1>9, <1>10

\* What is bought costs no more than the cash, and so keeps the limits the cash keeps.
LEMMA NotionalKeeps ==
    ASSUME PairsInv, NEW c \in Amounts, WithinNetwork(c), WithinRepairs(c),
           asked' = asked, edges' = edges, solution' = Materialized(c)
    PROVE  KeepsSupply' /\ KeepsBudgets' /\ KeepsExposure' /\ KeepsEligibility'
<1> DEFINE m == Materialized(c)
           cost == [e \in Ids |-> CostOf(Lot(e), m[e])]
           sold == {e \in Ids : m[e] > 0}
<1>1. /\ m \in [Ids -> Nat]
      /\ \A e \in Ids : m[e] <= Bought(e, c[e])
      /\ \A i \in DOMAIN asked.lots : SumOf(m, OfLot(i)) <= asked.lots[i].supply
  BY SuppliesLast
<1>2. ASSUME NEW e \in Ids PROVE cost[e] \in Nat /\ cost[e] <= c[e] /\ c[e] \in Nat
  <2>1. c[e] \in Nat /\ MayBeSold(Lot(e)) /\ Scale \in Nat \ {0}
    BY IdsAre DEF Amounts
  <2>2. /\ Bought(e, c[e]) \in Nat
        /\ CostOf(Lot(e), Bought(e, c[e])) <= c[e] /\ CostOf(Lot(e), Bought(e, c[e])) \in Nat
    BY <2>1, BoughtIs
  <2>3. m[e] \in Nat /\ m[e] <= Bought(e, c[e])
    BY <1>1
  <2> HIDE DEF m
  <2>4. CostOf(Lot(e), m[e]) \in Nat
        /\ CostOf(Lot(e), m[e]) <= CostOf(Lot(e), Bought(e, c[e]))
    BY <2>1, <2>2, <2>3, CostIs
  <2> QED
    BY <2>1, <2>2, <2>4
<1>3. Ids' = Ids
  BY DEF Ids
<1>4. /\ \A e : Lot(e)' = Lot(e) /\ BidOf(e)' = BidOf(e)
      /\ \A i : OfLot(i)' = OfLot(i) /\ OfBid(i)' = OfBid(i)
  BY <1>3 DEF Lot, BidOf, OfLot, OfBid
<1>5. \A e : /\ SameIssuer(e)' = SameIssuer(e) /\ SameDebtor(e)' = SameDebtor(e)
             /\ SameGrade(e)' = SameGrade(e)
  BY <1>4 DEF SameIssuer, SameDebtor, SameGrade
<1>6. Allocated' = sold /\ solution' = m
  BY <1>3 DEF Allocated
<1>7. \A e \in Ids : Price(e)' = cost[e]
  BY <1>4, <1>6 DEF Price
<1> HIDE DEF m, cost, sold
<1>8. ASSUME NEW S \in SUBSET Ids, NEW limit \in Nat, SumOf(c, S) <= limit, NEW T, T = S \cap sold
      PROVE  Paid(T)' <= limit
  <2> DEFINE p == [e \in T |-> cost[e]]
  <2>1. T \in SUBSET S /\ T \in SUBSET Ids
    BY <1>8
  <2>2. \A e \in Ids : c[e] \in Nat
    BY <1>2
  <2>3. /\ SumOf(c, T) <= SumOf(c, S) /\ SumOf(c, S) \in Nat /\ SumOf(c, T) \in Nat
        /\ IsFiniteSet(T) /\ Numbers(c, T)
    BY <2>1, <2>2, CashIs
  <2>4. Numbers(p, T) /\ \A e \in T : p[e] <= c[e]
    BY <1>2, <2>1 DEF Numbers
  <2>5. Paid(T)' = SumOf(p, T)
    <3>1. [e \in T |-> Price(e)'] = p
      BY <1>7, <2>1
    <3> HIDE DEF p
    <3> QED
      BY <3>1 DEF Paid
  <2> HIDE DEF p
  <2>6. SumOf(p, T) <= SumOf(c, T) /\ SumOf(p, T) \in Int
    BY <2>3, <2>4, SumRises, SumIsInt
  <2> QED
    BY <1>8, <2>3, <2>5, <2>6
<1>9. asked \in Batches
  BY DEF PairsInv
<1>10. KeepsBudgets'
  <2> SUFFICES ASSUME NEW j \in DOMAIN asked.bids, NEW T, T = OfBid(j) \cap sold
               PROVE  Paid(T)' <= asked.bids[j].budget
    BY <1>4, <1>6 DEF KeepsBudgets
  <2>1. OfBid(j) \in SUBSET Ids /\ asked.bids[j].budget \in Nat
    BY <1>9, BatchIs DEF OfBid, MayBid
  <2>2. SumOf(c, OfBid(j)) <= asked.bids[j].budget
    BY DEF WithinNetwork
  <2> QED
    BY <1>8, <2>1, <2>2
<1>11. KeepsExposure'
  <2> SUFFICES ASSUME NEW e \in Ids, NEW I, I = SameIssuer(e) \cap sold,
                      NEW D, D = SameDebtor(e) \cap sold, NEW G, G = SameGrade(e) \cap sold
               PROVE  /\ Paid(I)' <= IssuerLimit(BidOf(e))
                      /\ Paid(D)' <= DebtorLimit(BidOf(e))
                      /\ Paid(G)' <= GradeLimit(BidOf(e), Lot(e).grade)
    BY <1>4, <1>5, <1>6 DEF KeepsExposure, sold
  <2>1. /\ SameIssuer(e) \in SUBSET Ids /\ SameDebtor(e) \in SUBSET Ids /\ SameGrade(e) \in SUBSET Ids
    BY DEF SameIssuer, SameDebtor, SameGrade, OfBid
  <2>2. MayBid(BidOf(e)) /\ Lot(e).grade \in Grades /\ Scale \in Nat \ {0}
    BY IdsAre DEF MayBeSold
  <2>3. /\ IssuerLimit(BidOf(e)) \in Nat /\ DebtorLimit(BidOf(e)) \in Nat
        /\ GradeLimit(BidOf(e), Lot(e).grade) \in Nat
    BY <2>2, LimitsAre
  <2>4. /\ SumOf(c, SameIssuer(e)) <= IssuerLimit(BidOf(e))
        /\ SumOf(c, SameDebtor(e)) <= DebtorLimit(BidOf(e))
        /\ SumOf(c, SameGrade(e)) <= GradeLimit(BidOf(e), Lot(e).grade)
    BY DEF WithinNetwork, WithinRepairs
  <2> QED
    BY <1>8, <2>1, <2>3, <2>4
<1>12. KeepsEligibility'
  <2> SUFFICES ASSUME NEW e \in Ids
               PROVE  /\ Lot(e).grade <= BidOf(e).maxGrade
                      /\ Lot(e).tenor <= BidOf(e).maxTenor
                      /\ Surplus(BidOf(e), Lot(e)) >= 0
    BY <1>3, <1>4 DEF KeepsEligibility, Allocated
  <2> QED
    BY IdsAre DEF PairFacts, Feasible, Lot, BidOf
<1>13. KeepsSupply'
  BY <1>1, <1>4, <1>6 DEF KeepsSupply
<1> QED
  BY <1>10, <1>11, <1>12, <1>13

-----------------------------------------------------------------------------
(* The invariant *)
\* Before the search begins there is no candidate.
EarlyInv == phase \in {"canonicalize", "prune"} => best.objective < 0 /\ dropped = <<>>
\* Then every node of it has its constraints,
StateInv == phase \notin {"canonicalize", "prune"} => st \in States
\*   the network is the one these constraints build,
NetworkInv == phase = "flow" => network = Relaxation /\ Committable
\*   the cash read off it keeps within it,
CashInv == phase = "repair" => cash \in Amounts /\ WithinNetwork(cash)
\*   the best candidate has been through the repairs as well,
BestInv == /\ best.objective \in Int
           /\ best.objective >= 0 => /\ best.cash \in Amounts
                                     /\ WithinNetwork(best.cash) /\ WithinRepairs(best.cash)
AnswerInv == phase \in {"verify"} \cup Answers =>
                KeepsSupply /\ KeepsBudgets /\ KeepsExposure /\ KeepsEligibility

\* All of it.
SolverInv ==
    /\ FlowInv /\ PairsInv /\ dropped \in Seq(Ids)
    /\ EarlyInv /\ StateInv /\ NetworkInv /\ CashInv /\ BestInv /\ AnswerInv

\* What a step leaves alone stays true: of the flow,
LEMMA FlowStays ==
    ASSUME FlowInv, UNCHANGED flowVars
    PROVE  FlowInv'
<1>1. /\ network' = network /\ flow' = flow /\ potential' = potential /\ dist' = dist
      /\ settled' = settled /\ prev' = prev
  BY DEF flowVars
<1>2. Sink' = Sink /\ Nodes' = Nodes /\ Edges' = Edges
  BY <1>1 DEF Sink, Nodes, Edges
<1>3. IsNetwork(network)' /\ flow' \in [Edges' -> Int]
  BY <1>1, <1>2 DEF FlowInv, IsNetwork
<1>4. FlowIsFeasible'
  BY <1>1, <1>2 DEF FlowInv, FlowIsFeasible, Through, Into, OutOf, Source
<1>5. SearchTyped'
  BY <1>1, <1>2 DEF FlowInv, SearchTyped
<1>6. TreeInv'
  BY <1>1, <1>2 DEF FlowInv, TreeInv, Open, Room, Twin, Source
<1> QED
  BY <1>3, <1>4, <1>5, <1>6 DEF FlowInv

\*   of the pairs,
LEMMA PairsStay ==
    ASSUME PairsInv, asked' = asked, edges' = edges
    PROVE  PairsInv' /\ Ids' = Ids /\ States' = States /\ Amounts' = Amounts
<1>1. Ids' = Ids
  BY DEF Ids
<1>2. MayTrade' = MayTrade
  BY DEF MayTrade, Pairs, Edge, Value, Weight
<1> QED
  BY <1>1, <1>2 DEF PairsInv, States, Amounts

\*   of the network of a node,
LEMMA RelaxationStays ==
    ASSUME asked' = asked, edges' = edges, st' = st
    PROVE  Relaxation' = Relaxation /\ Committable' = Committable
<1>1. /\ Ids' = Ids /\ Allowed' = Allowed /\ IssuerKeys' = IssuerKeys
      /\ \A e : IssuerKey(e)' = IssuerKey(e)
  BY DEF Ids, Allowed, IssuerKeys, IssuerKey, OfIssuer, Lot
<1>2. /\ \A i : LotCapacity(i)' = LotCapacity(i)
      /\ \A j : BidCapacity(j)' = BidCapacity(j)
      /\ \A key : IssuerCapacity(key)' = IssuerCapacity(key)
  BY <1>1 DEF LotCapacity, BidCapacity, IssuerCapacity, Committed, OfLot, OfBid, OfIssuer
<1>3. \A e : EdgeCap(e)' = EdgeCap(e) /\ ArcOf(e)' = ArcOf(e)
  BY <1>1 DEF EdgeCap, CapacityOf, ArcOf, IssuerNode, BidNode, BidOf
<1>4. SinkNode' = SinkNode
  BY <1>1 DEF SinkNode, BidNode
<1>5. Arcs' = Arcs
  BY <1>1, <1>2, <1>3, <1>4 DEF Arcs, LotArc, PairArc, IssuerArc, BidArc, IssuerNode, BidNode
<1> QED
  BY <1>1, <1>2, <1>3, <1>4, <1>5 DEF Relaxation, Committable

\*   of the limits of cash,
LEMMA LimitsStay ==
    ASSUME asked' = asked, edges' = edges
    PROVE  \A c : WithinNetwork(c)' = WithinNetwork(c) /\ WithinRepairs(c)' = WithinRepairs(c)
<1>1. Ids' = Ids
  BY DEF Ids
<1>2. /\ \A e : Lot(e)' = Lot(e) /\ BidOf(e)' = BidOf(e)
      /\ \A i : OfLot(i)' = OfLot(i) /\ OfBid(i)' = OfBid(i)
  BY <1>1 DEF Lot, BidOf, OfLot, OfBid
<1>3. \A e : /\ SameIssuer(e)' = SameIssuer(e) /\ SameDebtor(e)' = SameDebtor(e)
             /\ SameGrade(e)' = SameGrade(e)
  BY <1>2 DEF SameIssuer, SameDebtor, SameGrade
<1> QED
  BY <1>1, <1>2, <1>3 DEF WithinNetwork, WithinRepairs

\*   of the cash read,
LEMMA CashStays ==
    ASSUME asked' = asked, edges' = edges, cash \in Amounts, WithinNetwork(cash), cash' = cash
    PROVE  (cash \in Amounts)' /\ WithinNetwork(cash)'
<1>1. Ids' = Ids
  BY DEF Ids
<1> QED
  BY <1>1, LimitsStay DEF Amounts

\*   of the best candidate.
LEMMA BestStays ==
    ASSUME asked' = asked, edges' = edges, BestInv, best' = best
    PROVE  BestInv'
<1>1. Ids' = Ids
  BY DEF Ids
<1>2. Amounts' = Amounts
  BY <1>1 DEF Amounts
<1> QED
  BY <1>2, LimitsStay DEF BestInv

\* Nothing is carried by a network that is not there yet.
LEMMA StartHolds ==
    ASSUME FarAway, ClearInit
    PROVE  SolverInv
<1>1. /\ network = NoNetwork /\ flow = <<>> /\ potential = <<>>
      /\ dist = NoDistance(NoNetwork) /\ prev = NoArc(NoNetwork)
  BY DEF ClearInit
<1>2. Sink = 1 /\ Edges = {} /\ Nodes = 0..1 /\ Source = 0
  BY <1>1 DEF Sink, Edges, Nodes, NoNetwork, Source
<1>3. FlowInv
  <2>1. IsNetwork(network)
    BY <1>1, FS_EmptySet DEF IsNetwork, NoNetwork
  <2>2. flow \in [Edges -> Int]
    BY <1>1, <1>2
  <2>3. FlowIsFeasible
    <3>1. \A v : Into(v) = {} /\ OutOf(v) = {}
      BY <1>2 DEF Into, OutOf
    <3> QED
      BY <1>2, <3>1 DEF FlowIsFeasible
  <2>4. dist = [v \in Nodes |-> IF v = Source THEN 0 ELSE Unreachable] /\ prev = [v \in Nodes |-> Source]
    BY <1>1, <1>2 DEF NoDistance, NoArc, NoNetwork
  <2>5. SearchTyped
    BY <1>1, <1>2, <2>4 DEF SearchTyped, FarAway
  <2>6. TreeInv
    BY <2>4 DEF TreeInv
  <2> QED
    BY <2>1, <2>2, <2>3, <2>5, <2>6 DEF FlowInv
<1>4. asked \in Batches /\ edges = <<>> /\ dropped = <<>> /\ phase = "canonicalize" /\ best = NoCandidate
  BY DEF ClearInit
<1>5. Ids = {}
  BY <1>4 DEF Ids
<1>6. PairsInv
  BY <1>4, <1>5 DEF PairsInv
<1>7. EarlyInv /\ BestInv /\ dropped \in Seq(Ids)
  BY <1>4 DEF EarlyInv, BestInv, NoCandidate
<1>8. StateInv /\ NetworkInv /\ CashInv /\ AnswerInv
  BY <1>4 DEF StateInv, NetworkInv, CashInv, AnswerInv, Answers
<1> QED
  BY <1>3, <1>6, <1>7, <1>8 DEF SolverInv

\* Canonicalizing finds pairs that may trade, each once.
LEMMA CanonicalizeKeeps == ASSUME FarAway, SolverInv, Canonicalize PROVE SolverInv'
<1>1. /\ phase = "canonicalize" /\ phase' = "prune" /\ edges' = FeasibleEdges
      /\ UNCHANGED flowVars /\ asked' = asked /\ dropped' = dropped /\ best' = best
  BY DEF Canonicalize
<1>2. FlowInv' /\ asked \in Batches /\ best.objective < 0 /\ best.objective \in Int /\ dropped = <<>>
  BY <1>1, FlowStays DEF SolverInv, PairsInv, EarlyInv, BestInv
<1>3. MayTrade' = MayTrade
  BY <1>1 DEF MayTrade, Pairs, Edge, Value, Weight
<1>4. /\ FeasibleEdges \in Seq(MayTrade)
      /\ \A n, m \in DOMAIN FeasibleEdges : FeasibleEdges[n] = FeasibleEdges[m] => n = m
  BY <1>2, OrderedPairs DEF FeasibleEdges
<1>5. Ids' = DOMAIN FeasibleEdges
  BY <1>1, <1>4, LenProperties DEF Ids
<1>6. PairsInv'
  BY <1>1, <1>2, <1>3, <1>4, <1>5 DEF PairsInv
<1>7. EarlyInv' /\ BestInv' /\ (dropped \in Seq(Ids))'
  BY <1>1, <1>2 DEF EarlyInv, BestInv
<1>8. StateInv' /\ NetworkInv' /\ CashInv' /\ AnswerInv'
  BY <1>1 DEF StateInv, NetworkInv, CashInv, AnswerInv, Answers
<1> QED
  BY <1>2, <1>6, <1>7, <1>8 DEF SolverInv

\* Pruning keeps some of them, in order, and begins the search at its root.
LEMMA PruneKeeps == ASSUME FarAway, SolverInv, Prune PROVE SolverInv'
<1> DEFINE new == Kept(edges)
<1>1. /\ phase = "prune" /\ phase' = "explore" /\ edges' = new /\ st' = NewState(Len(new))
      /\ UNCHANGED flowVars /\ asked' = asked /\ dropped' = dropped /\ best' = best
  BY DEF Prune
<1>2. FlowInv' /\ PairsInv /\ asked \in Batches
      /\ best.objective < 0 /\ best.objective \in Int /\ dropped = <<>>
  BY <1>1, FlowStays DEF SolverInv, PairsInv, EarlyInv, BestInv
<1>3. MayTrade' = MayTrade
  BY <1>1 DEF MayTrade, Pairs, Edge, Value, Weight
<1>4. DOMAIN edges = Ids /\ edges \in Seq(MayTrade)
  BY <1>2, LenProperties DEF PairsInv, Ids
<1>5. new \in Seq(MayTrade) /\ \A n, m \in DOMAIN new : new[n] = new[m] => n = m
  <2> DEFINE S == {edges[n] : n \in DOMAIN edges}
  <2>1. new = IF Len(edges) <= asked.params.pruneThreshold THEN edges
              ELSE Ordered(MostWorth(S), EdgeBefore)
    BY DEF Kept
  <2>2. MostWorth(S) \in SUBSET MayTrade
    BY <1>2, <1>4, IdsAre DEF MostWorth
  <2> HIDE DEF S, new
  <2>3. CASE Len(edges) <= asked.params.pruneThreshold
    BY <1>2, <1>4, <2>1, <2>3 DEF PairsInv
  <2>4. CASE ~(Len(edges) <= asked.params.pruneThreshold)
    BY <1>2, <2>1, <2>2, <2>4, OrderedPairs
  <2> QED
    BY <2>3, <2>4
<1> HIDE DEF new
<1>6. Ids' = DOMAIN new
  BY <1>1, <1>5, LenProperties DEF Ids
<1>7. PairsInv'
  BY <1>1, <1>2, <1>3, <1>5, <1>6 DEF PairsInv
<1>8. EarlyInv' /\ BestInv' /\ (dropped \in Seq(Ids))'
  BY <1>1, <1>2 DEF EarlyInv, BestInv
<1>9. StateInv'
  <2>1. st' = NewState(Len(edges'))
    BY <1>1
  <2>2. st' \in States'
    BY <2>1 DEF FarAway, NewState, States, Ids
  <2> QED
    BY <2>2 DEF StateInv
<1>10. NetworkInv' /\ CashInv' /\ AnswerInv'
  BY <1>1 DEF NetworkInv, CashInv, AnswerInv, Answers
<1> QED
  BY <1>2, <1>7, <1>8, <1>9, <1>10 DEF SolverInv

\* What most steps leave alone.
LEMMA Frame ==
    ASSUME SolverInv, asked' = asked, edges' = edges,
           phase \notin {"canonicalize", "prune"}, phase' \notin {"canonicalize", "prune"}
    PROVE  /\ PairsInv /\ PairsInv' /\ EarlyInv' /\ st \in States
           /\ Ids' = Ids /\ States' = States /\ Amounts' = Amounts
           /\ st' \in States => StateInv'
           /\ dropped' \in Seq(Ids) => (dropped \in Seq(Ids))'
           /\ best' = best => BestInv'
           /\ UNCHANGED flowVars => FlowInv'
<1>1. PairsInv' /\ Ids' = Ids /\ States' = States /\ Amounts' = Amounts /\ PairsInv
  BY PairsStay DEF SolverInv
<1>2. best' = best => BestInv'
  BY BestStays DEF SolverInv
<1>3. UNCHANGED flowVars => FlowInv'
  BY FlowStays DEF SolverInv
<1> QED
  BY <1>1, <1>2, <1>3 DEF SolverInv, EarlyInv, StateInv

\* Taking up a node, and stopping for want of a budget, change neither pairs nor constraints.
LEMMA ExploreKeeps == ASSUME SolverInv, Explore \/ StopExploring PROVE SolverInv'
<1>1. /\ phase = "explore" /\ phase' \in {"relax", "materialize"}
      /\ UNCHANGED flowVars /\ asked' = asked /\ edges' = edges /\ st' = st /\ best' = best
      /\ dropped' = <<>> \/ dropped' = dropped
  BY DEF Explore, StopExploring
<1>2. /\ PairsInv' /\ EarlyInv' /\ (st' \in States => StateInv') /\ st \in States
      /\ dropped' \in Seq(Ids) => (dropped \in Seq(Ids))'
      /\ BestInv' /\ FlowInv'
  BY <1>1, Frame
<1>3. (dropped \in Seq(Ids))' /\ StateInv'
  <2>1. <<>> \in Seq(Ids) /\ dropped \in Seq(Ids)
    BY DEF SolverInv
  <2>2. dropped' \in Seq(Ids)
    BY <1>1, <2>1
  <2> QED
    BY <1>1, <1>2, <2>2
<1>4. NetworkInv' /\ CashInv' /\ AnswerInv'
  BY <1>1 DEF NetworkInv, CashInv, AnswerInv, Answers
<1> QED
  BY <1>2, <1>3, <1>4 DEF SolverInv

\* The network of a node carries nothing when it is built; it is built only when the
\* constraints leave room for one.
LEMMA RelaxKeeps == ASSUME FarAway, SolverInv, Relax PROVE SolverInv'
<1>1. /\ phase = "relax" /\ phase' \in {"flow", "materialize"}
      /\ asked' = asked /\ edges' = edges /\ st' = st /\ best' = best /\ dropped' = dropped
      /\ phase' = "flow" => Committable /\ BuildNetwork(Relaxation)
      /\ phase' = "materialize" => UNCHANGED flowVars
  BY DEF Relax
<1>2. /\ PairsInv /\ PairsInv' /\ EarlyInv' /\ (st' \in States => StateInv') /\ st \in States
      /\ dropped' \in Seq(Ids) => (dropped \in Seq(Ids))'
      /\ BestInv' /\ (UNCHANGED flowVars => FlowInv')
  BY <1>1, Frame
<1>3. (dropped \in Seq(Ids))' /\ StateInv'
  BY <1>1, <1>2 DEF SolverInv
<1>4. CashInv' /\ AnswerInv'
  BY <1>1 DEF CashInv, AnswerInv, Answers
<1>5. CASE phase' = "flow"
  <2>1. IsNetwork(Relaxation)
    BY <1>2, RelaxationIsNetwork DEF NodeInv
  <2>2. FlowInv'
    BY <1>1, <1>5, <2>1, BuildStarts
  <2>3. network' = Relaxation /\ Relaxation' = Relaxation /\ Committable'
    BY <1>1, <1>5, RelaxationStays DEF BuildNetwork
  <2>4. NetworkInv'
    BY <2>3 DEF NetworkInv
  <2> QED
    BY <1>2, <1>3, <1>4, <2>2, <2>4 DEF SolverInv
<1>6. CASE phase' = "materialize"
  <2>1. NetworkInv' /\ FlowInv'
    BY <1>1, <1>2, <1>6 DEF NetworkInv
  <2> QED
    BY <1>2, <1>3, <1>4, <2>1 DEF SolverInv
<1> QED
  BY <1>1, <1>5, <1>6

\* A step of the solve leaves the flow feasible and its network as it was.
LEMMA PushKeeps == ASSUME FarAway, SolverInv, Push PROVE SolverInv'
<1>1. /\ phase = "flow" /\ phase' = "flow"
      /\ asked' = asked /\ edges' = edges /\ st' = st /\ best' = best /\ dropped' = dropped
      /\ StartFlow \/ Settle \/ Augment(asked.params.maxAugmentations)
  BY DEF Push
<1>2. /\ PairsInv' /\ EarlyInv' /\ (st' \in States => StateInv') /\ st \in States
      /\ dropped' \in Seq(Ids) => (dropped \in Seq(Ids))'
      /\ BestInv'
  BY <1>1, Frame
<1>3. (dropped \in Seq(Ids))' /\ StateInv'
  BY <1>1, <1>2 DEF SolverInv
<1>4. CashInv' /\ AnswerInv'
  BY <1>1 DEF CashInv, AnswerInv, Answers
<1>5. FlowInv' /\ network' = network
  <2>1. FlowInv
    BY DEF SolverInv
  <2>2. CASE StartFlow
    BY <2>1, <2>2, StartKeeps DEF StartFlow
  <2>3. CASE Settle
    BY <2>1, <2>3, SettleKeeps DEF Settle
  <2>4. CASE Augment(asked.params.maxAugmentations)
    BY <2>1, <2>4, AugmentKeeps DEF Augment
  <2> QED
    BY <1>1, <2>2, <2>3, <2>4
<1>6. NetworkInv'
  <2>1. network = Relaxation /\ Committable
    BY <1>1 DEF SolverInv, NetworkInv
  <2>2. Relaxation' = Relaxation /\ Committable' = Committable
    BY <1>1, RelaxationStays
  <2> QED
    BY <1>5, <2>1, <2>2 DEF NetworkInv
<1> QED
  BY <1>2, <1>3, <1>4, <1>5, <1>6 DEF SolverInv

\* The cash read off the flow keeps every limit the network expresses.
LEMMA ReadFlowKeeps == ASSUME SolverInv, ReadFlow PROVE SolverInv'
<1>1. /\ phase = "flow" /\ phase' = "repair" /\ cash' = CashRead
      /\ UNCHANGED flowVars
      /\ asked' = asked /\ edges' = edges /\ st' = st /\ best' = best /\ dropped' = dropped
  BY DEF ReadFlow, CashRead
<1>2. /\ PairsInv /\ PairsInv' /\ EarlyInv' /\ (st' \in States => StateInv') /\ st \in States
      /\ (dropped' \in Seq(Ids) => (dropped \in Seq(Ids))')
      /\ BestInv' /\ FlowInv' /\ Amounts' = Amounts
  BY <1>1, Frame
<1>3. (dropped \in Seq(Ids))' /\ StateInv'
  BY <1>1, <1>2 DEF SolverInv
<1>4. NetworkInv' /\ AnswerInv'
  BY <1>1 DEF NetworkInv, AnswerInv, Answers
<1>5. SolveInv
  BY <1>1, <1>2 DEF SolverInv, SolveInv, NetworkInv, NodeInv
<1>6. CashRead \in Amounts /\ WithinNetwork(CashRead)
  BY <1>5, FlowKeepsLimits
<1>7. CashInv'
  <2>1. cash' \in Amounts'
    BY <1>1, <1>2, <1>6
  <2>2. WithinNetwork(cash)'
    <3> DEFINE c == CashRead
    <3>1. cash' = c /\ WithinNetwork(c)
      BY <1>1, <1>6
    <3> HIDE DEF c
    <3> QED
      BY <1>1, <3>1, LimitsStay
  <2> QED
    BY <2>1, <2>2 DEF CashInv
<1> QED
  BY <1>2, <1>3, <1>4, <1>7 DEF SolverInv

\* A node that is given up leaves the best candidate as it is.
LEMMA AbandonKeeps == ASSUME SolverInv, Abandon PROVE SolverInv'
<1>1. /\ phase = "repair" /\ phase' = "materialize"
      /\ UNCHANGED flowVars
      /\ asked' = asked /\ edges' = edges /\ st' = st /\ best' = best /\ dropped' = dropped
  BY DEF Abandon
<1>2. /\ PairsInv' /\ EarlyInv' /\ (st' \in States => StateInv') /\ st \in States
      /\ (dropped' \in Seq(Ids) => (dropped \in Seq(Ids))')
      /\ BestInv' /\ FlowInv'
  BY <1>1, Frame
<1>3. (dropped \in Seq(Ids))' /\ StateInv'
  BY <1>1, <1>2 DEF SolverInv
<1>4. NetworkInv' /\ CashInv' /\ AnswerInv'
  BY <1>1 DEF NetworkInv, CashInv, AnswerInv, Answers
<1> QED
  BY <1>2, <1>3, <1>4 DEF SolverInv

\* A repair round caps a group or drops a pair, and solves again.
LEMMA RepairKeeps == ASSUME SolverInv, RepairExposure \/ RepairMinimumLots PROVE SolverInv'
<1>1. /\ phase = "repair" /\ phase' = "relax"
      /\ UNCHANGED flowVars
      /\ asked' = asked /\ edges' = edges /\ best' = best
      /\ \/ st' = Capped[Cardinality(Breached)] /\ dropped' = dropped
         \/ st' = Drop(TooSmall) /\ dropped' = dropped \o Ordered(TooSmall, <)
  BY DEF RepairExposure, RepairMinimumLots
<1>2. /\ PairsInv /\ PairsInv' /\ EarlyInv' /\ (st' \in States => StateInv') /\ st \in States
      /\ (dropped' \in Seq(Ids) => (dropped \in Seq(Ids))')
      /\ BestInv' /\ FlowInv'
  BY <1>1, Frame
<1>3. cash \in Amounts /\ dropped \in Seq(Ids)
  BY <1>1 DEF SolverInv, CashInv
<1>4. TooSmall \in SUBSET Ids
  BY DEF TooSmall
<1>5. st' \in States
  BY <1>1, <1>2, <1>3, <1>4, CappedTyped, DropTyped
<1>6. dropped' \in Seq(Ids)
  <2> DEFINE more == Ordered(TooSmall, <)
  <2>1. more \in Seq(Ids)
    BY <1>2, <1>4, OrderedIds
  <2>2. dropped' = dropped \/ dropped' = dropped \o more
    BY <1>1
  <2> HIDE DEF more
  <2>3. dropped \o more \in Seq(Ids)
    BY <1>3, <2>1, ConcatProperties
  <2> QED
    BY <1>3, <2>2, <2>3
<1>7. NetworkInv' /\ CashInv' /\ AnswerInv'
  BY <1>1 DEF NetworkInv, CashInv, AnswerInv, Answers
<1> QED
  BY <1>2, <1>5, <1>6, <1>7 DEF SolverInv

\* A candidate that replaces the best one went through both repairs.
LEMMA BranchKeeps == ASSUME FarAway, SolverInv, Branch PROVE SolverInv'
<1>1. /\ phase = "repair" /\ phase' \in {"materialize", "explore"}
      /\ Breached = {} /\ TooSmall = {}
      /\ UNCHANGED flowVars
      /\ asked' = asked /\ edges' = edges /\ best' = Better /\ dropped' = dropped
      /\ st' = st \/ (Unforced # {} /\ st' = Child(dropped[Min(Unforced)]))
  BY DEF Branch
<1>2. /\ PairsInv /\ PairsInv' /\ EarlyInv' /\ (st' \in States => StateInv') /\ st \in States
      /\ (dropped' \in Seq(Ids) => (dropped \in Seq(Ids))')
      /\ FlowInv' /\ Amounts' = Amounts
  BY <1>1, Frame
<1>3. cash \in Amounts /\ WithinNetwork(cash) /\ dropped \in Seq(Ids) /\ BestInv
  BY <1>1 DEF SolverInv, CashInv
<1>4. WithinRepairs(cash)
  BY <1>1, <1>2, <1>3, RepairedKeeps
<1>5. st' \in States
  <2>1. CASE Unforced # {}
    <3>1. Unforced \in SUBSET Nat /\ Unforced \in SUBSET DOMAIN dropped
      BY <1>3, ElementOfSeq, LenProperties DEF Unforced
    <3>2. Min(Unforced) \in DOMAIN dropped
      BY <2>1, <3>1, MinIs
    <3>3. dropped[Min(Unforced)] \in Ids
      BY <1>3, <3>2, ElementOfSeq, LenProperties
    <3>4. Child(dropped[Min(Unforced)]) \in States
      BY <1>2, <3>3, ChildTyped
    <3> QED
      BY <1>1, <1>2, <3>4
  <2>2. CASE Unforced = {}
    BY <1>1, <1>2, <2>2
  <2> QED
    BY <2>1, <2>2
<1>6. (dropped \in Seq(Ids))'
  BY <1>1, <1>2, <1>3
<1>7. Objective(cash) \in Int
  <2> DEFINE w == [e \in DOMAIN cash |-> cash[e] * edges[e].value]
  <2>1. DOMAIN cash = Ids /\ \A e \in Ids : cash[e] \in Nat
    BY <1>3 DEF Amounts
  <2>2. \A e \in Ids : edges[e].value \in Int
    BY <1>2, IdsAre DEF PairFacts
  <2>3. Numbers(w, Ids) /\ Objective(cash) = SumOf(w, Ids)
    BY <2>1, <2>2 DEF Numbers, Objective
  <2> HIDE DEF w
  <2> QED
    BY <1>2, <2>3, IdsAre, SumIsInt
<1>8. BestInv'
  <2>1. CASE best.objective < Objective(cash)
    <3>1. best' = [cash |-> cash, objective |-> Objective(cash)]
      BY <1>1, <2>1 DEF Better
    <3>2. best'.cash = cash /\ best'.objective = Objective(cash)
      BY <3>1
    <3>3. best'.cash \in Amounts'
      BY <1>2, <1>3, <3>2
    <3>4. WithinNetwork(best.cash)' /\ WithinRepairs(best.cash)'
      BY <1>1, <1>3, <1>4, <3>2, LimitsStay
    <3> QED
      BY <1>7, <3>2, <3>3, <3>4 DEF BestInv
  <2>2. CASE ~(best.objective < Objective(cash))
    <3>1. best' = best
      BY <1>1, <2>2 DEF Better
    <3> QED
      BY <1>1, <1>3, <3>1, BestStays
  <2> QED
    BY <2>1, <2>2
<1>9. NetworkInv' /\ CashInv' /\ AnswerInv'
  BY <1>1 DEF NetworkInv, CashInv, AnswerInv, Answers
<1> QED
  BY <1>2, <1>5, <1>6, <1>8, <1>9 DEF SolverInv

\* The verdict changes no notional.
LEMMA LimitsOfAnswerStay ==
    ASSUME asked' = asked, edges' = edges, solution' = solution,
           KeepsSupply, KeepsBudgets, KeepsExposure, KeepsEligibility
    PROVE  KeepsSupply' /\ KeepsBudgets' /\ KeepsExposure' /\ KeepsEligibility'
<1>1. Ids' = Ids
  BY DEF Ids
<1>2. /\ \A e : Lot(e)' = Lot(e) /\ BidOf(e)' = BidOf(e)
      /\ \A i : OfLot(i)' = OfLot(i) /\ OfBid(i)' = OfBid(i)
  BY <1>1 DEF Lot, BidOf, OfLot, OfBid
<1>3. \A e : /\ SameIssuer(e)' = SameIssuer(e) /\ SameDebtor(e)' = SameDebtor(e)
             /\ SameGrade(e)' = SameGrade(e)
  BY <1>2 DEF SameIssuer, SameDebtor, SameGrade
<1>4. Allocated' = Allocated
  BY <1>1 DEF Allocated
<1>5. \A S : Paid(S)' = Paid(S)
  BY <1>2 DEF Paid, Price
<1> QED
  BY <1>1, <1>2, <1>3, <1>4, <1>5 DEF KeepsSupply, KeepsBudgets, KeepsExposure, KeepsEligibility

\* Turning the best cash into notional keeps every limit the cash kept.
LEMMA MaterializeKeeps == ASSUME SolverInv, Materialize PROVE SolverInv'
<1> DEFINE c == IF best.objective < 0 THEN [e \in Ids |-> 0] ELSE best.cash
<1>1. /\ phase = "materialize" /\ phase' = "verify" /\ solution' = Materialized(c)
      /\ UNCHANGED flowVars
      /\ asked' = asked /\ edges' = edges /\ st' = st /\ best' = best /\ dropped' = dropped
  BY DEF Materialize
<1>2. /\ PairsInv /\ PairsInv' /\ EarlyInv' /\ (st' \in States => StateInv') /\ st \in States
      /\ (dropped' \in Seq(Ids) => (dropped \in Seq(Ids))')
      /\ BestInv' /\ FlowInv' /\ Amounts' = Amounts /\ Ids' = Ids
  BY <1>1, Frame
<1>3. (dropped \in Seq(Ids))' /\ StateInv'
  BY <1>1, <1>2 DEF SolverInv
<1>4. NetworkInv' /\ CashInv'
  BY <1>1 DEF NetworkInv, CashInv
<1>5. c \in Amounts /\ WithinNetwork(c) /\ WithinRepairs(c)
  <2>1. BestInv
    BY DEF SolverInv
  <2>2. CASE best.objective < 0
    <3>1. c = [e \in Ids |-> 0]
      BY <2>2
    <3> HIDE DEF c
    <3> QED
      BY <1>2, <3>1, NothingKeeps
  <2>3. CASE ~(best.objective < 0)
    BY <2>1, <2>3 DEF BestInv
  <2> QED
    BY <2>2, <2>3
<1>6. AnswerInv'
  <2> HIDE DEF c
  <2>1. KeepsSupply' /\ KeepsBudgets' /\ KeepsExposure' /\ KeepsEligibility'
    BY <1>1, <1>2, <1>5, NotionalKeeps
  <2> QED
    BY <2>1 DEF AnswerInv
<1> QED
  BY <1>2, <1>3, <1>4, <1>6 DEF SolverInv

\* The verifier changes nothing but the phase.
LEMMA VerifyKeeps == ASSUME SolverInv, Verify PROVE SolverInv'
<1>1. /\ phase = "verify" /\ phase' \in {"cleared", "refused"} /\ solution' = solution
      /\ UNCHANGED flowVars
      /\ asked' = asked /\ edges' = edges /\ st' = st /\ best' = best /\ dropped' = dropped
  BY DEF Verify
<1>2. /\ PairsInv' /\ EarlyInv' /\ (st' \in States => StateInv') /\ st \in States
      /\ (dropped' \in Seq(Ids) => (dropped \in Seq(Ids))')
      /\ BestInv' /\ FlowInv'
  BY <1>1, Frame
<1>3. (dropped \in Seq(Ids))' /\ StateInv'
  BY <1>1, <1>2 DEF SolverInv
<1>4. NetworkInv' /\ CashInv'
  BY <1>1 DEF NetworkInv, CashInv
<1>5. AnswerInv'
  <2>1. KeepsSupply /\ KeepsBudgets /\ KeepsExposure /\ KeepsEligibility
    BY <1>1 DEF SolverInv, AnswerInv
  <2>2. KeepsSupply' /\ KeepsBudgets' /\ KeepsExposure' /\ KeepsEligibility'
    BY <1>1, <2>1, LimitsOfAnswerStay
  <2> QED
    BY <2>2 DEF AnswerInv
<1> QED
  BY <1>2, <1>3, <1>4, <1>5 DEF SolverInv

\* A step that changes nothing keeps the invariant.
LEMMA StutterKeeps == ASSUME SolverInv, UNCHANGED clearVars PROVE SolverInv'
<1>1. /\ phase' = phase /\ solution' = solution /\ cash' = cash
      /\ UNCHANGED flowVars /\ network' = network
      /\ asked' = asked /\ edges' = edges /\ st' = st /\ best' = best /\ dropped' = dropped
  BY DEF clearVars, flowVars
<1>2. PairsInv' /\ Ids' = Ids /\ States' = States /\ FlowInv' /\ BestInv'
  BY <1>1, PairsStay, FlowStays, BestStays DEF SolverInv
<1>3. EarlyInv' /\ StateInv' /\ (dropped \in Seq(Ids))'
  BY <1>1, <1>2 DEF SolverInv, EarlyInv, StateInv
<1>4. NetworkInv'
  BY <1>1, RelaxationStays DEF SolverInv, NetworkInv
<1>5. CashInv'
  BY <1>1, CashStays DEF SolverInv, CashInv
<1>6. AnswerInv'
  <2>1. CASE phase \in {"verify"} \cup Answers
    <3>1. KeepsSupply /\ KeepsBudgets /\ KeepsExposure /\ KeepsEligibility
      BY <2>1 DEF SolverInv, AnswerInv
    <3>2. KeepsSupply' /\ KeepsBudgets' /\ KeepsExposure' /\ KeepsEligibility'
      BY <1>1, <3>1, LimitsOfAnswerStay
    <3> QED
      BY <3>2 DEF AnswerInv
  <2>2. CASE phase \notin {"verify"} \cup Answers
    BY <1>1, <2>2 DEF AnswerInv, Answers
  <2> QED
    BY <2>1, <2>2
<1> QED
  BY <1>2, <1>3, <1>4, <1>5, <1>6 DEF SolverInv

\* The invariant of the solver holds of every clearing, from canonicalize to verify.
THEOREM ClearingInvariant == ClearSpec => []SolverInv
<1>1. ClearInit => SolverInv
  BY FarAway, StartHolds
<1>2. SolverInv /\ [ClearNext]_clearVars => SolverInv'
  <2> SUFFICES ASSUME SolverInv, [ClearNext]_clearVars PROVE SolverInv'
    OBVIOUS
  <2>1. CASE Canonicalize
    BY <2>1, FarAway, CanonicalizeKeeps
  <2>2. CASE Prune
    BY <2>2, FarAway, PruneKeeps
  <2>3. CASE Explore \/ StopExploring
    BY <2>3, ExploreKeeps
  <2>4. CASE Relax
    BY <2>4, FarAway, RelaxKeeps
  <2>5. CASE Push
    BY <2>5, FarAway, PushKeeps
  <2>6. CASE ReadFlow
    BY <2>6, ReadFlowKeeps
  <2>7. CASE Abandon
    BY <2>7, AbandonKeeps
  <2>8. CASE RepairExposure \/ RepairMinimumLots
    BY <2>8, RepairKeeps
  <2>9. CASE Branch
    BY <2>9, FarAway, BranchKeeps
  <2>10. CASE Materialize
    BY <2>10, MaterializeKeeps
  <2>11. CASE Verify
    BY <2>11, VerifyKeeps
  <2>12. CASE UNCHANGED clearVars
    BY <2>12, StutterKeeps
  <2> QED
    BY <2>1, <2>2, <2>3, <2>4, <2>5, <2>6, <2>7, <2>8, <2>9, <2>10, <2>11, <2>12 DEF ClearNext
<1> QED
  BY <1>1, <1>2, PTL DEF ClearSpec

\* minCostMaxFlow never leaves an edge above its capacity or below zero, and no node
\* but the source and the sink keeps or makes cash.
THEOREM FlowStaysFeasible == ClearSpec => []FlowIsFeasible
<1>1. SolverInv => FlowIsFeasible
  BY DEF SolverInv, FlowInv
<1> QED
  BY <1>1, ClearingInvariant, PTL

\* The best allocation solveRelaxed has found keeps supply, budgets, issuer, debtor and
\* grade limits and minimum lots at once, after any sequence of repairs and branches.
THEOREM CandidatesKeepTheRules == ClearSpec => []CandidateKeepsRules
<1>1. SolverInv => CandidateKeepsRules
  BY DEF SolverInv, BestInv, CandidateKeepsRules
<1> QED
  BY <1>1, ClearingInvariant, PTL

\* materialize rounds cash to notional without breaking a limit verifyExposure checks.
THEOREM NotionalKeepsTheLimits == ClearSpec => []MaterializedKeepsLimits
<1>1. SolverInv => MaterializedKeepsLimits
  BY DEF SolverInv, AnswerInv, MaterializedKeepsLimits
<1> QED
  BY <1>1, ClearingInvariant, PTL

-----------------------------------------------------------------------------
(* The prices of every solve *)
\* What a step of the solver does to the flow: a path is pushed along, or it is not.
LEMMA FlowSteps ==
    ASSUME [ClearNext]_clearVars
    PROVE  \/ Push
           \/ BuildNetwork(Relaxation)
           \/ UNCHANGED flowVars
<1>1. CASE Canonicalize \/ Prune \/ Explore \/ StopExploring \/ ReadFlow \/ Abandon
  BY <1>1 DEF Canonicalize, Prune, Explore, StopExploring, ReadFlow, Abandon
<1>2. CASE RepairExposure \/ RepairMinimumLots \/ Branch \/ Materialize \/ Verify
  BY <1>2 DEF RepairExposure, RepairMinimumLots, Branch, Materialize, Verify
<1>3. CASE Relax
  BY <1>3 DEF Relax
<1>4. CASE UNCHANGED clearVars
  BY <1>4 DEF clearVars
<1> QED
  BY <1>1, <1>2, <1>3, <1>4 DEF ClearNext

\* No node minCostMaxFlow has reached is priced below the path that reached it, in any
\* search of any solve: what Settle prices later lies above what it priced before.
THEOREM PathsArePriced == ClearSpec => []PriceInv
<1>1. ClearInit => PriceInv
  <2> SUFFICES ASSUME ClearInit PROVE PriceInv
    OBVIOUS
  <2>1. dist = NoDistance(network) /\ augmentations = 0 /\ settled = {}
    BY DEF ClearInit
  <2>2. \A v \in Nodes \ {Source} : dist[v] = Unreachable
    BY <2>1 DEF NoDistance, Nodes, Sink, Source
  <2> QED
    BY <2>1, <2>2 DEF PriceInv
<1>2. SolverInv /\ PriceInv /\ [ClearNext]_clearVars => PriceInv'
  <2> SUFFICES ASSUME SolverInv, PriceInv, [ClearNext]_clearVars PROVE PriceInv'
    OBVIOUS
  <2>1. CASE Push
    <3>1. StartFlow \/ Settle \/ Augment(asked.params.maxAugmentations)
      BY <2>1 DEF Push
    <3>2. FlowInv
      BY DEF SolverInv
    <3> QED
      BY <3>1, <3>2, FarAway, SolvePrices
  <2>2. CASE BuildNetwork(Relaxation)
    BY <2>2, BuildPrices
  <2>3. CASE UNCHANGED flowVars
    BY <2>3, PricesStay
  <2> QED
    BY <2>1, <2>2, <2>3, FlowSteps
<1> QED
  BY <1>1, <1>2, ClearingInvariant, PTL DEF ClearSpec

\* minCostMaxFlow augments along paths that pay only: the surplus of the flow rises with
\* every one of them, although the potentials it prices them from need not be valid.
THEOREM EveryPathIsWorthIt == ClearSpec => EveryAugmentationPays
<1>1. SolverInv /\ PriceInv /\ [ClearNext]_clearVars
        => [Augmented => Worth(flow') > Worth(flow)]_flowVars
  <2> SUFFICES ASSUME SolverInv, PriceInv, [ClearNext]_clearVars, ~UNCHANGED flowVars, Augmented
               PROVE  Worth(flow') > Worth(flow)
    OBVIOUS
  <2>1. FlowInv /\ augmentations \in Nat
    BY DEF SolverInv, PriceInv
  <2>2. flow' # flow /\ augmentations' = augmentations + 1
    BY DEF Augmented
  <2>3. CASE Push
    <3>1. Augment(asked.params.maxAugmentations)
      BY <2>2, <2>3 DEF Push, StartFlow, Settle
    <3> QED
      BY <2>1, <3>1, AugmentEarns
  <2>4. CASE BuildNetwork(Relaxation)
    BY <2>1, <2>2, <2>4 DEF BuildNetwork
  <2> QED
    BY <2>3, <2>4, FlowSteps
<1> QED
  BY <1>1, ClearingInvariant, PathsArePriced, PTL DEF ClearSpec, EveryAugmentationPays

=============================================================================
