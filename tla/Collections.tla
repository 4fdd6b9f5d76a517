----------------------------- MODULE Collections -----------------------------
(***************************************************************************)
(* What the debtor pays (app/collections, redemption): an operator records *)
(* the payment of a settled receivable or declares it in default.  The     *)
(* payment is divided among those who hold the receivable, in proportion   *)
(* to what they hold, and the receivable is closed in one transaction with *)
(* it.  Transactions are READ COMMITTED: requests for one receivable       *)
(* interleave, and what one has read may be old when it writes.            *)
(***************************************************************************)
EXTENDS Sums

CONSTANTS
    Parties,      \* who may hold a part of the receivable, numbered in the order of their ids
    Issuer,       \* who sold it, and holds what was not sold
    Books,        \* receivables: [face, notional, investor], functions of the transfers
    References,   \* payment references as a request may spell them
    Trimmed(_),   \* the spelling without the spaces around it
    Requests      \* bound: how many requests are under way at once

ASSUME CollectionsAssumption ==
    /\ Parties \subseteq Nat /\ IsFiniteSet(Parties) /\ Issuer \in Parties
    /\ \A b \in Books :
         /\ b.face \in Nat \ {0} /\ b.investor \in [DOMAIN b.notional -> Parties]
         /\ IsFiniteSet(DOMAIN b.notional) /\ \A t \in DOMAIN b.notional : b.notional[t] \in Nat
    /\ \A s \in References : Trimmed(s) \in References /\ Trimmed(Trimmed(s)) = Trimmed(s)

VARIABLES
    book,        \* the receivable and the transfers of it
    finished,    \* transfers that are accounted
    invoice,     \* [status, version]
    overdue,     \* DueAt has passed
    repayment,   \* the row of the payment with its shares
    call,        \* the requests under way, with what they read
    answered     \* history: the payments requests were told are on record

vars == <<book, finished, invoice, overdue, repayment, call, answered>>

Payments == [amount : 1..(book.face + 1), reference : References]
Idle == [op |-> "none"]
NoPayment == [amount |-> 0]   \* no row: a payment is more than nothing
Transfers == DOMAIN book.notional

Init ==
    /\ book \in Books
    /\ finished \in (SUBSET Transfers) \ {{}}
    /\ invoice = [status |-> "SETTLED", version |-> 1]
    /\ overdue = FALSE
    /\ repayment = NoPayment
    /\ call = [r \in Requests |-> Idle]
    /\ answered = {}

-----------------------------------------------------------------------------
(***************************************************************************)
(* Distribute: each holder gets the whole part of its proportion, and the  *)
(* units that are left go to the largest remainders first, ties by party.  *)
(***************************************************************************)
Whole(amount, held) ==
    [p \in DOMAIN held |-> (amount * held[p]) \div SumOf(held, DOMAIN held)]
Remainder(amount, held) ==
    [p \in DOMAIN held |-> (amount * held[p]) % SumOf(held, DOMAIN held)]

\* Mutant: the units that are left go to the parties in the order of their ids.
MutInOrder(rest, p) == {q \in DOMAIN rest : q < p}
Ahead(rest, p) == {q \in DOMAIN rest : rest[q] > rest[p] \/ (rest[q] = rest[p] /\ q < p)}

Distribute(amount, held) ==
    LET whole == Whole(amount, held)
        rest == Remainder(amount, held)
        left == amount - SumOf(whole, DOMAIN held)
    IN [p \in DOMAIN held |->
          [notional |-> held[p],
           amount |-> whole[p] + IF Cardinality(Ahead(rest, p)) < left THEN 1 ELSE 0]]

\* New: the payment with the shares of those who hold the receivable.
NewRepayment(payment, held) ==
    [amount |-> payment.amount, reference |-> Trimmed(payment.reference),
     shares |-> Distribute(payment.amount, held)]

\* holdersOf: transfers that are finished, one holder for all that an investor
\* won; what was not sold stays with the issuer.
Sold == SumOf(book.notional, finished)
Bought(p) == SumOf(book.notional, {t \in finished : book.investor[t] = p})
Holds(p) == Bought(p) + IF p = Issuer THEN book.face - Sold ELSE 0
HoldersOf == [p \in {q \in Parties : Holds(q) > 0} |-> Holds(p)]

-----------------------------------------------------------------------------
\* A transfer that was still under way is accounted: of a receivable that is
\* settled already no other row changes, and of one that is closed MarkSettled
\* refuses (Settlement has the transaction in its steps).
Account(t) ==
    /\ t \notin finished /\ invoice.status = "SETTLED"
    /\ finished' = finished \cup {t}
    /\ UNCHANGED <<book, invoice, overdue, repayment, call, answered>>

FallDue ==
    /\ ~overdue /\ overdue' = TRUE
    /\ UNCHANGED <<book, finished, invoice, repayment, call, answered>>

Return(r) == call' = [call EXCEPT ![r] = Idle]

\* Get: the receivable is read with its version.
Begin(r, request) ==
    /\ call[r] = Idle
    /\ call' = [call EXCEPT ![r] = request]
    /\ UNCHANGED <<book, finished, invoice, overdue, repayment, answered>>

ReadToRecord(r, payment) == Begin(r, [op |-> "record", payment |-> payment, row |-> invoice])

ReadToDefault(r) ==
    /\ invoice.status = "SETTLED" /\ overdue
    /\ Begin(r, [op |-> "default", row |-> invoice])

\* A guard refuses, a conditional write finds another version or a unique key
\* taken, the connection is lost: the transaction is rolled back.
GiveUp(r) ==
    /\ call[r] # Idle /\ Return(r)
    /\ UNCHANGED <<book, finished, invoice, overdue, repayment, answered>>

\* GetByInvoice finds the payment on record, which is the answer when it is
\* what the request asks to record: the reference as the request spells it.
\* Mutant: whatever is on record is the answer.
MutAnyPayment(payment) == TRUE
IsOnRecord(payment) ==
    repayment.amount = payment.amount /\ repayment.reference = payment.reference

Replay(r) ==
    /\ call[r].op = "record" /\ repayment # NoPayment
    /\ IsOnRecord(call[r].payment)
    /\ answered' = answered \cup {call[r].payment}
    /\ Return(r)
    /\ UNCHANGED <<book, finished, invoice, overdue, repayment>>

\* Nothing is on record and the receivable was SETTLED when it was read: the
\* transfers are read.
ReadHolders(r) ==
    /\ call[r].op = "record" /\ repayment = NoPayment
    /\ call[r].row.status = "SETTLED" /\ Sold <= book.face
    /\ call[r].payment.amount <= book.face
    /\ call' = [call EXCEPT ![r] = [op |-> "divide", payment |-> @.payment, row |-> @.row,
                                    holders |-> HoldersOf]]
    /\ UNCHANGED <<book, finished, invoice, overdue, repayment, answered>>

\* Update, and Create under the key on the receivable.
\* Mutant: the update does not compare versions.
MutAnyVersion(row) == TRUE
Unmoved(row) == invoice.version = row.version
Close(status) == invoice' = [status |-> status, version |-> invoice.version + 1]

\* A receivable the debtor paid short did not come good.
Outcome(amount) == IF amount < book.face THEN "DEFAULTED" ELSE "MATURED"

Record(r) ==
    LET payment == call[r].payment IN
    /\ call[r].op = "divide" /\ repayment = NoPayment /\ Unmoved(call[r].row)
    /\ repayment' = NewRepayment(payment, call[r].holders)
    /\ Close(Outcome(payment.amount))
    /\ answered' = answered \cup {payment}
    /\ Return(r)
    /\ UNCHANGED <<book, finished, overdue>>

Default(r) ==
    /\ call[r].op = "default" /\ Unmoved(call[r].row)
    /\ Close("DEFAULTED")
    /\ Return(r)
    /\ UNCHANGED <<book, finished, overdue, repayment, answered>>

Next ==
    \/ \E t \in Transfers : Account(t)
    \/ FallDue
    \/ \E r \in Requests :
         \/ \E payment \in Payments : ReadToRecord(r, payment)
         \/ ReadToDefault(r) \/ GiveUp(r) \/ Replay(r) \/ ReadHolders(r) \/ Record(r) \/ Default(r)

Spec == Init /\ [][Next]_vars

-----------------------------------------------------------------------------
(***************************************************************************)
(* An invoice in collections is settled or closed, a request is reading,   *)
(* dividing or declaring, and shares belong to parties.                    *)
(***************************************************************************)
Statuses == {"SETTLED", "MATURED", "DEFAULTED"}
Rows == [status : Statuses, version : 1..2]
Calls == {Idle} \cup [op : {"record"}, payment : Payments, row : Rows]
                 \cup [op : {"default"}, row : Rows]
DividingCall(c) ==
    /\ c.op = "divide" /\ c.row \in Rows
    /\ c.payment \in Payments /\ c.payment.amount <= book.face
    /\ DOMAIN c.holders \subseteq Parties
TypeOK ==
    /\ book \in Books /\ finished \subseteq Transfers /\ overdue \in BOOLEAN
    /\ invoice \in Rows
    /\ answered \subseteq Payments
    /\ DOMAIN call = Requests
    /\ \A r \in Requests : call[r] \in Calls \/ DividingCall(call[r])
    /\ repayment # NoPayment => /\ repayment.amount \in 1..book.face
                          /\ DOMAIN repayment.shares \subseteq Parties

(***************************************************************************)
(* What was paid is handed out whole, and fairly: no share is a unit or    *)
(* more away from its exact part of the face, and of two holders the one   *)
(* that holds more never gets less (redemption/distribute.go:85-109).      *)
(***************************************************************************)
PaymentIsDivided ==
    repayment # NoPayment =>
      LET shares == repayment.shares
          off(p) == shares[p].amount * book.face - repayment.amount * shares[p].notional
      IN /\ SumOf([p \in DOMAIN shares |-> shares[p].amount], DOMAIN shares) = repayment.amount
         /\ \A p \in DOMAIN shares : -book.face < off(p) /\ off(p) < book.face
         /\ \A p, q \in DOMAIN shares :
              shares[p].notional > shares[q].notional => shares[p].amount >= shares[q].amount

(***************************************************************************)
(* The receivable and the payment tell one story, whoever recorded or      *)
(* declared what meanwhile: matured is paid in full, a payment on record   *)
(* closes, and only what was never or not wholly paid is in default        *)
(* (app/collections/service.go:107-109: they all commit together).         *)
(***************************************************************************)
ClosedAsPaid ==
    IF repayment = NoPayment THEN invoice.status \in {"SETTLED", "DEFAULTED"}
    ELSE invoice.status = Outcome(repayment.amount)

(***************************************************************************)
(* Nobody is told that a payment is on record which is not: of all the     *)
(* requests answered, retried and concurrent ones, each was told of the    *)
(* one payment that divides the receivable (service.go:129-140).           *)
(***************************************************************************)
AnswersAreOnRecord ==
    \A payment \in answered :
      /\ repayment # NoPayment
      /\ repayment.amount = payment.amount /\ repayment.reference = Trimmed(payment.reference)

(***************************************************************************)
(* What is closed stays as it is: no request in flight moves a receivable  *)
(* that another has closed, or divides a payment again.                    *)
(***************************************************************************)
ClosedIsFinal ==
    [][invoice.status # "SETTLED" => UNCHANGED <<invoice, repayment>>]_vars
=============================================================================
