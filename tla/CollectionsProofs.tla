-------------------------- MODULE CollectionsProofs --------------------------
(***************************************************************************)
(* Proofs about Collections, for every receivable, number of holders and   *)
(* requests.                                                               *)
(*                                                                         *)
(* Everything rests on the version: a receivable has version 1 while it is *)
(* settled and version 2 once it is closed, so a request that read it as   *)
(* settled and finds its version unmoved is the only one that closes it.   *)
(*                                                                         *)
(* That nothing of a payment is lost or invented in its division needs     *)
(* sums over the holders, and what they compute is in SumProofs.           *)
(***************************************************************************)
EXTENDS Collections, SumProofs

\* What the version says of the receivable and of what was read of it.
SettledIsFirst(row) == row.version = 1 <=> row.status = "SETTLED"
VersionTells ==
    /\ SettledIsFirst(invoice)
    /\ \A r \in Requests : call[r] # Idle => SettledIsFirst(call[r].row)
    /\ \A r \in Requests : call[r].op \in {"divide", "default"} => call[r].row.status = "SETTLED"

\* The reference on record is spelled without spaces.
RecordIsTrim ==
    repayment # NoPayment => /\ Trimmed(repayment.reference) = repayment.reference

IInv == TypeOK /\ VersionTells /\ ClosedAsPaid /\ RecordIsTrim /\ AnswersAreOnRecord

\* The shape of one request in flight: a request does one of four things.
LEMMA OneCall ==
    ASSUME TypeOK, NEW r \in Requests
    PROVE  /\ call[r].op \in {"none", "record", "default", "divide"}
           /\ call[r] # Idle => call[r].row \in Rows
           /\ call[r].op \in {"record", "divide"} => call[r].payment \in Payments
           /\ call[r].op # "none" => call[r] # Idle
PROOF BY DEF TypeOK, Calls, DividingCall, Idle

LEMMA PaymentParts ==
    ASSUME NEW payment \in Payments
    PROVE  payment.amount \in 1..(book.face + 1) /\ payment.reference \in References
PROOF BY DEF Payments

\* Distribute names the holders it is given, and no other.
LEMMA SharesOfHolders ==
    ASSUME NEW amount, NEW held
    PROVE  DOMAIN Distribute(amount, held) = DOMAIN held
PROOF BY DEF Distribute

\* At first the receivable is settled and nobody has asked for anything.
LEMMA InitIInv == Init => IInv
<1> SUFFICES ASSUME Init PROVE IInv
  OBVIOUS
<1> USE DEF Init
<1>1. TypeOK
  <2>1. invoice \in Rows
    BY DEF Rows, Statuses
  <2>2. DOMAIN call = Requests /\ \A r \in Requests : call[r] \in Calls
    BY DEF Calls
  <2> QED
    BY <2>1, <2>2 DEF TypeOK, Transfers
<1>2. VersionTells
  BY DEF VersionTells, SettledIsFirst, Idle
<1>3. ClosedAsPaid /\ RecordIsTrim /\ AnswersAreOnRecord
  BY DEF ClosedAsPaid, RecordIsTrim, AnswersAreOnRecord
<1> QED
  BY <1>1, <1>2, <1>3 DEF IInv

\* Between the reading and the writing of a request: only its own call changes.
LEMMA BeginKeeps ==
    ASSUME IInv, NEW r \in Requests, NEW request, Begin(r, request),
           request \in Calls \ {Idle}, request.row = invoice,
           request.op = "default" => invoice.status = "SETTLED"
    PROVE  IInv'
<1> USE DEF IInv, Begin
<1>1. \A q \in Requests : call'[q] = IF q = r THEN request ELSE call[q]
  BY DEF TypeOK
<1>2. TypeOK'
  BY <1>1 DEF TypeOK, Rows, Statuses, Calls, DividingCall, Payments, Transfers
<1>3. request.op # "divide"
  BY DEF Calls, Idle
<1>4. VersionTells'
  BY <1>1, <1>3 DEF VersionTells, SettledIsFirst
<1>5. (ClosedAsPaid /\ RecordIsTrim /\ AnswersAreOnRecord)'
  BY DEF ClosedAsPaid, RecordIsTrim, AnswersAreOnRecord, Outcome
<1> QED
  BY <1>2, <1>4, <1>5

\* A request that ends leaves the others as they are.
LEMMA ReturnKeeps ==
    ASSUME TypeOK, NEW r \in Requests, Return(r), book' = book
    PROVE  /\ DOMAIN call' = Requests
           /\ \A q \in Requests : call'[q] = IF q = r THEN Idle ELSE call[q]
           /\ \A q \in Requests : call'[q] \in Calls' \/ DividingCall(call[q])' \/ call'[q] = Idle
           /\ \A q \in Requests : (call[q] \in Calls \/ DividingCall(call[q]))'
<1>1. /\ DOMAIN call' = Requests
      /\ \A q \in Requests : call'[q] = IF q = r THEN Idle ELSE call[q]
  BY DEF TypeOK, Return
<1>2. \A q \in Requests : (call[q] \in Calls \/ DividingCall(call[q]))'
  BY <1>1 DEF TypeOK, Calls, DividingCall, Payments
<1> QED
  BY <1>1, <1>2

\* A request that closes the receivable is the one that found it settled.
LEMMA ClosingCall ==
    ASSUME IInv, NEW r \in Requests, call[r].op \in {"divide", "default"}, Unmoved(call[r].row)
    PROVE  /\ invoice = [status |-> "SETTLED", version |-> 1]
           /\ repayment = NoPayment
<1> USE DEF IInv
<1>1. call[r] # Idle
  BY DEF Idle
<1>2. call[r].row.version = 1
  BY <1>1 DEF VersionTells, SettledIsFirst
<1>3. invoice.status = "SETTLED" /\ invoice.version = 1
  BY <1>2 DEF Unmoved, VersionTells, SettledIsFirst
<1>4. repayment = NoPayment
  BY <1>3 DEF ClosedAsPaid, Outcome
<1> QED
  BY <1>3, <1>4 DEF TypeOK, Rows

LEMMA RecordKeeps ==
    ASSUME IInv, NEW r \in Requests, Record(r)
    PROVE  IInv'
<1> USE DEF IInv
<1> DEFINE payment == call[r].payment
<1>1. /\ call[r].op = "divide" /\ Unmoved(call[r].row) /\ Return(r) /\ book' = book
      /\ finished' = finished /\ overdue' = overdue
      /\ Close(Outcome(payment.amount))
      /\ answered' = answered \cup {payment}
      /\ repayment' = [amount |-> payment.amount, reference |-> Trimmed(payment.reference),
                       shares |-> Distribute(payment.amount, call[r].holders)]
  BY DEF Record, NewRepayment
<1>2. invoice = [status |-> "SETTLED", version |-> 1] /\ repayment = NoPayment
  BY <1>1, ClosingCall
<1>3. payment \in Payments /\ payment.reference \in References
  BY <1>1, OneCall, PaymentParts
<1>4. invoice' = [status |-> Outcome(payment.amount), version |-> 2]
  BY <1>1, <1>2 DEF Close
<1>5. Outcome(payment.amount) \in {"MATURED", "DEFAULTED"}
  BY DEF Outcome
<1>6. TypeOK'
  <2>1. DOMAIN repayment'.shares = DOMAIN call[r].holders
    BY <1>1, SharesOfHolders
  <2>2. DOMAIN call[r].holders \subseteq Parties
    BY <1>1 DEF TypeOK, Calls, DividingCall, Idle
  <2>3. repayment'.amount \in 1..book'.face
    <3>1. DividingCall(call[r])
      BY <1>1 DEF TypeOK, Calls, Idle
    <3>2. book.face \in Nat
      BY CollectionsAssumption DEF TypeOK
    <3> QED
      BY <1>1, <1>3, <3>1, <3>2, PaymentParts DEF DividingCall
  <2> QED
    BY <1>1, <1>3, <1>4, <1>5, <2>1, <2>2, <2>3, ReturnKeeps
    DEF TypeOK, Rows, Statuses, Payments, Transfers
<1>7. VersionTells'
  <2>1. \A q \in Requests : call'[q] = IF q = r THEN Idle ELSE call[q]
    BY <1>1, ReturnKeeps
  <2> QED
    BY <1>4, <1>5, <2>1 DEF VersionTells, SettledIsFirst, Idle
<1>8. (ClosedAsPaid /\ RecordIsTrim)'
  <2>1. repayment' # NoPayment
    BY <1>1, <1>3, PaymentParts DEF NoPayment
  <2>2. invoice'.status = Outcome(repayment.amount)'
    BY <1>1, <1>4 DEF Outcome
  <2>3. Trimmed(repayment'.reference) = repayment'.reference
    BY <1>1, <1>3, CollectionsAssumption
  <2> QED
    BY <2>1, <2>2, <2>3 DEF ClosedAsPaid, RecordIsTrim
<1>9. AnswersAreOnRecord'
  <2>1. answered = {}
    BY <1>2 DEF AnswersAreOnRecord
  <2>2. repayment' # NoPayment
    BY <1>1, <1>3, PaymentParts DEF NoPayment
  <2> QED
    BY <1>1, <2>1, <2>2 DEF AnswersAreOnRecord
<1> QED
  BY <1>6, <1>7, <1>8, <1>9

LEMMA DefaultKeeps ==
    ASSUME IInv, NEW r \in Requests, Default(r)
    PROVE  IInv'
<1> USE DEF IInv
<1>1. /\ call[r].op = "default" /\ Unmoved(call[r].row) /\ Return(r) /\ book' = book
      /\ finished' = finished /\ overdue' = overdue /\ repayment' = repayment
      /\ answered' = answered /\ Close("DEFAULTED")
  BY DEF Default
<1>2. invoice = [status |-> "SETTLED", version |-> 1] /\ repayment = NoPayment
  BY <1>1, ClosingCall
<1>3. invoice' = [status |-> "DEFAULTED", version |-> 2]
  BY <1>1, <1>2 DEF Close
<1>4. \A q \in Requests : call'[q] = IF q = r THEN Idle ELSE call[q]
  BY <1>1, ReturnKeeps
<1>5. TypeOK'
  BY <1>1, <1>2, <1>3, ReturnKeeps DEF TypeOK, Rows, Statuses, Payments, Transfers
<1>6. VersionTells'
  BY <1>3, <1>4 DEF VersionTells, SettledIsFirst, Idle
<1>7. (ClosedAsPaid /\ RecordIsTrim /\ AnswersAreOnRecord)'
  BY <1>1, <1>2, <1>3 DEF ClosedAsPaid, RecordIsTrim, AnswersAreOnRecord
<1> QED
  BY <1>5, <1>6, <1>7

\* A replay answers with what is on record, and that is spelled as it was asked.
LEMMA ReplayKeeps ==
    ASSUME IInv, NEW r \in Requests, Replay(r)
    PROVE  IInv'
<1> USE DEF IInv
<1> DEFINE payment == call[r].payment
<1>1. /\ call[r].op = "record" /\ repayment # NoPayment /\ IsOnRecord(payment) /\ Return(r)
      /\ answered' = answered \cup {payment}
      /\ UNCHANGED <<book, finished, invoice, overdue, repayment>>
  BY DEF Replay
<1>2. payment \in Payments
  BY <1>1, OneCall
<1>3. \A q \in Requests : call'[q] = IF q = r THEN Idle ELSE call[q]
  BY <1>1, ReturnKeeps
<1>4. TypeOK'
  BY <1>1, <1>2, ReturnKeeps DEF TypeOK, Rows, Statuses, Payments, Transfers
<1>5. VersionTells'
  BY <1>1, <1>3 DEF VersionTells, SettledIsFirst, Idle
<1>6. (ClosedAsPaid /\ RecordIsTrim)'
  BY <1>1 DEF ClosedAsPaid, RecordIsTrim, Outcome
<1>7. AnswersAreOnRecord'
  BY <1>1 DEF AnswersAreOnRecord, RecordIsTrim, IsOnRecord
<1> QED
  BY <1>4, <1>5, <1>6, <1>7

LEMMA ReadHoldersKeeps ==
    ASSUME IInv, NEW r \in Requests, ReadHolders(r)
    PROVE  IInv'
<1> USE DEF IInv
<1> DEFINE dividing == [op |-> "divide", payment |-> call[r].payment, row |-> call[r].row,
                        holders |-> HoldersOf]
<1>1. /\ call[r].op = "record" /\ call[r].row.status = "SETTLED"
      /\ call[r].payment.amount <= book.face
      /\ call' = [call EXCEPT ![r] = dividing]
      /\ UNCHANGED <<book, finished, invoice, overdue, repayment, answered>>
  BY DEF ReadHolders
<1>2. /\ DOMAIN call' = Requests
      /\ \A q \in Requests : call'[q] = IF q = r THEN dividing ELSE call[q]
  BY <1>1 DEF TypeOK
<1>3. call[r] # Idle /\ call[r].row \in Rows /\ call[r].payment \in Payments
  BY <1>1, OneCall
<1>4. DOMAIN HoldersOf \subseteq Parties
  BY DEF HoldersOf
<1>5. DividingCall(dividing)
  BY <1>1, <1>3, <1>4 DEF DividingCall
<1>6. TypeOK'
  BY <1>1, <1>2, <1>5 DEF TypeOK, Rows, Statuses, Calls, DividingCall, Payments, Transfers
<1>7. VersionTells'
  BY <1>1, <1>2, <1>3 DEF VersionTells, SettledIsFirst
<1>8. (ClosedAsPaid /\ RecordIsTrim /\ AnswersAreOnRecord)'
  BY <1>1 DEF ClosedAsPaid, RecordIsTrim, AnswersAreOnRecord, Outcome
<1> QED
  BY <1>6, <1>7, <1>8

\* What happens outside of requests, and a request that gives up.
LEMMA OutsideKeeps ==
    ASSUME IInv,
           UNCHANGED <<book, invoice, repayment, answered>>,
           finished' \subseteq Transfers, overdue' \in BOOLEAN,
           call' = call \/ \E r \in Requests : Return(r)
    PROVE  IInv'
<1> USE DEF IInv
<1>1. /\ DOMAIN call' = Requests
      /\ \A q \in Requests : call'[q] = call[q] \/ call'[q] = Idle
  BY ReturnKeeps DEF TypeOK
<1>2. TypeOK'
  BY <1>1 DEF TypeOK, Rows, Statuses, Calls, DividingCall, Payments, Transfers
<1>3. VersionTells'
  BY <1>1 DEF VersionTells, SettledIsFirst, Idle
<1>4. (ClosedAsPaid /\ RecordIsTrim /\ AnswersAreOnRecord)'
  BY DEF ClosedAsPaid, RecordIsTrim, AnswersAreOnRecord, Outcome
<1> QED
  BY <1>2, <1>3, <1>4

LEMMA NextIInv == IInv /\ [Next]_vars => IInv'
<1> SUFFICES ASSUME IInv, [Next]_vars PROVE IInv'
  OBVIOUS
<1>1. ASSUME NEW t \in Transfers, Account(t) PROVE IInv'
  BY <1>1, OutsideKeeps DEF Account, IInv, TypeOK
<1>2. CASE FallDue
  BY <1>2, OutsideKeeps DEF FallDue, IInv, TypeOK
<1>3. ASSUME NEW r \in Requests, NEW payment \in Payments, ReadToRecord(r, payment) PROVE IInv'
  <2> DEFINE request == [op |-> "record", payment |-> payment, row |-> invoice]
  <2>1. request \in Calls \ {Idle}
    BY DEF IInv, TypeOK, Calls, Idle
  <2> QED
    BY <1>3, <2>1, BeginKeeps DEF ReadToRecord
<1>4. ASSUME NEW r \in Requests, ReadToDefault(r) PROVE IInv'
  <2> DEFINE request == [op |-> "default", row |-> invoice]
  <2>1. request \in Calls \ {Idle}
    BY DEF IInv, TypeOK, Calls, Idle
  <2> QED
    BY <1>4, <2>1, BeginKeeps DEF ReadToDefault
<1>5. ASSUME NEW r \in Requests, GiveUp(r) PROVE IInv'
  BY <1>5, OutsideKeeps DEF GiveUp, IInv, TypeOK
<1>6. ASSUME NEW r \in Requests, Replay(r) \/ ReadHolders(r) \/ Record(r) \/ Default(r) PROVE IInv'
  BY <1>6, ReplayKeeps, ReadHoldersKeeps, RecordKeeps, DefaultKeeps
<1>7. CASE UNCHANGED vars
  BY <1>7, OutsideKeeps DEF vars, IInv, TypeOK
<1> QED
  BY <1>1, <1>2, <1>3, <1>4, <1>5, <1>6, <1>7 DEF Next

\* The receivable, the requests and the row keep their form, and IInv holds throughout.
THEOREM TypeIsInvariant == Spec => []TypeOK
<1>1. IInv => TypeOK
  BY DEF IInv
<1> QED
  BY <1>1, InitIInv, NextIInv, PTL DEF Spec

\* However recordings and declarations interleave, the receivable and the payment agree
\* (app/collections/service.go:107-109).
THEOREM ClosedAsPaidIsInvariant == Spec => []ClosedAsPaid
<1>1. IInv => ClosedAsPaid
  BY DEF IInv
<1> QED
  BY <1>1, InitIInv, NextIInv, PTL DEF Spec

\* Every request that was told a payment is on record was told of the one that is.
THEOREM AnswersAreOnRecordIsInvariant == Spec => []AnswersAreOnRecord
<1>1. IInv => AnswersAreOnRecord
  BY DEF IInv
<1> QED
  BY <1>1, InitIInv, NextIInv, PTL DEF Spec

\* A step from a receivable that is closed leaves it and its payment alone.
LEMMA ClosedStep ==
    ASSUME IInv, [Next]_vars, invoice.status # "SETTLED"
    PROVE  UNCHANGED <<invoice, repayment>>
<1>1. \A r \in Requests : ~Record(r) /\ ~Default(r)
  BY ClosingCall DEF Record, Default
<1> QED
  BY <1>1 DEF Next, vars, Account, FallDue, ReadToRecord, ReadToDefault, Begin, GiveUp, Replay,
              ReadHolders

\* What is closed stays as it is, whatever request is still in flight.
THEOREM ClosedIsForGood == Spec => ClosedIsFinal
<1>1. IInv /\ [Next]_vars =>
        [invoice.status # "SETTLED" => UNCHANGED <<invoice, repayment>>]_vars
  BY ClosedStep
<1> QED
  BY <1>1, InitIInv, NextIInv, PTL DEF Spec, ClosedIsFinal

-----------------------------------------------------------------------------
(* What every holder gets *)

\* Of two holders one is ahead of the other, and nobody of itself.
LEMMA AheadOrders ==
    ASSUME NEW rest, DOMAIN rest \subseteq Nat, \A p \in DOMAIN rest : rest[p] \in Nat
    PROVE  \A p, q \in DOMAIN rest :
             /\ p \notin Ahead(rest, p)
             /\ p # q => p \in Ahead(rest, q) \/ q \in Ahead(rest, p)
             /\ q \in Ahead(rest, p) => Ahead(rest, q) \subseteq Ahead(rest, p) /\ p \notin Ahead(rest, q)
BY DEF Ahead

\* As many are first as there is room for.
LEMMA FirstOnes ==
    ASSUME NEW rest, DOMAIN rest \subseteq Nat, \A p \in DOMAIN rest : rest[p] \in Nat,
           IsFiniteSet(DOMAIN rest), NEW n \in 0..Cardinality(DOMAIN rest)
    PROVE  Cardinality({p \in DOMAIN rest : Cardinality(Ahead(rest, p)) < n}) = n
<1> DEFINE D == DOMAIN rest
           A(p) == Ahead(rest, p)
           Top(T, k) == T \in SUBSET D /\ Cardinality(T) = k /\ \A p \in T : A(p) \subseteq T
<1>1. /\ \A p \in D : A(p) \in SUBSET D
      /\ \A T \in SUBSET D : IsFiniteSet(T) /\ Cardinality(T) \in Nat
      /\ Cardinality(D) \in Nat
  BY FS_Subset, FS_CardinalityType DEF Ahead
<1>2. \A p, q \in D : /\ p \notin A(p)
                      /\ p # q => p \in A(q) \/ q \in A(p)
                      /\ q \in A(p) => A(q) \subseteq A(p) /\ p \notin A(q)
  BY AheadOrders
<1> HIDE DEF D, A
<1>3. \E T : Top(T, n)
  <2> DEFINE Bad == {k \in 0..Cardinality(D) : ~ \E T : Top(T, k)}
  <2> SUFFICES ASSUME Bad # {} PROVE FALSE
    BY DEF D
  <2>1. PICK m \in Bad : \A k \in Bad : m <= k
    <3>1. Bad \in SUBSET Nat
      BY <1>1
    <3> QED
      BY <3>1, LeastOf
  <2>2. m # 0
    <3>1. Top({}, 0)
      BY FS_EmptySet
    <3> QED
      BY <2>1, <3>1
  <2>3. m - 1 \in 0..Cardinality(D) /\ m - 1 \notin Bad /\ m <= Cardinality(D)
    BY <1>1, <2>1, <2>2
  <2>4. PICK T : Top(T, m - 1)
    BY <2>3
  <2>5. T # D
    BY <1>1, <2>3, <2>4
  <2> DEFINE N == {Cardinality(A(p)) : p \in D \ T}
  <2>6. PICK p \in D \ T : \A q \in D \ T : Cardinality(A(p)) <= Cardinality(A(q))
    <3>1. N \in SUBSET Nat /\ N # {}
      BY <1>1, <2>4, <2>5
    <3>2. PICK c \in N : \A d \in N : c <= d
      BY <3>1, LeastOf
    <3> QED
      BY <3>2
  <2>7. A(p) \subseteq T
    <3> SUFFICES ASSUME NEW q \in A(p), q \notin T PROVE FALSE
      OBVIOUS
    <3>1. q \in D \ T /\ A(q) \subseteq A(p) /\ q \notin A(q)
      BY <1>1, <1>2, <2>6
    <3>2. IsFiniteSet(A(p)) /\ Cardinality(A(p)) \in Nat /\ Cardinality(A(q)) \in Nat
      BY <1>1, <2>6, <3>1
    <3>3. Cardinality(A(q)) <= Cardinality(A(p)) /\ (Cardinality(A(p)) = Cardinality(A(q)) => A(p) = A(q))
      BY <3>1, <3>2, FS_Subset
    <3>4. A(p) = A(q)
      BY <2>6, <3>1, <3>2, <3>3
    <3> QED
      BY <3>1, <3>4
  <2>8. Top(T \cup {p}, m)
    <3>1. Cardinality(T \cup {p}) = Cardinality(T) + 1
      BY <1>1, <2>4, <2>6, FS_AddElement
    <3>2. Cardinality(T \cup {p}) = m
      BY <2>1, <2>4, <3>1
    <3> QED
      BY <2>4, <2>6, <2>7, <3>2
  <2> QED
    BY <2>1, <2>8
<1>4. PICK T : Top(T, n)
  BY <1>3
<1>5. ASSUME NEW p \in D PROVE Cardinality(A(p)) < n <=> p \in T
  <2>1. IsFiniteSet(T) /\ IsFiniteSet(A(p)) /\ Cardinality(A(p)) \in Nat /\ Cardinality(T) = n
    BY <1>1, <1>4
  <2>2. CASE p \in T
    <3>1. A(p) \in SUBSET T /\ A(p) # T
      BY <1>2, <1>4, <2>2
    <3>2. Cardinality(A(p)) <= Cardinality(T) /\ (Cardinality(T) = Cardinality(A(p)) => T = A(p))
      BY <2>1, <3>1, FS_Subset
    <3> QED
      BY <2>1, <2>2, <3>1, <3>2
  <2>3. CASE p \notin T
    <3>1. T \in SUBSET A(p)
      BY <1>2, <1>4, <2>3
    <3>2. Cardinality(T) <= Cardinality(A(p))
      BY <2>1, <3>1, FS_Subset
    <3> QED
      BY <2>1, <2>3, <3>2
  <2> QED
    BY <2>2, <2>3
<1>6. {p \in D : Cardinality(A(p)) < n} = T
  BY <1>4, <1>5
<1> QED
  BY <1>4, <1>6 DEF D, A
\* Whole part and remainder.
LEMMA DivMod ==
    ASSUME NEW a \in Nat, NEW k \in Nat \ {0}
    PROVE  a \div k \in Nat /\ (a % k) \in 0..(k - 1) /\ k * (a \div k) + (a % k) = a
OBVIOUS

\* Products of naturals are naturals.
LEMMA Products == \A a, b \in Nat : a * b \in Nat
OBVIOUS

\* One more factor is k more.
LEMMA Monotone ==
    ASSUME NEW k \in Nat, NEW a \in Int, NEW b \in Int, a + 1 <= b
    PROVE  k * a + k <= k * b
<1>1. k * (a + 1) <= k * b
  OBVIOUS
<1>2. k * (a + 1) = k * a + k
  OBVIOUS
<1> QED
  BY <1>1, <1>2

\* k left = rests, and the rests of n holders are all below k.
LEMMA LeftIsSmall ==
    ASSUME NEW k \in Nat \ {0}, NEW left \in Int, NEW rests \in Nat, NEW n \in Nat,
           k * left = rests, rests <= (k - 1) * n
    PROVE  left \in 0..n
<1>1. left >= 0
  <2>1. ASSUME left < 0 PROVE k * left < 0
    BY <2>1
  <2> QED
    BY <2>1
<1>2. left <= n
  <2> SUFFICES ASSUME left >= n + 1 PROVE FALSE
    OBVIOUS
  <2>1. k * left >= k * (n + 1)
    OBVIOUS
  <2>2. k * (n + 1) = k * n + k /\ (k - 1) * n = k * n - n
    OBVIOUS
  <2> QED
    BY <2>1, <2>2
<1> QED
  BY <1>1, <1>2

\* Every unit is handed out, and nobody gets a unit more or less than its part.
LEMMA Division ==
    ASSUME NEW amount \in Nat, NEW held, DOMAIN held \subseteq Nat, IsFiniteSet(DOMAIN held),
           \A p \in DOMAIN held : held[p] \in Nat, SumOf(held, DOMAIN held) > 0
    PROVE  LET k == SumOf(held, DOMAIN held)
               w == Whole(amount, held)
               r == Remainder(amount, held)
               left == amount - SumOf(w, DOMAIN held)
           IN /\ k \in Nat \ {0}
              /\ \A p \in DOMAIN held : w[p] \in Nat /\ r[p] \in 0..(k - 1) /\ k * w[p] + r[p] = amount * held[p]
              /\ SumOf(w, DOMAIN held) \in Int
              /\ left \in 0..Cardinality({p \in DOMAIN held : r[p] > 0})
<1> DEFINE D == DOMAIN held
           k == SumOf(held, D)
           w == Whole(amount, held)
           r == Remainder(amount, held)
           left == amount - SumOf(w, D)
           m == Cardinality({p \in D : r[p] > 0})
<1>1. k \in Nat \ {0}
  <2>1. k \in Int
    BY SumIsInt DEF Numbers
  <2> QED
    BY <2>1
<1>2. ASSUME NEW p \in D
      PROVE  w[p] \in Nat /\ r[p] \in 0..(k - 1) /\ k * w[p] + r[p] = amount * held[p]
  <2> DEFINE a == amount * held[p]
  <2>1. a \in Nat
    BY Products
  <2>2. w[p] = a \div k /\ r[p] = a % k
    BY DEF Whole, Remainder
  <2> HIDE DEF a, k, w, r
  <2>3. a \div k \in Nat /\ (a % k) \in 0..(k - 1) /\ k * (a \div k) + (a % k) = a
    BY <1>1, <2>1, DivMod
  <2> DEFINE q == a \div k
             x == a % k
  <2>4. w[p] = q /\ r[p] = x
    BY <2>2
  <2>5. q \in Nat /\ x \in 0..(k - 1) /\ k * q + x = a
    BY <2>3, Zenon
  <2> HIDE DEF q, x
  <2>6. w[p] \in Nat /\ r[p] \in 0..(k - 1) /\ k * w[p] + r[p] = a
    BY <2>4, <2>5
  <2> QED
    BY <2>6 DEF a
<1> HIDE DEF w, r
<1>3. Numbers(w, D) /\ Numbers(r, D) /\ Numbers(held, D)
  BY <1>1, <1>2 DEF Numbers
<1>4. k * SumOf(w, D) + SumOf(r, D) = amount * k
  <2>1. amount \in Int /\ k \in Int /\ \A p \in D : k * w[p] + r[p] = amount * held[p]
    BY <1>1, <1>2
  <2> HIDE DEF D
  <2>2. IsFiniteSet(D)
    BY DEF D
  <2> QED
    BY <1>3, <2>1, <2>2, SumOfQuotients
<1>5. SumOf(w, D) \in Int
  BY <1>3, SumIsInt
<1>6. SumOf(r, D) \in Nat /\ SumOf(r, D) <= (k - 1) * m
  BY <1>1, <1>2, SumOfRests
<1>7. m \in Nat
  BY FS_Subset, FS_CardinalityType
<1> HIDE DEF D, k, m
<1>8. k * left = SumOf(r, D)
  <2>1. k * left = k * amount - k * SumOf(w, D) /\ k * amount = amount * k
    BY <1>1, <1>5
  <2>2. k * amount \in Int /\ k * SumOf(w, D) \in Int
    BY <1>1, <1>5
  <2> HIDE DEF left
  <2> QED
    BY <1>4, <1>6, <2>1, <2>2
<1>9. left \in 0..m
  <2>1. left \in Int
    BY <1>5
  <2> HIDE DEF left
  <2> QED
    BY <1>1, <1>6, <1>7, <1>8, <2>1, LeftIsSmall
<1> QED
  BY <1>1, <1>2, <1>5, <1>9 DEF D, k, w, r, m
\* Distribute hands out the whole amount; no share is a unit or more away from its part; who
\* holds more gets no less.
LEMMA DistributeIsFair ==
    ASSUME NEW amount \in Nat \ {0}, NEW held, DOMAIN held \subseteq Nat, IsFiniteSet(DOMAIN held),
           \A p \in DOMAIN held : held[p] \in Nat, SumOf(held, DOMAIN held) > 0
    PROVE  LET k == SumOf(held, DOMAIN held)
               shares == Distribute(amount, held)
           IN /\ DOMAIN shares = DOMAIN held
              /\ \A p \in DOMAIN held : shares[p].notional = held[p]
              /\ SumOf([p \in DOMAIN shares |-> shares[p].amount], DOMAIN shares) = amount
              /\ \A p \in DOMAIN held :
                   LET off == shares[p].amount * k - amount * held[p] IN -k < off /\ off < k
              /\ \A p, q \in DOMAIN held : held[p] > held[q] => shares[p].amount >= shares[q].amount
<1> DEFINE D == DOMAIN held
           k == SumOf(held, D)
           w == Whole(amount, held)
           r == Remainder(amount, held)
           left == amount - SumOf(w, D)
           Some == {p \in D : r[p] > 0}
           rank(p) == Cardinality(Ahead(r, p))
           one == [p \in D |-> IF rank(p) < left THEN 1 ELSE 0]
           shares == Distribute(amount, held)
           paid == [p \in D |-> shares[p].amount]
<1>1. /\ k \in Nat \ {0}
      /\ \A p \in D : w[p] \in Nat /\ r[p] \in 0..(k - 1) /\ k * w[p] + r[p] = amount * held[p]
      /\ SumOf(w, D) \in Int
      /\ left \in 0..Cardinality(Some)
  BY Division
<1>2. DOMAIN r = D
  BY DEF Remainder
<1>3. /\ DOMAIN shares = D
      /\ \A p \in D : shares[p].notional = held[p] /\ shares[p].amount = w[p] + one[p]
  BY DEF Distribute
<1>4. D \subseteq Nat /\ IsFiniteSet(D) /\ \A p \in D : held[p] \in Nat
  OBVIOUS
<1> HIDE DEF D, w, r, shares, k
<1>5. IsFiniteSet(Some) /\ Cardinality(Some) \in Nat /\ Cardinality(Some) <= Cardinality(D) /\ Cardinality(D) \in Nat
  BY <1>4, FS_Subset, FS_CardinalityType
<1>6. ASSUME NEW p \in D
      PROVE  IsFiniteSet(Ahead(r, p)) /\ rank(p) \in Nat /\ one[p] \in 0..1
  <2>1. Ahead(r, p) \in SUBSET D
    BY <1>2 DEF Ahead
  <2>2. IsFiniteSet(Ahead(r, p)) /\ rank(p) \in Nat
    BY <1>4, <2>1, FS_Subset, FS_CardinalityType
  <2> QED
    BY <2>2
\* All of it is handed out.
<1>7. SumOf(paid, D) = amount
  <2> DEFINE First == {p \in D : rank(p) < left}
  <2>1. Cardinality(First) = left
    <3>1. left \in 0..Cardinality(D)
      BY <1>1, <1>5
    <3>2. \A p \in DOMAIN r : r[p] \in Nat
      BY <1>1, <1>2
    <3> HIDE DEF left
    <3> QED
      BY <1>2, <1>4, <3>1, <3>2, FirstOnes
  <2>2. SumOf(one, D) = Cardinality(First)
    <3>1. First \in SUBSET D /\ \A p \in D : one[p] = IF p \in First THEN 1 ELSE 0
      OBVIOUS
    <3> HIDE DEF First, one
    <3> QED
      BY <1>4, <3>1, SumOfOnes
  <2>3. Numbers(w, D) /\ Numbers(one, D) /\ Numbers(paid, D) /\ \A p \in D : paid[p] = w[p] + one[p]
    BY <1>1, <1>3, <1>6 DEF Numbers
  <2> HIDE DEF paid, one
  <2>4. SumOf(paid, D) = SumOf(w, D) + SumOf(one, D)
    BY <1>4, <2>3, SumOfPairs
  <2> QED
    BY <1>1, <2>1, <2>2, <2>4
\* A unit more goes to those with a remainder only.
<1>8. ASSUME NEW p \in D, one[p] = 1 PROVE r[p] > 0
  <2> SUFFICES ASSUME ~(r[p] > 0) PROVE FALSE
    OBVIOUS
  <2>1. Some \in SUBSET Ahead(r, p)
    BY <1>1, <1>2 DEF Ahead
  <2>2. Cardinality(Some) <= rank(p)
    BY <1>6, <2>1, FS_Subset
  <2>3. rank(p) < left
    BY <1>8
  <2> QED
    BY <1>1, <1>5, <1>6, <2>2, <2>3
<1>9. ASSUME NEW p \in D
      PROVE  -k < shares[p].amount * k - amount * held[p] /\ shares[p].amount * k - amount * held[p] < k
  <2> DEFINE b == one[p]
  <2>1. b \in 0..1 /\ w[p] \in Nat /\ r[p] \in 0..(k - 1) /\ (b = 1 => r[p] > 0)
    BY <1>1, <1>6, <1>8
  <2>2. shares[p].amount = w[p] + b /\ amount * held[p] = k * w[p] + r[p]
    BY <1>1, <1>3
  <2> HIDE DEF b
  <2>3. (w[p] + b) * k = k * w[p] + b * k /\ k * w[p] \in Int
    BY <1>1, <2>1
  <2>4. (w[p] + b) * k - (k * w[p] + r[p]) = b * k - r[p]
    BY <1>1, <2>1, <2>3
  <2>5. -k < b * k - r[p] /\ b * k - r[p] < k
    <3>1. CASE b = 0
      BY <1>1, <2>1, <3>1
    <3>2. CASE b = 1
      BY <1>1, <2>1, <3>2
    <3> QED
      BY <2>1, <3>1, <3>2
  <2> QED
    BY <2>2, <2>4, <2>5, Zenon
<1>10. ASSUME NEW p \in D, NEW q \in D, held[p] > held[q]
       PROVE  shares[p].amount >= shares[q].amount
  <2>1. amount * held[p] > amount * held[q]
    BY <1>4, <1>10
  <2>2. k * w[p] + r[p] > k * w[q] + r[q]
    BY <1>1, <2>1
  <2>3. /\ w[p] \in Nat /\ w[q] \in Nat /\ r[p] \in 0..(k - 1) /\ r[q] \in 0..(k - 1)
        /\ one[p] \in 0..1 /\ one[q] \in 0..1 /\ k * w[p] \in Nat /\ k * w[q] \in Nat
    BY <1>1, <1>6, Products
  <2>4. w[p] >= w[q]
    <3> SUFFICES ASSUME w[q] >= w[p] + 1 PROVE FALSE
      BY <2>3
    <3>1. k * w[p] + k <= k * w[q]
      <4>1. k \in Nat /\ w[p] \in Int /\ w[q] \in Int
        BY <1>1, <2>3
      <4> QED
        BY <4>1, Monotone
    <3> QED
      BY <1>1, <2>2, <2>3, <3>1
  <2>5. CASE w[p] > w[q]
    BY <1>3, <2>3, <2>5
  <2>6. CASE w[p] = w[q]
    <3>1. r[p] > r[q]
      BY <2>2, <2>3, <2>6
    <3>2. Ahead(r, p) \in SUBSET Ahead(r, q)
      BY <1>1, <1>2, <3>1 DEF Ahead
    <3>3. rank(p) <= rank(q)
      BY <1>6, <3>2, FS_Subset
    <3>4. one[p] >= one[q]
      BY <1>1, <1>6, <3>3
    <3> QED
      BY <1>3, <2>3, <2>6, <3>4
  <2> QED
    BY <2>3, <2>4, <2>5, <2>6
<1> QED
  BY <1>3, <1>7, <1>9, <1>10 DEF D, k, shares

-----------------------------------------------------------------------------
(* The holders of a receivable hold its face *)

\* What may be divided: parts of the face, which add up to it.
AddUpTo(face, held) ==
    /\ DOMAIN held \subseteq Parties /\ \A p \in DOMAIN held : held[p] \in Nat
    /\ SumOf(held, DOMAIN held) = face

\* holdersOf: what was not sold stays with the issuer, so the parts add up to the face.
LEMMA HoldersHoldTheFace ==
    ASSUME book \in Books, finished \subseteq Transfers, Sold <= book.face
    PROVE  AddUpTo(book.face, HoldersOf)
<1> DEFINE bought == [p \in Parties |-> Bought(p)]
           kept == [p \in Parties |-> IF p = Issuer THEN book.face - Sold ELSE 0]
           all == [p \in Parties |-> Holds(p)]
           some == {p \in Parties : Holds(p) > 0}
<1>1. /\ Parties \subseteq Nat /\ IsFiniteSet(Parties) /\ Issuer \in Parties
      /\ book.face \in Nat /\ IsFiniteSet(finished)
      /\ \A t \in finished : book.notional[t] \in Nat /\ book.investor[t] \in Parties
  BY CollectionsAssumption, FS_Subset DEF Transfers
<1>2. Sold \in Nat
  BY <1>1, SumIsNat DEF Sold
<1>3. ASSUME NEW p \in Parties PROVE Bought(p) \in Nat
  <2> DEFINE own == {t \in finished : book.investor[t] = p}
  <2>1. IsFiniteSet(own) /\ \A t \in own : book.notional[t] \in Nat
    BY <1>1, FS_Subset
  <2> QED
    BY <2>1, SumIsNat DEF Bought
<1>4. ASSUME NEW p \in Parties PROVE kept[p] \in Nat /\ Holds(p) \in Nat /\ all[p] = bought[p] + kept[p]
  <2>1. book.face - Sold \in Nat
    BY <1>1, <1>2
  <2>2. kept[p] \in Nat
    BY <2>1
  <2>3. Holds(p) = Bought(p) + kept[p]
    BY DEF Holds
  <2> HIDE DEF kept
  <2> QED
    BY <1>3, <2>2, <2>3
<1>5. Numbers(bought, Parties) /\ Numbers(kept, Parties) /\ Numbers(all, Parties)
  BY <1>3, <1>4 DEF Numbers
<1>6. SumOf(bought, Parties) = Sold
  <2>1. \A p : Bought(p) = PartOf(book.notional, book.investor, finished, p)
    BY DEF Bought, PartOf
  <2>2. bought = [p \in Parties |-> PartOf(book.notional, book.investor, finished, p)]
    BY <2>1
  <2>3. SumOf([p \in Parties |-> PartOf(book.notional, book.investor, finished, p)], Parties) = Sold
    BY <1>1, SumOfParts DEF Sold
  <2> QED
    BY <2>2, <2>3, Zenon
<1>7. SumOf(kept, Parties) = book.face - Sold
  <2>1. SumOf(kept, Parties) = SumOf(kept, {Issuer})
    <3>1. {Issuer} \in SUBSET Parties /\ \A p \in Parties \ {Issuer} : kept[p] = 0
      BY <1>1
    <3> HIDE DEF kept
    <3> QED
      BY <1>1, <1>5, <3>1, SumOfOthers
  <2>2. Numbers(kept, {} \cup {Issuer}) /\ {} \cup {Issuer} = {Issuer} /\ kept[Issuer] = book.face - Sold
    BY <1>1, <1>5 DEF Numbers
  <2> HIDE DEF kept
  <2>3. SumOf(kept, {} \cup {Issuer}) = kept[Issuer] + SumOf(kept, {})
    BY <2>2, FS_EmptySet, SumWithOne
  <2> QED
    BY <1>1, <1>2, <2>1, <2>2, <2>3, SumOfNone
<1> HIDE DEF bought, kept, all
<1>8. SumOf(all, Parties) = book.face
  <2>1. SumOf(all, Parties) = SumOf(bought, Parties) + SumOf(kept, Parties)
    BY <1>1, <1>4, <1>5, SumOfPairs
  <2> QED
    BY <1>1, <1>2, <1>6, <1>7, <2>1
<1>9. SumOf(all, some) = SumOf(all, Parties)
  <2>1. some \in SUBSET Parties /\ \A p \in Parties \ some : all[p] = 0
    BY <1>4 DEF all
  <2> HIDE DEF some
  <2> QED
    BY <1>1, <1>5, <2>1, SumOfOthers
<1>10. DOMAIN HoldersOf = some /\ \A p \in some : HoldersOf[p] = Holds(p) /\ HoldersOf[p] = all[p]
  BY DEF HoldersOf, all
<1>11. SumOf(HoldersOf, some) = SumOf(all, some)
  <2>1. IsFiniteSet(some) /\ Numbers(HoldersOf, some)
    BY <1>1, <1>4, <1>10, FS_Subset DEF Numbers
  <2> HIDE DEF some
  <2> QED
    BY <1>10, <2>1, SumOfSame
<1>12. SumOf(HoldersOf, DOMAIN HoldersOf) = book.face
  BY <1>8, <1>9, <1>10, <1>11, Zenon
<1> QED
  BY <1>4, <1>10, <1>12 DEF AddUpTo

\* A payment divided among holders of the face is divided as PaymentIsDivided says.
LEMMA DividedAmongHolders ==
    ASSUME book \in Books, NEW payment \in Payments, NEW held, AddUpTo(book.face, held),
           book' = book, repayment' = NewRepayment(payment, held)
    PROVE  PaymentIsDivided'
<1> DEFINE amount == payment.amount
           shares == Distribute(amount, held)
<1>1. amount \in Nat \ {0} /\ book.face \in Nat \ {0}
  BY PaymentParts, CollectionsAssumption
<1>2. DOMAIN held \subseteq Nat /\ IsFiniteSet(DOMAIN held) /\ \A p \in DOMAIN held : held[p] \in Nat
  BY CollectionsAssumption, FS_Subset DEF AddUpTo
<1>3. SumOf(held, DOMAIN held) = book.face
  BY DEF AddUpTo
<1>4. repayment'.amount = amount /\ repayment'.shares = shares
  BY DEF NewRepayment
<1> HIDE DEF amount
<1> DEFINE k == SumOf(held, DOMAIN held)
<1>5. k > 0 /\ k = book.face
  BY <1>1, <1>3
<1>6. /\ DOMAIN shares = DOMAIN held
      /\ \A p \in DOMAIN held : shares[p].notional = held[p]
      /\ SumOf([p \in DOMAIN shares |-> shares[p].amount], DOMAIN shares) = amount
      /\ \A p \in DOMAIN held :
           LET off == shares[p].amount * k - amount * held[p] IN -k < off /\ off < k
      /\ \A p, q \in DOMAIN held : held[p] > held[q] => shares[p].amount >= shares[q].amount
  BY <1>1, <1>2, <1>5, DistributeIsFair, Zenon
<1> HIDE DEF shares, k
<1> QED
  BY <1>4, <1>5, <1>6 DEF PaymentIsDivided

\* Who is about to divide a payment has holders of the face, also when transfers are accounted
\* after they were read.
DividedInv ==
    /\ \A r \in Requests : call[r].op = "divide" => AddUpTo(book.face, call[r].holders)
    /\ PaymentIsDivided

\* A step that leaves the book alone, and starts no division.
LEMMA DividingKept ==
    ASSUME DividedInv, book' = book,
           NEW r \in Requests, call'[r].op = "divide" => call'[r] = call[r]
    PROVE  call'[r].op = "divide" => AddUpTo(book'.face, call'[r].holders)
BY DEF DividedInv, AddUpTo

\* Only Record divides, and it divides what ReadHolders read.
LEMMA DividedStep ==
    ASSUME IInv, DividedInv, [Next]_vars
    PROVE  DividedInv'
<1>1. DOMAIN call = Requests /\ book \in Books /\ finished \subseteq Transfers
  BY DEF IInv, TypeOK
<1>2. ASSUME NEW r \in Requests, Record(r) PROVE DividedInv'
  <2>1. call[r].payment \in Payments /\ AddUpTo(book.face, call[r].holders) /\ book' = book
        /\ repayment' = NewRepayment(call[r].payment, call[r].holders)
    BY <1>2, OneCall DEF Record, IInv, DividedInv
  <2>2. PaymentIsDivided'
    BY <1>1, <2>1, DividedAmongHolders
  <2>3. \A q \in Requests : call'[q] = IF q = r THEN Idle ELSE call[q]
    BY <1>2, ReturnKeeps DEF Record, IInv
  <2>4. \A q \in Requests : call'[q].op = "divide" => AddUpTo(book'.face, call'[q].holders)
    BY <2>1, <2>3, DividingKept DEF Idle
  <2> QED
    BY <2>2, <2>4 DEF DividedInv
<1>3. ASSUME NEW r \in Requests, ReadHolders(r) PROVE DividedInv'
  <2>1. book' = book /\ repayment' = repayment /\ Sold <= book.face
    BY <1>3 DEF ReadHolders
  <2>2. AddUpTo(book.face, HoldersOf)
    BY <1>1, <2>1, HoldersHoldTheFace
  <2> DEFINE held == HoldersOf
  <2>3. call'[r].holders = held /\ \A q \in Requests : q # r => call'[q] = call[q]
    BY <1>1, <1>3 DEF ReadHolders
  <2>4. ASSUME NEW q \in Requests, call'[q].op = "divide" PROVE AddUpTo(book'.face, call'[q].holders)
    <3>1. CASE q = r
      BY <2>1, <2>2, <2>3, <3>1 DEF AddUpTo
    <3>2. CASE q # r
      BY <2>1, <2>3, <2>4, <3>2, DividingKept
    <3> QED
      BY <3>1, <3>2
  <2>5. PaymentIsDivided'
    BY <2>1 DEF DividedInv, PaymentIsDivided
  <2> QED
    BY <2>4, <2>5 DEF DividedInv
<1>4. ASSUME UNCHANGED <<book, repayment>>,
             \A q \in Requests : call'[q].op = "divide" => call'[q] = call[q]
      PROVE  DividedInv'
  <2>1. PaymentIsDivided'
    BY <1>4 DEF DividedInv, PaymentIsDivided
  <2>2. \A q \in Requests : call'[q].op = "divide" => AddUpTo(book'.face, call'[q].holders)
    BY <1>4, DividingKept
  <2> QED
    BY <2>1, <2>2 DEF DividedInv
<1>5. ASSUME NEW r \in Requests, Return(r), UNCHANGED <<book, repayment>> PROVE DividedInv'
  <2>1. \A q \in Requests : call'[q] = IF q = r THEN Idle ELSE call[q]
    BY <1>5, ReturnKeeps DEF IInv
  <2> QED
    BY <1>4, <1>5, <2>1 DEF Idle
<1>6. ASSUME NEW r \in Requests, NEW request, Begin(r, request), request.op # "divide" PROVE DividedInv'
  <2>1. UNCHANGED <<book, repayment>> /\ \A q \in Requests : call'[q] = IF q = r THEN request ELSE call[q]
    BY <1>1, <1>6 DEF Begin
  <2> QED
    BY <1>4, <1>6, <2>1
<1>7. ASSUME NEW r \in Requests, NEW payment \in Payments, ReadToRecord(r, payment) PROVE DividedInv'
  BY <1>6, <1>7 DEF ReadToRecord
<1>8. ASSUME NEW r \in Requests, ReadToDefault(r) PROVE DividedInv'
  BY <1>6, <1>8 DEF ReadToDefault
<1>9. ASSUME NEW r \in Requests, GiveUp(r) \/ Replay(r) \/ Default(r) PROVE DividedInv'
  BY <1>5, <1>9 DEF GiveUp, Replay, Default
<1>10. CASE (\E t \in Transfers : Account(t)) \/ FallDue \/ UNCHANGED vars
  BY <1>4, <1>10 DEF Account, FallDue, vars
<1> QED
  BY <1>2, <1>3, <1>7, <1>8, <1>9, <1>10 DEF Next

\* What the debtor paid is handed out to the last unit, in proportion to what is held, whatever
\* is transferred while it is divided (holdersOf, redemption.Distribute).
THEOREM PaymentIsDividedIsInvariant == Spec => []PaymentIsDivided
<1>1. Init => DividedInv
  BY DEF Init, DividedInv, PaymentIsDivided, Idle
<1>2. IInv /\ DividedInv /\ [Next]_vars => DividedInv'
  BY DividedStep
<1>3. DividedInv => PaymentIsDivided
  BY DEF DividedInv
<1> QED
  BY <1>1, <1>2, <1>3, InitIInv, NextIInv, PTL DEF Spec
=============================================================================
