---------------------------- MODULE PaymentsProofs ----------------------------
(***************************************************************************)
(* Proofs about Payments, for any number of quotes, transactions and       *)
(* redemptions, and either facilitator.                                    *)
(*                                                                         *)
(* A redemption works on a copy of its quote.  The copy is a past version  *)
(* of the row, and the row itself while the versions are equal; so what    *)
(* the payment was found to be when the copy was checked is still so when  *)
(* the copy is written, and nothing but its own settlement is written over *)
(* a stored answer.                                                        *)
(***************************************************************************)
EXTENDS Payments, TLAPS

IsPaid(row) == row.state \in {"VERIFIED", "PROCESSED", "SETTLED"}

\* What a row says of itself and of the ledger, as it stands or as it was read.
RowInv(q, row) ==
    /\ row.state = "NONE" <=> row.version = 0
    /\ row.state = "NONE" => row = NoQuote
    /\ row.state # "NONE" => row.endpoint \in Endpoints /\ row.body \in Bodies
    /\ row.tx # Nobody => ledger[row.tx] = q
    /\ IsPaid(row) => row.tx # Nobody
    /\ row.state = "PAYMENT_REQUIRED" => row.tx = Nobody
    /\ IsAnswered(row) => row.response > 0

\* A copy: the past, and the present while the versions are equal.
CopyInv(c) ==
    /\ c.row.version <= quote[c.nonce].version
    /\ c.row.version = quote[c.nonce].version => c.row = quote[c.nonce]

\* How far a redemption has come, and what that says of its payment.
StepInv(c) ==
    /\ c.step # "settle" => ~IsAnswered(c.row)
    /\ c.step \in {"sign", "work", "store", "settle"} => c.tx \in Txs /\ ledger[c.tx] = c.nonce
    /\ c.step = "sign" => c.row.state = "PAYMENT_REQUIRED"
    /\ c.step \in {"work", "store"} => c.row.state = "VERIFIED" /\ c.row.tx = c.tx
    /\ c.step = "store" => c.response > 0
    /\ c.step = "settle" =>
          /\ c.row.state = "PROCESSED" /\ c.row.tx = c.tx
          /\ IsAnswered(quote[c.nonce]) /\ quote[c.nonce].tx = c.tx
          /\ quote[c.nonce].body = c.row.body /\ quote[c.nonce].response = c.row.response

CallInv(c) ==
    c # Idle =>
      /\ c.step # "idle" /\ c.nonce \in Quotes /\ c.row.state # "NONE"
      /\ RowInv(c.nonce, c.row) /\ CopyInv(c) /\ StepInv(c)

RowsInv == \A q \in Quotes : RowInv(q, quote[q])
CallsInv == \A r \in Requests : CallInv(call[r])

IInv == TypeOK /\ RowsInv /\ CallsInv /\ AnswersArePaid

-----------------------------------------------------------------------------
(* What no step takes back *)

\* A row changes with its version, and a stored answer stays.
QuotesGrow ==
    \A q \in Quotes :
        /\ quote[q].version <= quote'[q].version
        /\ quote'[q].version = quote[q].version => quote'[q] = quote[q]
        /\ IsAnswered(quote[q]) =>
              /\ IsAnswered(quote'[q]) /\ quote'[q].tx = quote[q].tx
              /\ quote'[q].body = quote[q].body /\ quote'[q].response = quote[q].response

\* What a transaction paid for, it paid for.
LedgerGrows == \A t \in Txs : ledger[t] # Nobody => ledger'[t] = ledger[t]

Steps == {"idle", "check", "sign", "work", "store", "settle"}
Calls == [step : Steps, nonce : Quotes \cup {Nobody}, differs : {"no", "endpoint", "body"},
          tx : Txs \cup {Nobody}, row : Row, response : 0..MaxWork]

LEMMA Apart == Nobody \notin Quotes /\ Nobody \notin Txs
PROOF BY PaymentsAssumption

\* What is refused or answered is a row again.
LEMMA Rewritten ==
    ASSUME NEW row \in Row
    PROVE  /\ \A why \in {"none", "endpoint", "body", "expired", "payment"} :
                [row EXCEPT !.state = "REJECTED", !.reason = why] \in Row
           /\ \A n \in 0..MaxWork : [row EXCEPT !.state = "PROCESSED", !.response = n] \in Row
<1> DEFINE Numbers == 0..MaxWork
<1> HIDE DEF Numbers
<1>1. \A n \in Numbers : [row EXCEPT !.state = "PROCESSED", !.response = n] \in Row
  <2>1. Row = [state : {"NONE", "PAYMENT_REQUIRED", "VERIFIED", "PROCESSED", "SETTLED", "REJECTED"},
               endpoint : Endpoints \cup {Nobody}, body : Bodies \cup {Nobody}, key : Keys \cup {NoKey},
               tx : Txs \cup {Nobody}, reason : {"none", "endpoint", "body", "expired", "payment"},
               response : Numbers, version : Nat]
    BY DEF Row, Numbers
  <2> QED
    BY <2>1
<1>2. \A why \in {"none", "endpoint", "body", "expired", "payment"} :
        [row EXCEPT !.state = "REJECTED", !.reason = why] \in Row
  BY DEF Row
<1> QED
  BY <1>1, <1>2 DEF Numbers

LEMMA NoQuoteIsRow == NoQuote \in Row /\ Idle \in Calls
<1>1. 0 \in 0..MaxWork /\ 0 \in Nat
  BY PaymentsAssumption
<1>2. NoQuote \in Row
  BY <1>1 DEF NoQuote, Row
<1> QED
  BY <1>1, <1>2 DEF Idle, Calls, Steps

\* The types, one fact at a time.
LEMMA Types ==
    ASSUME TypeOK
    PROVE  /\ quote \in [Quotes -> Row] /\ \A q \in Quotes : quote[q] \in Row
           /\ call \in [Requests -> Calls] /\ \A r \in Requests : call[r] \in Calls
PROOF BY DEF TypeOK, Calls, Steps

LEMMA RowFields ==
    ASSUME NEW row \in Row
    PROVE  /\ row.tx \in Txs \cup {Nobody} /\ row.version \in Nat /\ row.response \in 0..MaxWork
           /\ row.state \in {"NONE", "PAYMENT_REQUIRED", "VERIFIED", "PROCESSED", "SETTLED", "REJECTED"}
PROOF BY DEF Row

\* A row that was true of the ledger stays so.
LEMMA RowKept ==
    ASSUME LedgerGrows, NEW q \in Quotes, NEW row \in Row, RowInv(q, row), ledger' \in [Txs -> Quotes \cup {Nobody}]
    PROVE  /\ row.tx # Nobody => ledger'[row.tx] = q
<1>1. row.tx # Nobody => row.tx \in Txs /\ ledger[row.tx] = q
  BY RowFields DEF RowInv
<1> QED
  BY <1>1, Apart DEF LedgerGrows

\* A redemption that does not step is as true as it was.
LEMMA CallKept ==
    ASSUME TypeOK, TypeOK', QuotesGrow, LedgerGrows, NEW r \in Requests, call'[r] = call[r], CallInv(call[r])
    PROVE  CallInv(call[r])'
<1> DEFINE c == call[r]
<1> SUFFICES ASSUME c # Idle
             PROVE  /\ c.step # "idle" /\ c.nonce \in Quotes /\ c.row.state # "NONE"
                    /\ RowInv(c.nonce, c.row)' /\ CopyInv(c)' /\ StepInv(c)'
  BY DEF CallInv
<1>1. /\ c.step # "idle" /\ c.nonce \in Quotes /\ c.row.state # "NONE"
      /\ RowInv(c.nonce, c.row) /\ CopyInv(c) /\ StepInv(c)
  BY DEF CallInv
<1>2. c.row \in Row /\ quote[c.nonce] \in Row /\ quote'[c.nonce] \in Row
  BY <1>1, Types DEF Calls, TypeOK
<1>3. ledger' \in [Txs -> Quotes \cup {Nobody}]
  BY DEF TypeOK
<1>4. RowInv(c.nonce, c.row)'
  BY <1>1, <1>2, <1>3, RowKept DEF RowInv
<1>5. CopyInv(c)'
  <2>1. c.row.version \in Nat /\ quote[c.nonce].version \in Nat /\ quote'[c.nonce].version \in Nat
    BY <1>2, RowFields
  <2>2. /\ quote[c.nonce].version <= quote'[c.nonce].version
        /\ quote'[c.nonce].version = quote[c.nonce].version => quote'[c.nonce] = quote[c.nonce]
    BY <1>1 DEF QuotesGrow
  <2> QED
    BY <1>1, <2>1, <2>2 DEF CopyInv
<1>6. StepInv(c)'
  <2>1. c.tx \in Txs /\ ledger[c.tx] = c.nonce => ledger'[c.tx] = c.nonce
    BY <1>1, Apart DEF LedgerGrows
  <2>2. IsAnswered(quote[c.nonce]) =>
           /\ IsAnswered(quote'[c.nonce]) /\ quote'[c.nonce].tx = quote[c.nonce].tx
           /\ quote'[c.nonce].body = quote[c.nonce].body
           /\ quote'[c.nonce].response = quote[c.nonce].response
    BY <1>1 DEF QuotesGrow
  <2> QED
    BY <1>1, <2>1, <2>2 DEF StepInv, IsAnswered
<1> QED
  BY <1>1, <1>4, <1>5, <1>6

\* A step keeps the invariant when it keeps the rows, and the call of whoever makes it.
LEMMA StepKeeps ==
    ASSUME IInv, TypeOK', QuotesGrow, LedgerGrows,
           \A q \in Quotes : quote'[q] # quote[q] => RowInv(q, quote[q])',
           \A r \in Requests : call'[r] # call[r] => CallInv(call[r])',
           AnswersArePaid'
    PROVE  IInv'
<1>1. RowsInv'
  <2> SUFFICES ASSUME NEW q \in Quotes, quote'[q] = quote[q] PROVE RowInv(q, quote[q])'
    BY DEF RowsInv
  <2>1. RowInv(q, quote[q]) /\ quote[q] \in Row /\ ledger' \in [Txs -> Quotes \cup {Nobody}]
    BY Types DEF IInv, RowsInv, TypeOK
  <2>2. quote[q].tx # Nobody => ledger'[quote[q].tx] = q
    BY <2>1, RowKept
  <2> QED
    BY <2>1, <2>2 DEF RowInv, IsPaid, IsAnswered
<1>2. CallsInv'
  BY CallKept DEF IInv, CallsInv
<1> QED
  BY <1>1, <1>2 DEF IInv

LEMMA InitIInv == Init => IInv
<1> SUFFICES ASSUME Init PROVE IInv
  OBVIOUS
<1>1. TypeOK
  BY NoQuoteIsRow, PaymentsAssumption DEF Init, TypeOK, Calls, Steps
<1>2. RowsInv
  BY DEF Init, RowsInv, RowInv, NoQuote, IsPaid, IsAnswered
<1>3. CallsInv /\ AnswersArePaid
  BY DEF Init, CallsInv, CallInv, AnswersArePaid, NoQuote
<1> QED
  BY <1>1, <1>2, <1>3 DEF IInv

-----------------------------------------------------------------------------
(* Writing a row *)

Moved(row) == [row EXCEPT !.version = @ + 1]

LEMMA MovedFields ==
    ASSUME NEW row \in Row
    PROVE  /\ Moved(row) \in Row /\ Moved(row).version = row.version + 1
           /\ Moved(row).state = row.state /\ Moved(row).tx = row.tx /\ Moved(row).body = row.body
           /\ Moved(row).endpoint = row.endpoint /\ Moved(row).reason = row.reason
           /\ Moved(row).response = row.response
PROOF BY DEF Moved, Row

\* A redemption that writes its row has read the row as it is.
LEMMA WrittenIsCurrent ==
    ASSUME IInv, NEW r \in Requests, call[r] # Idle, Unmoved(r)
    PROVE  /\ call[r].nonce \in Quotes /\ quote[call[r].nonce] = call[r].row /\ call[r].row \in Row
           /\ RowInv(call[r].nonce, call[r].row) /\ StepInv(call[r])
<1>1. CallInv(call[r]) /\ call[r] \in Calls
  BY Types DEF IInv, CallsInv
<1>2. CopyInv(call[r]) /\ call[r].nonce \in Quotes
  BY <1>1 DEF CallInv
<1>3. quote[call[r].nonce] = call[r].row
  BY <1>2 DEF CopyInv, Unmoved
<1> QED
  BY <1>1, <1>2, <1>3 DEF CallInv, Calls

\* The redemption that wrote its row, going on with what it wrote.
GoesOn(c, row, step) == [c EXCEPT !.row = Moved(row), !.step = step]

LEMMA AdvanceMoves ==
    ASSUME IInv, NEW r \in Requests, NEW c, c = call[r],
           NEW row \in Row, NEW step \in Steps, c # Idle, row.version = c.row.version,
           IsAnswered(c.row) =>
               /\ IsAnswered(row) /\ row.tx = c.row.tx
               /\ row.body = c.row.body /\ row.response = c.row.response,
           Advance(r, row, step)
    PROVE  /\ quote' \in [Quotes -> Row] /\ call' \in [Requests -> Calls]
           /\ \A q \in Quotes : quote'[q] = IF q = c.nonce THEN Moved(row) ELSE quote[q]
           /\ \A x \in Requests : call'[x] = IF x # r THEN call[x] ELSE IF step = "idle" THEN Idle
                                             ELSE GoesOn(c, row, step)
           /\ QuotesGrow
<1> DEFINE q0 == c.nonce
           next == IF step = "idle" THEN Idle ELSE GoesOn(c, row, step)
<1>1. /\ Unmoved(r) /\ quote' = [quote EXCEPT ![q0] = Moved(row)]
      /\ call' = [call EXCEPT ![r] = next]
  BY DEF Advance, Moved, GoesOn
<1>2. q0 \in Quotes /\ quote[q0] = c.row /\ c.row \in Row
  BY <1>1, WrittenIsCurrent
<1>3. quote \in [Quotes -> Row] /\ call \in [Requests -> Calls] /\ c \in Calls
  BY Types DEF IInv
<1>4. next \in Calls
  BY <1>3, MovedFields, NoQuoteIsRow DEF Calls, GoesOn
<1> HIDE DEF q0, next
<1>5. quote' \in [Quotes -> Row] /\ \A q \in Quotes : quote'[q] = IF q = q0 THEN Moved(row) ELSE quote[q]
  BY <1>1, <1>2, <1>3, MovedFields
<1>6. call' \in [Requests -> Calls] /\ \A x \in Requests : call'[x] = IF x # r THEN call[x] ELSE next
  BY <1>1, <1>3, <1>4
<1>7. QuotesGrow
  <2> SUFFICES ASSUME NEW q \in Quotes
               PROVE  /\ quote[q].version <= quote'[q].version
                      /\ quote'[q].version = quote[q].version => quote'[q] = quote[q]
                      /\ IsAnswered(quote[q]) =>
                            /\ IsAnswered(quote'[q]) /\ quote'[q].tx = quote[q].tx
                            /\ quote'[q].body = quote[q].body /\ quote'[q].response = quote[q].response
    BY DEF QuotesGrow
  <2>1. quote[q].version \in Nat /\ row.version \in Nat
    BY <1>3, RowFields
  <2>2. CASE q = q0
    BY <1>2, <1>5, <2>1, <2>2, MovedFields DEF IsAnswered
  <2>3. CASE q # q0
    BY <1>5, <2>1, <2>3
  <2> QED
    BY <2>2, <2>3
<1> QED
  BY <1>5, <1>6, <1>7 DEF q0, next

\* A write keeps the invariant when the row it stores is true of the ledger, and the redemption is
\* as far as it then says.
LEMMA AdvanceKeeps ==
    ASSUME IInv, NEW r \in Requests, NEW c, c = call[r], NEW row \in Row, NEW step \in Steps, c # Idle,
           row.version = c.row.version,
           IsAnswered(c.row) =>
               /\ IsAnswered(row) /\ row.tx = c.row.tx
               /\ row.body = c.row.body /\ row.response = c.row.response,
           Advance(r, row, step), UNCHANGED <<facilitator, ledger, known, expired, work>>,
           row.state # "NONE", RowInv(c.nonce, row),
           handed' \subseteq [endpoint : Endpoints, body : Bodies, tx : Txs, response : 1..MaxWork],
           AnswersArePaid',
           step # "idle" /\ quote'[c.nonce] = Moved(row) => StepInv(GoesOn(c, row, step))'
    PROVE  IInv' /\ QuotesGrow
<1>1. /\ quote' \in [Quotes -> Row] /\ call' \in [Requests -> Calls] /\ QuotesGrow
      /\ \A q \in Quotes : quote'[q] = IF q = c.nonce THEN Moved(row) ELSE quote[q]
      /\ \A x \in Requests : call'[x] = IF x # r THEN call[x] ELSE IF step = "idle" THEN Idle
                                        ELSE GoesOn(c, row, step)
  BY AdvanceMoves
<1>2. c.nonce \in Quotes /\ row.version \in Nat /\ c \in Calls
  BY WrittenIsCurrent, RowFields, Types DEF Advance, IInv
<1>3. TypeOK'
  BY <1>1 DEF IInv, TypeOK, Calls, Steps
<1>4. LedgerGrows
  BY DEF LedgerGrows
<1>5. RowInv(c.nonce, Moved(row))'
  <2>1. Moved(row).version = row.version + 1 /\ Moved(row).version # 0
    BY <1>2, MovedFields
  <2> QED
    BY <2>1, MovedFields DEF RowInv, IsPaid, IsAnswered
<1>6. \A q \in Quotes : quote'[q] # quote[q] => RowInv(q, quote[q])'
  BY <1>1, <1>5
<1>7. \A x \in Requests : call'[x] # call[x] => CallInv(call[x])'
  <2> SUFFICES ASSUME NEW x \in Requests, x = r PROVE CallInv(call[x])'
    BY <1>1
  <2>1. CASE step = "idle"
    BY <1>1, <2>1 DEF CallInv
  <2>2. CASE step # "idle"
    <3> DEFINE d == GoesOn(c, row, step)
    <3>1. d.nonce = c.nonce /\ d.row = Moved(row) /\ d.step = step /\ call'[x] = d
      BY <1>1, <1>2, <2>2 DEF GoesOn, Calls
    <3>2. quote'[c.nonce] = Moved(row)
      BY <1>1, <1>2
    <3>3. StepInv(d)'
      BY <3>2, <2>2
    <3>4. Moved(row).state # "NONE" /\ Moved(row).version \in Nat
      BY <1>2, MovedFields
    <3> HIDE DEF d
    <3>5. CopyInv(d)'
      BY <3>1, <3>2, <3>4 DEF CopyInv
    <3>6. RowInv(d.nonce, d.row)'
      BY <3>1, <1>5
    <3> QED
      BY <3>1, <3>3, <3>4, <3>5, <3>6, <2>2, <1>2 DEF CallInv
  <2> QED
    BY <2>1, <2>2
<1> QED
  BY <1>1, <1>3, <1>4, <1>6, <1>7, StepKeeps

\* A refusal is stored over a quote that has no answer.
LEMMA RejectKeeps ==
    ASSUME IInv, NEW r \in Requests, NEW c, c = call[r], Reject(r)
    PROVE  IInv' /\ QuotesGrow
<1> DEFINE q0 == c.nonce
           row == [c.row EXCEPT !.state = "REJECTED", !.reason = Verdict(c)]
<1>1. /\ c.step = "check" /\ Refuses(Verdict(c)) /\ ~IsFinished(c.row) /\ Advance(r, row, "idle")
      /\ UNCHANGED <<facilitator, ledger, known, expired, work>> /\ handed' = {}
  BY DEF Reject, NoAnswer
<1>2. c # Idle
  BY <1>1 DEF Idle
<1>3. /\ q0 \in Quotes /\ quote[q0] = c.row /\ c.row \in Row /\ RowInv(q0, c.row) /\ StepInv(c)
      /\ c.row.state # "NONE"
  BY <1>1, <1>2, WrittenIsCurrent DEF Advance, IInv, CallsInv, CallInv
<1>4. ~IsAnswered(c.row)
  BY <1>1, <1>3 DEF StepInv
<1>5. row \in Row /\ row.version = c.row.version /\ row.state = "REJECTED" /\ row.tx = c.row.tx
      /\ row.endpoint = c.row.endpoint /\ row.body = c.row.body /\ row.reason = Verdict(c)
  <2> DEFINE why == Verdict(c)
  <2>1. why \in {"none", "endpoint", "body", "expired", "payment"} /\ c.row \in Row
    BY <1>1, <1>3 DEF Refuses
  <2> HIDE DEF why
  <2>2. [c.row EXCEPT !.state = "REJECTED", !.reason = why] \in Row
    BY <2>1, Rewritten
  <2> QED
    BY <2>1, <2>2 DEF Row, why
<1> HIDE DEF row
<1>6. RowInv(q0, row) /\ row.state # "NONE"
  BY <1>3, <1>5 DEF RowInv, IsPaid, IsAnswered
<1>7. AnswersArePaid' /\ handed' \subseteq [endpoint : Endpoints, body : Bodies, tx : Txs, response : 1..MaxWork]
  BY <1>1 DEF AnswersArePaid
<1> QED
  BY <1>1, <1>2, <1>4, <1>5, <1>6, <1>7, AdvanceKeeps DEF Steps

\* A payment is recorded with the quote it was found to be made for.
LEMMA SignKeeps ==
    ASSUME IInv, NEW r \in Requests, NEW c, c = call[r], Sign(r)
    PROVE  IInv' /\ QuotesGrow
<1> DEFINE row == [c.row EXCEPT !.state = "VERIFIED", !.tx = c.tx]
<1>1. /\ c.step = "sign" /\ Advance(r, row, "work")
      /\ UNCHANGED <<facilitator, ledger, known, expired, work>> /\ handed' = {}
  BY DEF Sign, NoAnswer
<1>2. c # Idle
  BY <1>1 DEF Idle
<1>3. c.nonce \in Quotes /\ c.row \in Row /\ RowInv(c.nonce, c.row) /\ StepInv(c) /\ c \in Calls
  BY <1>1, <1>2, WrittenIsCurrent, Types DEF Advance, IInv
<1>4. c.row.state = "PAYMENT_REQUIRED" /\ ~IsAnswered(c.row) /\ c.tx \in Txs /\ ledger[c.tx] = c.nonce
  BY <1>1, <1>3 DEF StepInv
<1>5. row \in Row /\ row.version = c.row.version /\ row.state = "VERIFIED" /\ row.tx = c.tx
      /\ row.endpoint = c.row.endpoint /\ row.body = c.row.body
  BY <1>3, <1>4 DEF Row
<1> HIDE DEF row
<1>6. RowInv(c.nonce, row)
  BY <1>3, <1>4, <1>5, Apart DEF RowInv, IsPaid, IsAnswered
<1>7. StepInv(GoesOn(c, row, "work"))'
  <2> DEFINE d == GoesOn(c, row, "work")
  <2>1. d.step = "work" /\ d.tx = c.tx /\ d.nonce = c.nonce /\ d.row = Moved(row)
    BY <1>3 DEF GoesOn, Calls
  <2>2. Moved(row).state = "VERIFIED" /\ Moved(row).tx = c.tx
    BY <1>5, MovedFields
  <2> HIDE DEF d
  <2>3. StepInv(d)'
    BY <1>1, <1>4, <2>1, <2>2 DEF StepInv, IsAnswered
  <2> QED
    BY <2>3 DEF d
<1>8. AnswersArePaid' /\ handed' \subseteq [endpoint : Endpoints, body : Bodies, tx : Txs, response : 1..MaxWork]
  BY <1>1 DEF AnswersArePaid
<1> QED
  BY <1>1, <1>2, <1>4, <1>5, <1>6, <1>7, <1>8, AdvanceKeeps DEF Steps

\* The answer is stored over the payment it answers, and nowhere else.
LEMMA StoreKeeps ==
    ASSUME IInv, NEW r \in Requests, NEW c, c = call[r], Store(r)
    PROVE  IInv' /\ QuotesGrow
<1> DEFINE row == [c.row EXCEPT !.state = "PROCESSED", !.response = c.response]
<1>1. /\ c.step = "store" /\ Advance(r, row, "settle")
      /\ UNCHANGED <<facilitator, ledger, known, expired, work>> /\ handed' = {}
  BY DEF Store, NoAnswer
<1>2. c # Idle
  BY <1>1 DEF Idle
<1>3. c.nonce \in Quotes /\ c.row \in Row /\ RowInv(c.nonce, c.row) /\ StepInv(c) /\ c \in Calls
  BY <1>1, <1>2, WrittenIsCurrent, Types DEF Advance, IInv
<1>4. /\ c.row.state = "VERIFIED" /\ c.row.tx = c.tx /\ ~IsAnswered(c.row) /\ c.response > 0
      /\ c.tx \in Txs /\ ledger[c.tx] = c.nonce
  BY <1>1, <1>3 DEF StepInv
<1>5. row \in Row /\ row.version = c.row.version /\ row.state = "PROCESSED" /\ row.tx = c.tx
      /\ row.endpoint = c.row.endpoint /\ row.body = c.row.body /\ row.response = c.response
  <2>1. c.response \in 0..MaxWork
    BY <1>3 DEF Calls
  <2>2. row \in Row
    BY <1>3, <2>1, Rewritten
  <2> QED
    BY <1>3, <1>4, <2>2 DEF Row
<1> HIDE DEF row
<1>6. RowInv(c.nonce, row)
  BY <1>3, <1>4, <1>5, Apart DEF RowInv, IsPaid, IsAnswered
<1>7. quote'[c.nonce] = Moved(row) => StepInv(GoesOn(c, row, "settle"))'
  <2> SUFFICES ASSUME quote'[c.nonce] = Moved(row) PROVE StepInv(GoesOn(c, row, "settle"))'
    OBVIOUS
  <2> DEFINE d == GoesOn(c, row, "settle")
  <2>1. d.step = "settle" /\ d.tx = c.tx /\ d.nonce = c.nonce /\ d.row = Moved(row)
    BY <1>3 DEF GoesOn, Calls
  <2>2. Moved(row).state = "PROCESSED" /\ Moved(row).tx = c.tx
    BY <1>5, MovedFields
  <2> HIDE DEF d
  <2>3. StepInv(d)'
    BY <1>1, <1>4, <2>1, <2>2 DEF StepInv, IsAnswered
  <2> QED
    BY <2>3 DEF d
<1>8. AnswersArePaid' /\ handed' \subseteq [endpoint : Endpoints, body : Bodies, tx : Txs, response : 1..MaxWork]
  BY <1>1 DEF AnswersArePaid
<1> QED
  BY <1>1, <1>2, <1>4, <1>5, <1>6, <1>7, <1>8, AdvanceKeeps DEF Steps

\* What is handed out from a row that says what the stored answer says is the stored answer.
LEMMA HandsTheStored ==
    ASSUME TypeOK, NEW q \in Quotes, NEW row \in Row, RowInv(q, row), IsAnswered(row), ledger' = ledger,
           quote'[q].tx = row.tx, quote'[q].body = row.body, quote'[q].response = row.response,
           NEW e \in Endpoints, NEW b \in Bodies, row.body = b, Hand(e, b, row)
    PROVE  /\ handed' \subseteq [endpoint : Endpoints, body : Bodies, tx : Txs, response : 1..MaxWork]
           /\ AnswersArePaid'
<1>1. row.tx \in Txs /\ ledger[row.tx] = q /\ row.response \in 1..MaxWork
  BY RowFields, PaymentsAssumption DEF RowInv, IsAnswered, IsPaid
<1> DEFINE h == [endpoint |-> e, body |-> b, tx |-> row.tx, response |-> row.response]
<1>2. handed' = {h} /\ h.tx = row.tx /\ h.body = b /\ h.response = row.response
  BY DEF Hand
<1>3. h \in [endpoint : Endpoints, body : Bodies, tx : Txs, response : 1..MaxWork]
  BY <1>1
<1> HIDE DEF h
<1> QED
  BY <1>1, <1>2, <1>3 DEF AnswersArePaid

\* A settled answer, or one the platform has yet to see settled, is the one that was stored.
LEMMA SettleKeeps ==
    ASSUME IInv, NEW r \in Requests, NEW c, c = call[r], Settle(r)
    PROVE  IInv' /\ QuotesGrow
<1> DEFINE row == [c.row EXCEPT !.state = "SETTLED"]
<1>1. /\ c.step = "settle" /\ Hand(c.row.endpoint, c.row.body, c.row)
      /\ UNCHANGED <<facilitator, ledger, known, expired, work>>
      /\ Advance(r, row, "idle") \/ (call' = [call EXCEPT ![r] = Idle] /\ UNCHANGED quote)
  BY DEF Settle
<1>2. c # Idle
  BY <1>1 DEF Idle
<1>3. CallInv(c) /\ c \in Calls
  BY Types DEF IInv, CallsInv
<1>4. /\ c.nonce \in Quotes /\ c.row \in Row /\ RowInv(c.nonce, c.row) /\ StepInv(c)
      /\ c.row.endpoint \in Endpoints /\ c.row.body \in Bodies
  BY <1>2, <1>3 DEF CallInv, Calls, RowInv
<1>5. /\ c.row.state = "PROCESSED" /\ IsAnswered(c.row)
      /\ c.row.tx = c.tx /\ quote[c.nonce].tx = c.tx /\ IsAnswered(quote[c.nonce])
      /\ quote[c.nonce].body = c.row.body /\ quote[c.nonce].response = c.row.response
  BY <1>1, <1>4 DEF StepInv, IsAnswered
<1>6. TypeOK /\ quote \in [Quotes -> Row] /\ call \in [Requests -> Calls]
  BY Types DEF IInv
<1>7. CASE Advance(r, row, "idle")
  <2>1. row \in Row /\ row.version = c.row.version /\ row.state = "SETTLED" /\ row.tx = c.row.tx
        /\ row.endpoint = c.row.endpoint /\ row.body = c.row.body /\ row.response = c.row.response
    BY <1>4 DEF Row
  <2> HIDE DEF row
  <2>2. RowInv(c.nonce, row) /\ IsAnswered(row)
    BY <1>4, <1>5, <2>1 DEF RowInv, IsPaid, IsAnswered
  <2>3. QuotesGrow
    BY <1>2, <1>7, <2>1, <2>2, AdvanceMoves DEF Steps
  <2>4. quote'[c.nonce].tx = c.row.tx /\ quote'[c.nonce].body = c.row.body
        /\ quote'[c.nonce].response = c.row.response
    BY <1>4, <1>5, <2>3 DEF QuotesGrow
  <2>5. /\ handed' \subseteq [endpoint : Endpoints, body : Bodies, tx : Txs, response : 1..MaxWork]
        /\ AnswersArePaid'
    BY <1>1, <1>4, <1>5, <1>6, <2>4, HandsTheStored
  <2> QED
    BY <1>1, <1>2, <1>7, <2>1, <2>2, <2>5, AdvanceKeeps DEF Steps
<1>8. CASE call' = [call EXCEPT ![r] = Idle] /\ UNCHANGED quote
  <2>1. /\ handed' \subseteq [endpoint : Endpoints, body : Bodies, tx : Txs, response : 1..MaxWork]
        /\ AnswersArePaid'
    BY <1>1, <1>4, <1>5, <1>6, <1>8, HandsTheStored
  <2>2. QuotesGrow /\ LedgerGrows
    BY <1>1, <1>6, <1>8, RowFields DEF QuotesGrow, LedgerGrows
  <2>3. TypeOK'
    BY <1>1, <1>6, <1>8, <2>1, NoQuoteIsRow DEF TypeOK, Calls, Steps
  <2>4. \A x \in Requests : call'[x] # call[x] => CallInv(call[x])'
    BY <1>6, <1>8 DEF CallInv
  <2> QED
    BY <1>8, <2>1, <2>2, <2>3, <2>4, StepKeeps
<1> QED
  BY <1>1, <1>7, <1>8

-----------------------------------------------------------------------------
(* The steps that write no row *)

LEMMA RowsStay ==
    ASSUME IInv, TypeOK', AnswersArePaid', UNCHANGED <<facilitator, quote, ledger>>,
           \A r \in Requests : call'[r] # call[r] => CallInv(call[r])'
    PROVE  IInv' /\ QuotesGrow
<1>1. QuotesGrow
  BY Types, RowFields DEF QuotesGrow, IInv
<1>2. LedgerGrows
  BY DEF LedgerGrows
<1> QED
  BY <1>1, <1>2, StepKeeps

\* A redemption that goes on with the row it has.
LEMMA CallMoves ==
    ASSUME IInv, NEW r \in Requests, NEW d \in Calls, d = Idle \/ CallInv(d),
           call' = [call EXCEPT ![r] = d], work' \in 0..MaxWork,
           UNCHANGED <<facilitator, quote, ledger, known, expired>>, handed' = {}
    PROVE  IInv' /\ QuotesGrow
<1>1. call \in [Requests -> Calls]
  BY Types DEF IInv
<1>2. TypeOK' /\ AnswersArePaid'
  BY <1>1 DEF IInv, TypeOK, AnswersArePaid, Calls, Steps
<1>3. CallInv(d)'
  BY DEF CallInv, RowInv, CopyInv, StepInv
<1>4. \A x \in Requests : call'[x] # call[x] => CallInv(call[x])'
  BY <1>1, <1>3
<1> QED
  BY <1>2, <1>4, RowsStay

LEMMA GiveUpKeeps ==
    ASSUME IInv, NEW r \in Requests, GiveUp(r)
    PROVE  IInv' /\ QuotesGrow
<1>1. work' \in 0..MaxWork
  BY DEF GiveUp, IInv, TypeOK
<1> QED
  BY <1>1, NoQuoteIsRow, CallMoves DEF GiveUp, NoAnswer

\* A good verdict: the payment is the one the quote names, and whoever finds the quote paid already
\* found it paid by the same transaction.
LEMMA AcceptKeeps ==
    ASSUME IInv, NEW r \in Requests, NEW c, c = call[r], Accept(r)
    PROVE  IInv' /\ QuotesGrow
<1> DEFINE step == IF c.row.state = "PAYMENT_REQUIRED" THEN "sign" ELSE "work"
           d == [c EXCEPT !.step = step]
<1>1. /\ c.step = "check" /\ Verdict(c) = "good" /\ call' = [call EXCEPT ![r] = d]
      /\ UNCHANGED <<facilitator, quote, ledger, known, expired, work>> /\ handed' = {}
  BY DEF Accept, NoAnswer
<1>2. c # Idle
  BY <1>1 DEF Idle
<1>3. CallInv(c) /\ c \in Calls /\ c.nonce \in Quotes /\ c.row \in Row
  BY <1>2, Types DEF IInv, CallsInv, CallInv, Calls
<1>4. c.tx \in Txs /\ ledger[c.tx] = c.nonce /\ ~Taken(c)
  <2>1. ~Taken(c) /\ (LocalVerdict(c.tx, c.nonce) = "good" \/ ChainVerdict(c.tx, c.nonce) = "good")
    BY <1>1, <1>3 DEF Verdict, Calls
  <2>2. c.tx \in known /\ ledger[c.tx] = c.nonce
    BY <2>1 DEF LocalVerdict, ChainVerdict
  <2>3. known \subseteq Txs
    BY DEF IInv, TypeOK
  <2> QED
    BY <2>1, <2>2, <2>3
<1>5. c.row.state # "PAYMENT_REQUIRED" => c.row.state = "VERIFIED" /\ c.row.tx = c.tx
  BY <1>1, <1>2, <1>3, <1>4, RowFields DEF CallInv, StepInv, IsAnswered, Taken
<1>6. /\ d \in Calls /\ d.step = step /\ d.nonce = c.nonce /\ d.row = c.row /\ d.tx = c.tx
  BY <1>3 DEF Calls, Steps
<1> HIDE DEF d
<1>7. StepInv(d)
  BY <1>1, <1>2, <1>3, <1>4, <1>5, <1>6 DEF StepInv, CallInv
<1>8. CallInv(d)
  BY <1>2, <1>3, <1>6, <1>7 DEF CallInv, CopyInv
<1>9. work' \in 0..MaxWork
  BY <1>1 DEF IInv, TypeOK
<1> QED
  BY <1>1, <1>6, <1>8, <1>9, CallMoves

LEMMA DoWorkKeeps ==
    ASSUME IInv, NEW r \in Requests, NEW c, c = call[r], NEW n, n = work + 1, DoWork(r)
    PROVE  IInv' /\ QuotesGrow
<1> DEFINE d == [c EXCEPT !.step = "store", !.response = n]
<1>1. /\ c.step = "work" /\ work' = n
      /\ UNCHANGED <<facilitator, quote, ledger, known, expired>> /\ handed' = {}
  BY DEF DoWork, NoAnswer
<1>2. c # Idle
  BY <1>1 DEF Idle
<1>3. CallInv(c) /\ c \in Calls /\ call \in [Requests -> Calls]
  BY Types DEF IInv, CallsInv
<1>4. call' = [call EXCEPT ![r] = d]
  BY <1>1, <1>3 DEF DoWork
<1>5. n \in 0..MaxWork /\ n > 0
  BY PaymentsAssumption DEF DoWork, IInv, TypeOK
<1>6. /\ d \in Calls /\ d.step = "store" /\ d.nonce = c.nonce /\ d.row = c.row /\ d.tx = c.tx
      /\ d.response = n
  BY <1>3, <1>5 DEF Calls, Steps
<1> HIDE DEF d
<1>7. StepInv(d)
  BY <1>1, <1>2, <1>3, <1>5, <1>6 DEF StepInv, CallInv
<1>8. CallInv(d)
  BY <1>2, <1>3, <1>6, <1>7 DEF CallInv, CopyInv
<1> QED
  BY <1>1, <1>4, <1>5, <1>6, <1>8, CallMoves

\* A redemption starts from the row as it is.
LEMMA PresentKeeps ==
    ASSUME IInv, NEW r \in Requests, NEW q \in Quotes, NEW e \in Endpoints, NEW b \in Bodies,
           NEW t \in Txs, NEW row, row = quote[q], Present(r, q, e, b, t)
    PROVE  IInv' /\ QuotesGrow
<1> DEFINE diff == Differs(row, e, b)
           d == [Idle EXCEPT !.step = "check", !.nonce = q, !.differs = diff,
                             !.tx = IF diff = "no" THEN t ELSE Nobody, !.row = row]
<1>1. /\ row # NoQuote /\ ~IsAnswered(row) /\ call' = [call EXCEPT ![r] = d]
      /\ UNCHANGED <<facilitator, quote, ledger, known, expired, work>> /\ handed' = {}
  BY DEF Present, NoAnswer
<1>2. row \in Row /\ RowInv(q, row)
  BY Types DEF IInv, RowsInv
<1>3. diff \in {"no", "endpoint", "body"}
  BY DEF Differs
<1>4. d \in Calls /\ d.step = "check" /\ d.nonce = q /\ d.row = row
  BY <1>2, <1>3, NoQuoteIsRow DEF Calls, Idle, Steps
<1> HIDE DEF d
<1>5. row.state # "NONE" /\ row.version \in Nat
  BY <1>1, <1>2, RowFields DEF RowInv
<1>6. CallInv(d)
  BY <1>1, <1>2, <1>4, <1>5 DEF CallInv, CopyInv, StepInv
<1>7. work' \in 0..MaxWork
  BY <1>1 DEF IInv, TypeOK
<1> QED
  BY <1>1, <1>4, <1>6, <1>7, CallMoves

\* The process stops, and no row says otherwise.
LEMMA RestartKeeps == ASSUME IInv, Restart PROVE IInv' /\ QuotesGrow
<1>1. call' = [r \in Requests |-> Idle]
  BY DEF Restart
<1>2. TypeOK' /\ AnswersArePaid'
  BY <1>1, NoQuoteIsRow DEF Restart, NoAnswer, IInv, TypeOK, AnswersArePaid, Calls, Steps
<1>3. \A r \in Requests : CallInv(call[r])'
  BY <1>1 DEF CallInv
<1> QED
  BY <1>2, <1>3, RowsStay DEF Restart

\* Time, and the mirror.
LEMMA ExpireKeeps ==
    ASSUME IInv, NEW q \in Quotes, Expire(q)
    PROVE  IInv' /\ QuotesGrow
<1>1. TypeOK' /\ AnswersArePaid'
  BY DEF Expire, NoAnswer, IInv, TypeOK, AnswersArePaid
<1> QED
  BY <1>1, RowsStay DEF Expire

LEMMA AppearKeeps ==
    ASSUME IInv, NEW t \in Txs, Appear(t)
    PROVE  IInv' /\ QuotesGrow
<1>1. TypeOK' /\ AnswersArePaid'
  BY DEF Appear, NoAnswer, IInv, TypeOK, AnswersArePaid
<1> QED
  BY <1>1, RowsStay DEF Appear

\* A stored answer is handed to whoever asks its question.
LEMMA ReplayKeeps ==
    ASSUME IInv, NEW q \in Quotes, NEW e \in Endpoints, NEW b \in Bodies, NEW row, row = quote[q],
           Replay(e, b, row)
    PROVE  IInv' /\ QuotesGrow
<1>1. TypeOK /\ row \in Row /\ RowInv(q, row)
  BY Types DEF IInv, RowsInv
<1>2. /\ handed' \subseteq [endpoint : Endpoints, body : Bodies, tx : Txs, response : 1..MaxWork]
      /\ AnswersArePaid'
  BY <1>1, HandsTheStored DEF Replay, SameQuestion
<1>3. TypeOK'
  BY <1>1, <1>2 DEF Replay, TypeOK
<1> QED
  BY <1>2, <1>3, RowsStay DEF Replay

\* A customer pays: the ledger says what it did not say.
LEMMA PayKeeps ==
    ASSUME IInv, NEW t \in Txs, NEW q \in Quotes, Pay(t, q)
    PROVE  IInv' /\ QuotesGrow
<1>1. TypeOK' /\ AnswersArePaid'
  BY DEF Pay, NoAnswer, IInv, TypeOK, AnswersArePaid
<1>2. LedgerGrows
  BY DEF Pay, LedgerGrows, IInv, TypeOK
<1>3. QuotesGrow
  BY Types, RowFields DEF QuotesGrow, IInv, Pay
<1>4. quote' = quote /\ call' = call
  BY DEF Pay
<1> QED
  BY <1>1, <1>2, <1>3, <1>4, StepKeeps

\* A quote is issued for a nonce nobody holds.
LEMMA IssueQuoteKeeps ==
    ASSUME IInv, NEW q \in Quotes, NEW asked, asked = QuestionOf[q], IssueQuote(q)
    PROVE  IInv' /\ QuotesGrow
<1> DEFINE new == [NoQuote EXCEPT !.state = "PAYMENT_REQUIRED", !.version = 1,
                      !.endpoint = asked.endpoint, !.body = asked.body, !.key = asked.key]
<1>1. /\ quote[q] = NoQuote /\ quote' = [quote EXCEPT ![q] = new]
      /\ UNCHANGED <<facilitator, ledger, known, expired, call, work>> /\ handed' = {}
  BY DEF IssueQuote, NoAnswer
<1>2. /\ new \in Row /\ new.state = "PAYMENT_REQUIRED" /\ new.version = 1 /\ new.tx = Nobody
      /\ new.endpoint \in Endpoints /\ new.body \in Bodies
  BY NoQuoteIsRow, PaymentsAssumption DEF Row, NoQuote
<1> HIDE DEF new
<1>3. quote \in [Quotes -> Row]
  BY Types DEF IInv
<1>4. \A x \in Quotes : quote'[x] = IF x = q THEN new ELSE quote[x]
  BY <1>1, <1>3
<1>5. TypeOK' /\ AnswersArePaid'
  BY <1>1, <1>2, <1>3 DEF IInv, TypeOK, AnswersArePaid
<1>6. LedgerGrows /\ call' = call
  BY <1>1 DEF LedgerGrows
<1>7. QuotesGrow
  <2>1. ~IsAnswered(NoQuote) /\ NoQuote.version = 0
    BY DEF IsAnswered, NoQuote
  <2> QED
    BY <1>1, <1>2, <1>3, <1>4, <2>1, RowFields DEF QuotesGrow
<1>8. \A x \in Quotes : quote'[x] # quote[x] => RowInv(x, quote[x])'
  BY <1>2, <1>4 DEF RowInv, IsPaid, IsAnswered
<1> QED
  BY <1>5, <1>6, <1>7, <1>8, StepKeeps

-----------------------------------------------------------------------------
(* Every step *)

LEMMA NextIInv == IInv /\ [Next]_vars => IInv' /\ QuotesGrow
<1> SUFFICES ASSUME IInv, [Next]_vars PROVE IInv' /\ QuotesGrow
  OBVIOUS
<1>1. CASE UNCHANGED vars
  <2>1. TypeOK' /\ AnswersArePaid'
    BY <1>1 DEF vars, IInv, TypeOK, AnswersArePaid
  <2> QED
    BY <1>1, <2>1, RowsStay DEF vars
<1>2. ASSUME NEW e \in Endpoints, NEW b \in Bodies, NEW k \in Keys, ReplayByKey(e, b, k)
      PROVE  IInv' /\ QuotesGrow
  BY <1>2, ReplayKeeps DEF ReplayByKey, Seen
<1>3. ASSUME NEW e \in Endpoints, NEW b \in Bodies, NEW q \in Quotes, ReplayByNonce(q, e, b)
      PROVE  IInv' /\ QuotesGrow
  BY <1>3, ReplayKeeps DEF ReplayByNonce
<1>4. ASSUME NEW e \in Endpoints, NEW b \in Bodies, NEW q \in Quotes, NEW r \in Requests,
             NEW t \in Txs, Present(r, q, e, b, t)
      PROVE  IInv' /\ QuotesGrow
  BY <1>4, PresentKeeps
<1>5. ASSUME NEW r \in Requests,
             Accept(r) \/ Reject(r) \/ Sign(r) \/ DoWork(r) \/ Store(r) \/ Settle(r) \/ GiveUp(r)
      PROVE  IInv' /\ QuotesGrow
  BY <1>5, AcceptKeeps, RejectKeeps, SignKeeps, DoWorkKeeps, StoreKeeps, SettleKeeps, GiveUpKeeps
<1>6. ASSUME NEW t \in Txs, Appear(t) \/ \E q \in Quotes : Pay(t, q)
      PROVE  IInv' /\ QuotesGrow
  BY <1>6, AppearKeeps, PayKeeps
<1>7. ASSUME NEW q \in Quotes, IssueQuote(q) \/ Expire(q)
      PROVE  IInv' /\ QuotesGrow
  BY <1>7, IssueQuoteKeeps, ExpireKeeps
<1>8. CASE Restart
  BY <1>8, RestartKeeps
<1> QED
  BY <1>1, <1>2, <1>3, <1>4, <1>5, <1>6, <1>7, <1>8 DEF Next

-----------------------------------------------------------------------------
(* What the runs check, for every value of the constants *)

\* The inductive invariant: what a redemption holds of its quote is a past version of the row, and
\* what was found of its payment is still so whenever it can still be written.
THEOREM QuoteInvariant == Spec => []IInv
<1>1. IInv /\ [Next]_vars => IInv'
  BY NextIInv
<1> QED
  BY <1>1, InitIInv, PTL DEF Spec

\* Rows, redemptions and answers keep their types.
THEOREM TypeCorrect == Spec => []TypeOK
<1>1. IInv => TypeOK
  BY DEF IInv
<1> QED
  BY <1>1, QuoteInvariant, PTL

\* Every answer handed to a customer, fresh or replayed, is the stored answer of the one quote its
\* transaction was made for and is recorded with.
THEOREM EveryAnswerIsPaid == Spec => []AnswersArePaid
<1>1. IInv => AnswersArePaid
  BY DEF IInv
<1> QED
  BY <1>1, QuoteInvariant, PTL

\* Nothing but a request that was checked and refused rejects a quote.
LEMMA OnlyRejectRejects ==
    ASSUME IInv, [Next]_vars, NEW q \in Quotes,
           quote[q].state # "REJECTED", quote'[q].state = "REJECTED"
    PROVE  \E r \in Requests : Reject(r) /\ call[r].nonce = q
<1>1. quote \in [Quotes -> Row] /\ \A r \in Requests : call[r] \in Calls
  BY Types DEF IInv
<1>2. ASSUME NEW r \in Requests, NEW row, NEW step, Advance(r, row, step), call[r] # Idle
      PROVE  /\ call[r].nonce \in Quotes /\ call[r].row \in Row
             /\ q = call[r].nonce => quote'[q] = [row EXCEPT !.version = @ + 1]
             /\ q # call[r].nonce => quote'[q] = quote[q]
  BY <1>1, <1>2, WrittenIsCurrent DEF Advance
<1>3. ASSUME NEW r \in Requests, NEW row, NEW step, Advance(r, row, step), call[r] # Idle,
             [row EXCEPT !.version = @ + 1].state # "REJECTED"
      PROVE  FALSE
  BY <1>2, <1>3
<1>4. ASSUME NEW r \in Requests, Sign(r) \/ Store(r) \/ Settle(r) PROVE FALSE
  <2> DEFINE c == call[r]
  <2>1. c # Idle
    BY <1>4 DEF Sign, Store, Settle, Idle
  <2>2. CASE Sign(r)
    <3>1. Advance(r, [c.row EXCEPT !.state = "VERIFIED", !.tx = c.tx], "work")
      BY <2>2 DEF Sign
    <3>2. c.row \in Row
      BY <1>2, <2>1, <3>1
    <3>3. [[c.row EXCEPT !.state = "VERIFIED", !.tx = c.tx] EXCEPT !.version = @ + 1].state # "REJECTED"
      BY <3>2 DEF Row
    <3> QED
      BY <1>3, <2>1, <3>1, <3>3
  <2>3. CASE Store(r)
    <3>1. Advance(r, [c.row EXCEPT !.state = "PROCESSED", !.response = c.response], "settle")
      BY <2>3 DEF Store
    <3>2. c.row \in Row
      BY <1>2, <2>1, <3>1
    <3>3. [[c.row EXCEPT !.state = "PROCESSED", !.response = c.response] EXCEPT !.version = @ + 1].state # "REJECTED"
      BY <3>2 DEF Row
    <3> QED
      BY <1>3, <2>1, <3>1, <3>3
  <2>4. CASE Settle(r)
    <3>1. quote' = quote \/ Advance(r, [c.row EXCEPT !.state = "SETTLED"], "idle")
      BY <2>4 DEF Settle
    <3>2. c.row \in Row
      BY <1>1, <2>1 DEF Calls
    <3>3. [[c.row EXCEPT !.state = "SETTLED"] EXCEPT !.version = @ + 1].state # "REJECTED"
      BY <3>2 DEF Row
    <3> QED
      BY <1>3, <2>1, <3>1, <3>3
  <2> QED
    BY <1>4, <2>2, <2>3, <2>4
<1>5. ASSUME NEW x \in Quotes, IssueQuote(x) PROVE FALSE
  BY <1>1, <1>5 DEF IssueQuote, NoQuote
<1>6. ASSUME NEW r \in Requests, Reject(r) PROVE call[r].nonce = q
  <2>1. call[r] # Idle /\ Advance(r, [call[r].row EXCEPT !.state = "REJECTED", !.reason = Verdict(call[r])], "idle")
    BY <1>6 DEF Reject, Idle
  <2> QED
    BY <1>2, <2>1
<1>7. quote' # quote
  OBVIOUS
<1> QED
  BY <1>4, <1>5, <1>6, <1>7
  DEF Next, vars, ReplayByKey, ReplayByNonce, Replay, Present, Accept, DoWork, GiveUp, Appear, Pay,
      Expire, Restart

\* Whichever redemptions and strangers race for it, a quote whose payment is recorded is rejected
\* only when its time is over, when an in-process ledger has lost the payment, or by a request that
\* asks it another question (check, before it compares the payments).
THEOREM RecordedPaymentStands == Spec => PaidQuoteIsKept
<1>1. ASSUME IInv, [Next]_vars, NEW q \in Quotes,
             quote[q].tx # Nobody, quote[q].state # "REJECTED", quote'[q].state = "REJECTED"
      PROVE  LawfullyRefused(q, quote'[q].reason)
  <2>1. PICK r \in Requests : Reject(r) /\ call[r].nonce = q
    BY <1>1, OnlyRejectRejects
  <2> DEFINE c == call[r]
             why == Verdict(c)
  <2>2. /\ c # Idle /\ Refuses(why) /\ Unmoved(r)
        /\ quote'[q] = [[c.row EXCEPT !.state = "REJECTED", !.reason = why] EXCEPT !.version = @ + 1]
    BY <1>1, <2>1, Types DEF Reject, Advance, Idle, IInv
  <2>3. /\ quote[q] = c.row /\ c.row \in Row /\ RowInv(q, c.row) /\ StepInv(c) /\ c.step = "check"
        /\ c \in Calls
    BY <1>1, <2>1, <2>2, WrittenIsCurrent, Types DEF Reject, IInv
  <2>4. quote'[q].reason = why
    BY <2>2, <2>3 DEF Row
  <2>5. c.differs \in {"no", "endpoint", "body"}
    BY <2>3 DEF Calls
  <2>6. CASE c.differs # "no"
    BY <2>1, <2>4, <2>5, <2>6 DEF LawfullyRefused, Verdict
  <2>7. CASE c.differs = "no" /\ q \in expired
    BY <2>1, <2>4, <2>7 DEF LawfullyRefused, Verdict
  <2>8. CASE c.differs = "no" /\ q \notin expired
    <3>1. /\ ~Taken(c) /\ Refuses(why)
          /\ why = IF facilitator = "local" THEN LocalVerdict(c.tx, q) ELSE ChainVerdict(c.tx, q)
      BY <2>1, <2>2, <2>8 DEF Verdict, Refuses
    <3>2. c.row.tx # Nobody /\ ledger[c.row.tx] = q
      BY <1>1, <2>3 DEF RowInv
    <3>3. c.row.state # "PAYMENT_REQUIRED"
      BY <2>3, <3>2 DEF RowInv
    <3>4. c.tx = c.row.tx /\ ledger[c.tx] = q
      BY <3>1, <3>2, <3>3 DEF Taken
    <3>5. facilitator = "local" /\ c.tx \notin known /\ why = "payment"
      BY <2>8, <3>1, <3>4 DEF LocalVerdict, ChainVerdict, Refuses
    <3> QED
      BY <2>3, <2>4, <3>4, <3>5 DEF LawfullyRefused
  <2> QED
    BY <2>6, <2>7, <2>8
<1>2. IInv /\ [Next]_vars =>
        [\A q \in Quotes :
            quote[q].tx # Nobody /\ quote[q].state # "REJECTED" /\ quote'[q].state = "REJECTED" =>
               LawfullyRefused(q, quote'[q].reason)]_vars
  BY <1>1
<1> QED
  BY <1>2, QuoteInvariant, PTL DEF Spec, PaidQuoteIsKept

\* Once Process has stored an answer no step of any redemption, late, repeated or refused, changes
\* the answer or the payment it was given for.
THEOREM StoredAnswerStays == Spec => AnswerIsFinal
<1>1. IInv /\ [Next]_vars =>
        [\A q \in Quotes : IsAnswered(quote[q]) =>
            IsAnswered(quote'[q]) /\ quote'[q].response = quote[q].response /\ quote'[q].tx = quote[q].tx]_vars
  BY NextIInv DEF QuotesGrow
<1> QED
  BY <1>1, QuoteInvariant, PTL DEF Spec, AnswerIsFinal
===============================================================================
