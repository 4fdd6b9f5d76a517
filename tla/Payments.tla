------------------------------- MODULE Payments -------------------------------
(***************************************************************************)
(* Paid endpoints: a request without a payment is quoted a price, a request  *)
(* with one is checked against its quote, recorded as paid, answered, and    *)
(* the answer is stored.  Customers retry, strangers name other people's     *)
(* quotes, the mirror of the network lags, processes stop between any two    *)
(* steps.  Every write names the version of the row it was computed from.    *)
(***************************************************************************)
EXTENDS Naturals, FiniteSets

CONSTANTS
    Endpoints, Bodies,  \* what may be asked, and where
    Keys, NoKey,        \* idempotency keys a customer may send with an unpaid request
    Quotes,             \* nonces,
    QuestionOf,         \*   and the first request each of them may be issued for
    Txs,                \* transactions customers may make
    Facilitators,       \* "local", "chain"
    Requests,           \* bound: redemptions under way at once
    MaxWork,            \* bound: how often the work is carried out
    Nobody

ASSUME PaymentsAssumption ==
    /\ QuestionOf \in [Quotes -> [endpoint : Endpoints, body : Bodies, key : Keys \cup {NoKey}]]
    /\ NoKey \notin Keys /\ Nobody \notin Quotes \cup Txs \cup Endpoints \cup Bodies
    /\ Facilitators \subseteq {"local", "chain"} /\ MaxWork \in Nat

VARIABLES
    facilitator,  \* which of the two this deployment uses
    quote,        \* the table of paid requests, by nonce
    ledger,       \* what each transaction really paid for: the quote it names
    known,        \* transactions the facilitator can see
    expired,      \* quotes whose time has passed
    call,         \* redemptions under way: what they present, the row they read, how they differ
    work,         \* how often the work was carried out
    handed        \* the answer the last step gave to a customer

vars == <<facilitator, quote, ledger, known, expired, call, work, handed>>

NoQuote == [state |-> "NONE", endpoint |-> Nobody, body |-> Nobody, key |-> NoKey,
            tx |-> Nobody, reason |-> "none", response |-> 0, version |-> 0]
Idle == [step |-> "idle", nonce |-> Nobody, differs |-> "no", tx |-> Nobody, row |-> NoQuote, response |-> 0]

Init ==
    /\ facilitator \in Facilitators
    /\ quote = [q \in Quotes |-> NoQuote]
    /\ ledger = [t \in Txs |-> Nobody]
    /\ known = {} /\ expired = {}
    /\ call = [r \in Requests |-> Idle]
    /\ work = 0
    /\ handed = {}

-------------------------------------------------------------------------------
(* The row of a quote *)

IsAnswered(row) == row.state \in {"PROCESSED", "SETTLED"}
IsFinished(row) == row.state \in {"SETTLED", "REJECTED"}

\* The transitions the service asks for; signing and verifying are stored together.
Transitions == {<<"PAYMENT_REQUIRED", "VERIFIED">>, <<"VERIFIED", "PROCESSED">>,
                <<"PROCESSED", "SETTLED">>, <<"PAYMENT_REQUIRED", "REJECTED">>,
                <<"VERIFIED", "REJECTED">>, <<"PROCESSED", "REJECTED">>}

\* Update: nothing is written when the row has moved since it was read.
\* Mutation: the version is not compared.
MutAnyVersion(r) == TRUE
Unmoved(r) == quote[call[r].nonce].version = call[r].row.version

\* A transaction is recorded with one quote at most: a unique key.
TxIsFree(t, q) == \A other \in Quotes \ {q} : quote[other].tx # t

\* advance: the changed copy replaces the row; the request goes on with the copy.
Advance(r, row, step) ==
    LET moved == [row EXCEPT !.version = @ + 1] IN
    /\ <<call[r].row.state, row.state>> \in Transitions /\ Unmoved(r)
    /\ quote' = [quote EXCEPT ![call[r].nonce] = moved]
    /\ call' = [call EXCEPT ![r] = IF step = "idle" THEN Idle ELSE [@ EXCEPT !.row = moved, !.step = step]]

NoAnswer == handed' = {}
Hand(e, b, row) == handed' = {[endpoint |-> e, body |-> b, tx |-> row.tx, response |-> row.response]}

-------------------------------------------------------------------------------
(* An unpaid request *)

\* Quote: a key that was seen before is replayed; the unique key on endpoint and key settles a
\* race of two first requests.
Seen(e, k) == {q \in Quotes : k # NoKey /\ quote[q].key = k /\ quote[q].endpoint = e}

IssueQuote(q) ==
    LET asked == QuestionOf[q] IN
    /\ quote[q] = NoQuote /\ Seen(asked.endpoint, asked.key) = {}
    /\ quote' = [quote EXCEPT ![q] = [NoQuote EXCEPT !.state = "PAYMENT_REQUIRED", !.version = 1,
                   !.endpoint = asked.endpoint, !.body = asked.body, !.key = asked.key]]
    /\ UNCHANGED <<facilitator, ledger, known, expired, call, work>> /\ NoAnswer

\* replay: the stored answer, to whoever asks the same question.
\* Mutation: the question is not compared.
MutAnyQuestion(row, b) == TRUE
SameQuestion(row, b) == row.body = b

Replay(e, b, row) ==
    /\ IsAnswered(row) /\ SameQuestion(row, b)
    /\ Hand(e, b, row)
    /\ UNCHANGED <<facilitator, quote, ledger, known, expired, call, work>>

ReplayByKey(e, b, k) == \E q \in Seen(e, k) : Replay(e, b, quote[q])

\* ChallengeTTL passes.
Expire(q) ==
    /\ quote[q].state \notin {"NONE", "SETTLED", "REJECTED"} /\ q \notin expired
    /\ expired' = expired \cup {q}
    /\ UNCHANGED <<facilitator, quote, ledger, known, call, work>> /\ NoAnswer

-------------------------------------------------------------------------------
(* The payment *)

\* A customer pays for a quote in full and names it.  A transfer that is too little, goes to
\* somebody else or carries no nonce is, for any quote, what the payment of another one is.
Pay(t, q) ==
    /\ ledger[t] = Nobody /\ quote[q] # NoQuote
    /\ ledger' = [ledger EXCEPT ![t] = q]
    /\ known' = IF facilitator = "local" THEN known \cup {t} ELSE known
    /\ UNCHANGED <<facilitator, quote, expired, call, work>> /\ NoAnswer

\* The mirror catches up.
Appear(t) ==
    /\ facilitator = "chain" /\ ledger[t] # Nobody /\ t \notin known
    /\ known' = known \cup {t}
    /\ UNCHANGED <<facilitator, quote, ledger, expired, call, work>> /\ NoAnswer

\* LocalFacilitator.Verify: a transaction it does not hold is refused.  That a payment was spent
\* on another body needs no check of its own: a nonce has one body.
LocalVerdict(t, q) ==
    IF t \in known THEN IF q \in expired THEN "expired"
                        ELSE IF ledger[t] = q THEN "good" ELSE "payment"
    ELSE "payment"

\* ChainFacilitator.Verify: a transaction the mirror does not hold yet may still come.
ChainVerdict(t, q) ==
    IF q \in expired THEN "expired" ELSE IF t \notin known THEN "later"
    ELSE IF ledger[t] = q THEN "good" ELSE "payment"

\* check, on the row as it was read.
\* Mutation: who pays for a quote in progress is not asked.
MutTaken(c) == c.row.state = "REJECTED"
Taken(c) == c.row.state = "REJECTED" \/ (c.row.state # "PAYMENT_REQUIRED" /\ c.row.tx # c.tx)

Verdict(c) ==
    IF c.differs # "no" THEN c.differs
    ELSE IF c.nonce \in expired THEN "expired"
    ELSE IF Taken(c) THEN "later"
    ELSE IF facilitator = "local" THEN LocalVerdict(c.tx, c.nonce) ELSE ChainVerdict(c.tx, c.nonce)

\* refusesThePayment: everything but a conflict and a dependency that could not be asked.
Refuses(verdict) == verdict \in {"endpoint", "body", "expired", "payment"}

-------------------------------------------------------------------------------
(* A request with a payment: Redeem *)

\* GetByNonce; an answered quote is replayed at once.  A question that is not the quoted one is
\* refused for that, whatever payment comes with it.
Differs(row, e, b) == IF row.endpoint # e THEN "endpoint" ELSE IF row.body # b THEN "body" ELSE "no"

Present(r, q, e, b, t) ==
    /\ call[r] = Idle /\ quote[q] # NoQuote /\ ~IsAnswered(quote[q])
    /\ LET d == Differs(quote[q], e, b) IN
       call' = [call EXCEPT ![r] = [Idle EXCEPT !.step = "check", !.nonce = q, !.differs = d,
                                     !.tx = IF d = "no" THEN t ELSE Nobody, !.row = quote[q]]]
    /\ UNCHANGED <<facilitator, quote, ledger, known, expired, work>> /\ NoAnswer

ReplayByNonce(q, e, b) == Replay(e, b, quote[q])

Accept(r) ==
    /\ call[r].step = "check" /\ Verdict(call[r]) = "good"
    /\ call' = [call EXCEPT ![r].step = IF call[r].row.state = "PAYMENT_REQUIRED" THEN "sign" ELSE "work"]
    /\ UNCHANGED <<facilitator, quote, ledger, known, expired, work>> /\ NoAnswer

\* reject: the refusal is stored with its reason.
Reject(r) ==
    /\ call[r].step = "check" /\ Refuses(Verdict(call[r])) /\ ~IsFinished(call[r].row)
    /\ Advance(r, [call[r].row EXCEPT !.state = "REJECTED", !.reason = Verdict(call[r])], "idle")
    /\ UNCHANGED <<facilitator, ledger, known, expired, work>> /\ NoAnswer

\* Sign and Verify, one transaction.
Sign(r) ==
    /\ call[r].step = "sign" /\ TxIsFree(call[r].tx, call[r].nonce)
    /\ Advance(r, [call[r].row EXCEPT !.state = "VERIFIED", !.tx = call[r].tx], "work")
    /\ UNCHANGED <<facilitator, ledger, known, expired, work>> /\ NoAnswer

\* The work runs outside any transaction, and no two runs need to agree.
DoWork(r) ==
    /\ call[r].step = "work" /\ work < MaxWork
    /\ work' = work + 1
    /\ call' = [call EXCEPT ![r].step = "store", ![r].response = work']
    /\ UNCHANGED <<facilitator, quote, ledger, known, expired>> /\ NoAnswer

\* Process.
Store(r) ==
    /\ call[r].step = "store"
    /\ Advance(r, [call[r].row EXCEPT !.state = "PROCESSED", !.response = call[r].response], "settle")
    /\ UNCHANGED <<facilitator, ledger, known, expired, work>> /\ NoAnswer

\* The facilitator settles and that is stored, or it does not and the platform will see to it.
Settle(r) ==
    /\ call[r].step = "settle"
    /\ Hand(call[r].row.endpoint, call[r].row.body, call[r].row)
    /\ \/ call[r].tx \in known /\ Advance(r, [call[r].row EXCEPT !.state = "SETTLED"], "idle")
       \/ call' = [call EXCEPT ![r] = Idle] /\ UNCHANGED quote
    /\ UNCHANGED <<facilitator, ledger, known, expired, work>>

\* A verdict that is none, a conflict, work that fails, a caller that has gone.
GiveUp(r) ==
    /\ call[r] # Idle /\ call' = [call EXCEPT ![r] = Idle]
    /\ UNCHANGED <<facilitator, quote, ledger, known, expired, work>> /\ NoAnswer

\* The process stops; the in-process ledger goes with it.
Restart ==
    /\ call' = [r \in Requests |-> Idle]
    /\ known' = IF facilitator = "local" THEN {} ELSE known
    /\ UNCHANGED <<facilitator, quote, ledger, expired, work>> /\ NoAnswer

Next ==
    \/ \E e \in Endpoints, b \in Bodies :
          \/ \E k \in Keys : ReplayByKey(e, b, k)
          \/ \E q \in Quotes :
                \/ ReplayByNonce(q, e, b)
                \/ \E r \in Requests, t \in Txs : Present(r, q, e, b, t)
    \/ \E r \in Requests :
          \/ Accept(r) \/ Reject(r) \/ Sign(r) \/ DoWork(r) \/ Store(r) \/ Settle(r) \/ GiveUp(r)
    \/ \E t \in Txs : Appear(t) \/ \E q \in Quotes : Pay(t, q)
    \/ \E q \in Quotes : IssueQuote(q) \/ Expire(q)
    \/ Restart

Spec == Init /\ [][Next]_vars

-------------------------------------------------------------------------------
(* Properties *)

Row == [state : {"NONE", "PAYMENT_REQUIRED", "VERIFIED", "PROCESSED", "SETTLED", "REJECTED"},
        endpoint : Endpoints \cup {Nobody}, body : Bodies \cup {Nobody}, key : Keys \cup {NoKey},
        tx : Txs \cup {Nobody}, reason : {"none", "endpoint", "body", "expired", "payment"},
        response : 0..MaxWork, version : Nat]

\* Rows, what requests carry and what was handed out keep their types.
TypeOK ==
    /\ facilitator \in Facilitators
    /\ quote \in [Quotes -> Row]
    /\ ledger \in [Txs -> Quotes \cup {Nobody}]
    /\ known \subseteq Txs /\ expired \subseteq Quotes /\ work \in 0..MaxWork
    /\ call \in [Requests -> [step : {"idle", "check", "sign", "work", "store", "settle"},
                              nonce : Quotes \cup {Nobody}, differs : {"no", "endpoint", "body"},
                              tx : Txs \cup {Nobody}, row : Row, response : 0..MaxWork]]
    /\ handed \subseteq [endpoint : Endpoints, body : Bodies, tx : Txs, response : 1..MaxWork]

\* Every answer a customer receives was paid for in full, by a transaction made for that one quote
\* and recorded with it, answers the question it was quoted for, and is the stored answer: no
\* transaction buys two answers, however many redemptions run at once, fail half way or repeat.
AnswersArePaid ==
    \A h \in handed : \E q \in Quotes :
        /\ ledger[h.tx] = q /\ quote[q].tx = h.tx
        /\ quote[q].body = h.body /\ quote[q].response = h.response

\* What can take a quote from a customer whose payment is recorded with it, in whatever order
\* requests read and write: its time is over, the in-process ledger lost the payment in a restart,
\* or somebody names its nonce with another question, which `check` refuses before it asks who has
\* paid.  That somebody may be a stranger, although Redeem and refusesThePayment mean to keep a
\* stranger from burning a quote somebody else has paid for; with a proof of his own, good or
\* bad, a stranger burns nothing.
LawfullyRefused(q, why) ==
    \/ why = "expired" /\ q \in expired
    \/ why = "payment" /\ facilitator = "local" /\ quote[q].tx \notin known
    \/ why \in {"endpoint", "body"} /\ \E r \in Requests : call[r].nonce = q /\ call[r].differs = why

PaidQuoteIsKept ==
    [][\A q \in Quotes :
          quote[q].tx # Nobody /\ quote[q].state # "REJECTED" /\ quote'[q].state = "REJECTED" =>
             LawfullyRefused(q, quote'[q].reason)]_vars

\* An answer, once stored, is the answer: no late work, no rejection and no restart takes it away.
AnswerIsFinal ==
    [][\A q \in Quotes : IsAnswered(quote[q]) =>
          IsAnswered(quote'[q]) /\ quote'[q].response = quote[q].response /\ quote'[q].tx = quote[q].tx]_vars

===============================================================================
