-------------------------------- MODULE Intake --------------------------------
(***************************************************************************)
(* How a receivable comes in (invoice, app/documents, app/confidential,    *)
(* app/assessment): a seller creates it and uploads its encrypted          *)
(* document; the confidential workflow wakes on its schedule, collects the *)
(* oldest receivable that waits, opens the document and delivers what it   *)
(* found, which the platform prices; the seller approves or rejects.       *)
(*                                                                         *)
(* Runs of the workflow overlap each other and the seller's requests:      *)
(* there is no claim on the work, only the version of the row.             *)
(***************************************************************************)
EXTENDS Market, Risk, Evidence

CONSTANTS
    Offers,                \* what is for sale: [issuer, debtor, number, face, due]
    Lower(_), Trimmed(_),  \* spellings without capitals, and without the spaces around
    Documents,             \* what they say, by their digests (see Evidence)
    Claimed,               \* rows the metadata endpoint is given: [key, hash]
    Markets,               \* what the lending venues answer, one after another
    Window,                \* how many waiting receivables Next looks at (20)
    Callers,               \* requests and runs of the workflow under way at once
    Today,                 \* days on which an answer may come
    MaxInvoices, MaxRequested   \* bounds

ASSUME IntakeAssumption ==
    /\ Window \in Nat \ {0} /\ Today \subseteq Int
    /\ \A x \in Offers : x.face \in Nat \ {0} /\ x.due \in Nat \ {0}

\* A venue that answers gives finitely many rows.
ASSUME MarketsAssumption ==
    \A n \in DOMAIN Markets :
        /\ IsFiniteSet(DOMAIN Markets[n])
        /\ \A v \in DOMAIN Markets[n] : Markets[n][v] # NoAnswer =>
              /\ IsFiniteSet(Markets[n][v])
              /\ \A r \in Markets[n][v] : r.lender \in Nat \cup {NoRate} /\ r.deposits \in Nat

VARIABLES
    invoice,      \* the rows, in the order of their creation
    document,     \* the document row of every invoice
    objects,      \* keys of the ciphertexts that are stored
    assessments,  \* rows
    call,         \* requests and runs under way, with what they read
    scores        \* what the model says of every answer: computed once, never changed

vars == <<invoice, document, objects, assessments, call, scores>>

Idle == [op |-> "none"]
NoDocument == [key |-> <<>>]
Ids == 1..Len(invoice)
Status(i) == invoice[i].status

\* score: nothing without a snapshot of the market as of now.
ScoreOf(d, n, face, days) ==
    LET snapshot == Snapshot(Markets[n])
    IN IF snapshot = NoSnapshot THEN NoScore
       ELSE Score(face, days, Result(Documents[d]), snapshot)

Scores == {[read |-> d, market |-> n, face |-> x.face, days |-> x.due - day,
            score |-> ScoreOf(d, n, x.face, x.due - day)] :
             d \in DOMAIN Documents, n \in DOMAIN Markets, x \in Offers, day \in Today}

Init ==
    /\ invoice = <<>> /\ document = <<>> /\ objects = {} /\ assessments = {}
    /\ call = [c \in Callers |-> Idle]
    /\ scores = Scores

-----------------------------------------------------------------------------
\* status.go: what the seller and the platform may do to a receivable.
Moves == [DRAFT |-> {"UPLOADED", "REJECTED"}, UPLOADED |-> {"EXTRACTING", "REJECTED"},
          EXTRACTING |-> {"ASSESSED", "FAILED"}, ASSESSED |-> {"APPROVED", "REJECTED"},
          FAILED |-> {"EXTRACTING", "REJECTED"}, APPROVED |-> {}, REJECTED |-> {}]

Begin(c, request) ==
    /\ call[c] = Idle /\ \A b \in Callers : b < c => call[b] # Idle
    /\ call' = [call EXCEPT ![c] = request]
    /\ UNCHANGED <<invoice, document, objects, assessments, scores>>
Return(c) == call' = [call EXCEPT ![c] = Idle]

\* Update under the version that was read.
\* Mutant: whatever the version.
MutAnyVersion(c) == TRUE
Unmoved(c) == invoice[call[c].of].version = call[c].row.version
Set(i, row) == invoice' = [invoice EXCEPT ![i] = [row EXCEPT !.version = @ + 1]]
SetStatus(c, status) == Set(call[c].of, [call[c].row EXCEPT !.status = status])

(***************************************************************************)
(* Create.  The receivable is what the debtor owes, whoever sells it: no   *)
(* other that is neither rejected nor over may have the same fingerprint,  *)
(* nor the same seller, debtor and number.                                 *)
(***************************************************************************)
\* Mutant: the terms are compared as the seller spells them.
MutAsSpelled(row) == <<row.debtor, row.number, row.face, row.due>>
Fingerprint(row) == <<Lower(Trimmed(row.debtor)), Trimmed(row.number), row.face, row.due>>

Live(i) == Status(i) # "REJECTED"
IsTaken(row) == \E i \in Ids : Live(i) /\
    \/ Fingerprint(invoice[i]) = Fingerprint(row)
    \/ /\ invoice[i].issuer = row.issuer
       /\ invoice[i].debtor = row.debtor /\ invoice[i].number = row.number

Create(x) ==
    LET row == [issuer |-> x.issuer, debtor |-> Trimmed(x.debtor), number |-> Trimmed(x.number),
                face |-> x.face, due |-> x.due, status |-> "DRAFT", version |-> 1, assessed |-> 0]
    IN /\ Len(invoice) < MaxInvoices /\ ~IsTaken(row)
       /\ invoice' = Append(invoice, row) /\ document' = Append(document, NoDocument)
       /\ UNCHANGED <<objects, assessments, call, scores>>

\* objects.New, Put: a ciphertext is stored once, under its owner and digest.
ObjectKey(i, digest) == <<i, digest>>
\* NewDocument: a key and a digest that look like ones.
NewDocument(key, digest) == [key |-> key, hash |-> digest]

\* Upload stores the ciphertext under its digest; the metadata endpoint is
\* told a key and a digest and believes it.
ReadToUpload(c, i, d) ==
    /\ "UPLOADED" \in Moves[Status(i)]
    /\ Begin(c, [op |-> "upload", of |-> i, row |-> invoice[i], put |-> TRUE,
                 document |-> NewDocument(ObjectKey(i, d), d)])
ReadToAttach(c, i, claim) ==
    /\ "UPLOADED" \in Moves[Status(i)]
    /\ Begin(c, [op |-> "upload", of |-> i, row |-> invoice[i], put |-> FALSE,
                 document |-> NewDocument(claim.key, claim.hash)])

SaveDocument(c) ==
    /\ call[c].op = "upload" /\ Unmoved(c) /\ Return(c)
    /\ document' = [document EXCEPT ![call[c].of] = call[c].document]
    /\ objects' = objects \cup (IF call[c].put THEN {call[c].document.key} ELSE {})
    /\ SetStatus(c, "UPLOADED")
    /\ UNCHANGED <<assessments, scores>>

\* RequestAssessment (the outbox command it publishes is in Pipeline; with the
\* workflow elsewhere the command is closed at once), Approve and Reject.
\* (Requests are bounded: every move makes a version.)
Requested == MapThenSumSet(LAMBDA i : invoice[i].version, Ids)
ReadToMove(c, i, status) ==
    /\ status \in Moves[Status(i)]
    /\ status = "EXTRACTING" => document[i] # NoDocument /\ Requested < MaxRequested
    /\ status = "APPROVED" => invoice[i].assessed # 0
    /\ Begin(c, [op |-> "move", of |-> i, row |-> invoice[i], to |-> status])

Move(c) ==
    /\ call[c].op = "move" /\ Unmoved(c) /\ Return(c)
    /\ SetStatus(c, call[c].to)
    /\ UNCHANGED <<document, objects, assessments, scores>>

-----------------------------------------------------------------------------
(***************************************************************************)
(* Next: of the oldest that wait, as many as the window holds, the first   *)
(* with a document and an object behind it.                                *)
(***************************************************************************)
Waits(i) == Status(i) = "EXTRACTING"
HasObject(i) == document[i] # NoDocument /\ document[i].key \in objects

\* Mutant: the newest first.
MutNewest == {i \in Ids : Waits(i) /\ Cardinality({j \in Ids : j > i /\ Waits(j)}) < Window}
Listed == {i \in Ids : Waits(i) /\ Cardinality({j \in Ids : j < i /\ Waits(j)}) < Window}
Collectable == {i \in Listed : HasObject(i)}

Collect(c) ==
    /\ Collectable # {}
    /\ Begin(c, [op |-> "work", of |-> Min(Collectable), document |-> document[Min(Collectable)]])

\* assess: the ciphertext has the digest that was stored and opens with the key.
Readable(row) == row.key[2] = row.hash /\ Documents[row.hash].opens

\* Complete: the receivable waits, the answer is well formed, and it is priced.
Deliver(c) ==
    /\ call[c].op = "work" /\ Readable(call[c].document) /\ Waits(call[c].of)
    /\ \E s \in scores :
         /\ s.read = call[c].document.hash /\ s.face = invoice[call[c].of].face
         /\ \E day \in Today : s.days = invoice[call[c].of].due - day
         /\ call' = [call EXCEPT ![c] =
              IF s.score = NoScore THEN [op |-> "failure", of |-> call[c].of]
              ELSE [op |-> "answer", of |-> call[c].of, row |-> invoice[call[c].of], made |-> s]]
    /\ UNCHANGED <<invoice, document, objects, assessments, scores>>

Assessment(c) ==
    LET made == call[c].made
    IN [of |-> call[c].of, version |-> call[c].row.version, read |-> made.read, market |-> made.market,
        face |-> made.face, days |-> made.days, score |-> made.score]

\* commit: the snapshot, the assessment and the receivable, together.
Commit(c) ==
    /\ call[c].op = "answer" /\ Unmoved(c) /\ Return(c)
    /\ assessments' = assessments \cup {Assessment(c)}
    /\ Set(call[c].of, [call[c].row EXCEPT !.status = "ASSESSED", !.assessed = call[c].row.version])
    /\ UNCHANGED <<document, objects, scores>>

\* recordFailure reads the row again.
RecordFailure(c) ==
    /\ call[c].op = "failure" /\ Return(c)
    /\ IF Waits(call[c].of)
       THEN Set(call[c].of, [invoice[call[c].of] EXCEPT !.status = "FAILED"])
       ELSE UNCHANGED invoice
    /\ UNCHANGED <<document, objects, assessments, scores>>

\* The document does not open, the receivable no longer waits, or its row has
\* moved: the run ends with an error, the request with a conflict.
IsRefused(c) ==
    CASE call[c].op \in {"none", "failure"} -> FALSE
      [] call[c].op = "work" -> ~Readable(call[c].document) \/ ~Waits(call[c].of)
      [] OTHER -> ~Unmoved(c)
Refuse(c) ==
    /\ IsRefused(c) /\ Return(c)
    /\ UNCHANGED <<invoice, document, objects, assessments, scores>>

\* A request that is lost on its way, a transaction that is rolled back, a crash.
Fail(c) ==
    /\ call[c] # Idle /\ Return(c)
    /\ UNCHANGED <<invoice, document, objects, assessments, scores>>

Proceed(c) == SaveDocument(c) \/ Move(c) \/ Collect(c) \/ Refuse(c)
Finish(c) == Commit(c) \/ RecordFailure(c)

Next ==
    \/ \E x \in Offers : Create(x)
    \/ \E c \in Callers :
         \/ Proceed(c) \/ Deliver(c) \/ Finish(c) \/ Fail(c)
         \/ \E i \in Ids :
              \/ \E d \in DOMAIN Documents : ReadToUpload(c, i, d)
              \/ \E claim \in Claimed : ReadToAttach(c, i, claim)
              \/ \E status \in {"EXTRACTING", "APPROVED", "REJECTED"} : ReadToMove(c, i, status)

\* The schedule starts runs for ever, and of runs that are started for ever
\* not all are lost on the same way.
Spec ==
    /\ Init /\ [][Next]_vars
    /\ \A c \in Callers : WF_vars(Proceed(c)) /\ SF_vars(Deliver(c)) /\ SF_vars(Finish(c))

-----------------------------------------------------------------------------
\* Two receivables that are both alive are never the same claim, however the
\* sellers spell it and whoever they are (invoice.Fingerprint, Create).
NoDoubleFinancing ==
    \A i, j \in Ids : i # j /\ Live(i) /\ Live(j) =>
        \/ Lower(Trimmed(invoice[i].debtor)) # Lower(Trimmed(invoice[j].debtor))
        \/ Trimmed(invoice[i].number) # Trimmed(invoice[j].number)
        \/ invoice[i].face # invoice[j].face \/ invoice[i].due # invoice[j].due

\* An assessment was made from the document its receivable has, and is the one
\* the receivable names: no answer about a document that has been replaced, and
\* no second answer (SaveDocument, Complete, commit).
AssessmentIsOfTheDocument ==
    \A a \in assessments :
        /\ a.read = document[a.of].hash
        /\ a.version = invoice[a.of].assessed

\* Of two receivables alike, priced in the same market, the one with the worse
\* evidence never gets the better grade, the smaller loss or the higher price,
\* and a price is never more than the face less the fee (Model.Assess, Model.Price).
AtLeastAsGood(a, b) ==
    LET x == Result(Documents[a.read])
        y == Result(Documents[b.read])
    IN /\ a.market = b.market /\ a.face = b.face /\ a.days = b.days
       /\ \A f \in DOMAIN x.features : x.features[f] <= y.features[f]
       /\ \A w \in DOMAIN x.mitigations : y.mitigations[w] => x.mitigations[w]
PriceFollowsRisk ==
    \A a \in assessments :
        /\ a.score.reserve <= invoice[a.of].face - Fee(invoice[a.of].face)
        /\ \A b \in assessments : AtLeastAsGood(a, b) =>
              /\ a.score.rank <= b.score.rank /\ a.score.loss <= b.score.loss
              /\ a.score.reserve >= b.score.reserve

\* A market with less than a tenth of the weight moves neither the benchmark nor
\* the volatility an assessment was priced with beyond what the others say
\* (Normalizer.Normalize: the thin venue that quotes an outlandish rate).
Thin(all) == {m \in all : 10 * Weight({m}) < Weight(all)}
WithoutThin ==
    [n \in DOMAIN Markets |->
        LET all == Eligible(Markets[n]) IN {{x.apy : x \in all \ {m}} : m \in Thin(all)}]
ThinMarketMovesNothing ==
    \A a \in assessments : \A rates \in WithoutThin[a.market] :
        /\ a.score.benchmark \in Min(rates)..Max(rates)
        /\ a.score.features.volatility <= 10 * (Max(rates) - Min(rates))

\* A receivable that waits is assessed or found wanting, unless its own document
\* cannot be read, or an older one's cannot, or the window is full of older ones
\* that name an object nobody stored (confidential.Service.Next).
Hidden(i) ==
    \/ ~HasObject(i) \/ ~Readable(document[i])
    \/ \E j \in 1..(i - 1) : Waits(j) /\ HasObject(j) /\ ~Readable(document[j])
    \/ Cardinality({j \in 1..(i - 1) : Waits(j) /\ ~HasObject(j)}) >= Window
WaitsInTheOpen(i) == i \in Ids /\ Waits(i) /\ ~Hidden(i)
OldestIsAnswered == \A i \in 1..MaxInvoices : WaitsInTheOpen(i) ~> ~WaitsInTheOpen(i)
===============================================================================
