----------------------------- MODULE IntakeProofs -----------------------------
(***************************************************************************)
(* Proofs about Intake, for any offers and spellings, any documents and    *)
(* metadata, any number of requests and runs of the workflow, and any      *)
(* model of the risk.                                                      *)
(*                                                                         *)
(* A document is attached to a draft only and no receivable becomes a      *)
(* draft again, so whoever works on one that has left DRAFT works on the   *)
(* document it will always have; and no row changes what is owed or comes  *)
(* back from REJECTED, so what Create found of a claim stays so.           *)
(*                                                                         *)
(* The second half is about Risk and Market: every step from a feature to  *)
(* a price rounds or clamps and keeps the order, and a market too thin to  *)
(* count moves neither the price nor the depth of a snapshot.              *)
(***************************************************************************)
EXTENDS Intake, SumProofs

States == {"DRAFT", "UPLOADED", "EXTRACTING", "ASSESSED", "FAILED", "APPROVED", "REJECTED"}
Rows == [issuer : {x.issuer : x \in Offers}, debtor : {Trimmed(x.debtor) : x \in Offers},
         number : {Trimmed(x.number) : x \in Offers}, face : {x.face : x \in Offers},
         due : {x.due : x \in Offers}, status : States, version : Nat, assessed : Nat]
Files == {NoDocument} \cup {NewDocument(ObjectKey(i, d), d) : i \in Nat, d \in DOMAIN Documents}
                      \cup {NewDocument(claim.key, claim.hash) : claim \in Claimed}

\* Every receivable has its row of the documents table.
TypesInv ==
    /\ invoice \in Seq(Rows) /\ document \in Seq(Files) /\ Len(document) = Len(invoice)
    /\ call = [c \in Callers |-> call[c]]

\* A copy: the past, and the present while the versions are equal.
CopyInv(i, row) ==
    /\ row \in Rows /\ row.version <= invoice[i].version
    /\ row.version = invoice[i].version => row = invoice[i]

\* What a request or a run read, and still may build on.
CallInv(c) ==
    /\ c.op \in {"upload", "move", "work", "answer", "failure"} => c.of \in Ids
    /\ c.op \in {"upload", "move", "answer"} => CopyInv(c.of, c.row)
    /\ c.op = "upload" => c.row.status = "DRAFT" /\ c.document \in Files
    /\ c.op = "move" => c.to \in Moves[c.row.status] /\ c.to \in {"EXTRACTING", "APPROVED", "REJECTED"}
    /\ c.op = "work" => Status(c.of) # "DRAFT" /\ c.document = document[c.of]
    /\ c.op = "answer" => /\ Status(c.of) # "DRAFT" /\ c.made.read = document[c.of].hash
                          /\ c.row.status = "EXTRACTING"
CallsInv == \A c \in Callers : CallInv(call[c])

\* A receivable that was assessed does not wait again.
Closed == {"ASSESSED", "APPROVED", "REJECTED"}
AssessedInv ==
    \A a \in assessments :
        /\ a.of \in Ids /\ Status(a.of) \in Closed
        /\ a.read = document[a.of].hash /\ a.version = invoice[a.of].assessed

IInv == TypesInv /\ CallsInv /\ AssessedInv /\ NoDoubleFinancing

-----------------------------------------------------------------------------
(* What no step takes back *)

\* The terms of a receivable.
SameTerms(a, b) ==
    a.issuer = b.issuer /\ a.debtor = b.debtor /\ a.number = b.number /\ a.face = b.face /\ a.due = b.due

\* What a row may become, and what may become of its document.
MayFollow(old, new) ==
    /\ SameTerms(new, old)
    /\ old.status = "REJECTED" => new.status = "REJECTED"
    /\ old.status # "DRAFT" => new.status # "DRAFT"
    /\ old.status \in Closed => new.status \in Closed /\ new.assessed = old.assessed

RowsGrow ==
    \A i \in Ids :
        /\ i \in Ids' /\ invoice[i].version <= invoice'[i].version
        /\ invoice'[i].version = invoice[i].version => invoice'[i] = invoice[i]
        /\ MayFollow(invoice[i], invoice'[i])
        /\ Status(i) # "DRAFT" => document'[i] = document[i]

LEMMA RowFields ==
    ASSUME NEW row \in Rows
    PROVE  row.version \in Nat /\ row.status \in States
PROOF BY DEF Rows

LEMMA IdsAreRows ==
    ASSUME TypesInv
    PROVE  /\ \A i \in Ids : invoice[i] \in Rows /\ invoice[i].version \in Nat /\ document[i] \in Files
           /\ Len(invoice) \in Nat
<1>1. Len(invoice) \in Nat /\ \A i \in Ids : invoice[i] \in Rows /\ document[i] \in Files
  BY DEF TypesInv, Ids
<1> QED
  BY <1>1, RowFields

LEMMA MovesAre ==
    /\ Moves["DRAFT"] = {"UPLOADED", "REJECTED"} /\ Moves["UPLOADED"] = {"EXTRACTING", "REJECTED"}
    /\ Moves["EXTRACTING"] = {"ASSESSED", "FAILED"} /\ Moves["ASSESSED"] = {"APPROVED", "REJECTED"}
    /\ Moves["FAILED"] = {"EXTRACTING", "REJECTED"} /\ Moves["APPROVED"] = {} /\ Moves["REJECTED"] = {}
PROOF BY DEF Moves

\* The writes of a request: the rows that were not written are not touched.
LEMMA CallSet ==
    ASSUME TypesInv, NEW c \in Callers, NEW d, call' = [call EXCEPT ![c] = d]
    PROVE  /\ call' = [b \in Callers |-> call'[b]]
           /\ call'[c] = d /\ \A b \in Callers : b # c => call'[b] = call[b]
PROOF BY DEF TypesInv

LEMMA RowSet ==
    ASSUME TypesInv, NEW i \in Ids, NEW row \in Rows, row.version = invoice[i].version,
           MayFollow(invoice[i], row), Set(i, row),
           document' \in Seq(Files), Len(document') = Len(document),
           \A j \in Ids : j # i \/ Status(i) # "DRAFT" => document'[j] = document[j]
    PROVE  /\ invoice' \in Seq(Rows) /\ Len(document') = Len(invoice') /\ Ids' = Ids /\ RowsGrow
           /\ invoice'[i] = [row EXCEPT !.version = row.version + 1]
           /\ \A j \in Ids : j # i => invoice'[j] = invoice[j]
<1> DEFINE new == [row EXCEPT !.version = row.version + 1]
<1>1. row.version \in Nat /\ row.version + 1 \in Nat
  BY DEF Rows
<1>2. new \in Rows /\ new.version = row.version + 1 /\ SameTerms(new, row)
      /\ new.status = row.status /\ new.assessed = row.assessed
  BY <1>1 DEF Rows, SameTerms
<1>3. invoice' = [invoice EXCEPT ![i] = new]
  BY DEF Set
<1> HIDE DEF new
<1>4. /\ invoice' \in Seq(Rows) /\ Len(invoice') = Len(invoice) /\ invoice'[i] = new
      /\ \A j \in Ids : j # i => invoice'[j] = invoice[j]
  BY <1>2, <1>3 DEF TypesInv, Ids
<1>5. Ids' = Ids
  BY <1>4 DEF Ids
<1>6. ASSUME NEW j \in Ids
      PROVE  /\ invoice[j].version <= invoice'[j].version
             /\ invoice'[j].version = invoice[j].version => invoice'[j] = invoice[j]
             /\ MayFollow(invoice[j], invoice'[j])
             /\ Status(j) # "DRAFT" => document'[j] = document[j]
  <2>1. CASE j = i
    BY <1>1, <1>2, <1>4, <2>1 DEF MayFollow, SameTerms
  <2>2. CASE j # i
    BY <1>4, <2>2, IdsAreRows DEF MayFollow, SameTerms
  <2> QED
    BY <2>1, <2>2
<1> QED
  BY <1>4, <1>5, <1>6 DEF new, RowsGrow, TypesInv

-----------------------------------------------------------------------------
(* What holds of who does not step *)

LEMMA CallKept ==
    ASSUME TypesInv, TypesInv', RowsGrow, NEW c, CallInv(c)
    PROVE  CallInv(c)'
<1>1. c.op \in {"upload", "move", "work", "answer", "failure"} => c.of \in Ids'
  BY DEF CallInv, RowsGrow
<1>2. ASSUME c.op \in {"upload", "move", "answer"} PROVE CopyInv(c.of, c.row)'
  <2>1. c.of \in Ids /\ c.of \in Ids' /\ CopyInv(c.of, c.row)
    BY <1>1, <1>2 DEF CallInv
  <2>2. /\ c.row.version \in Nat /\ invoice[c.of].version \in Nat /\ invoice'[c.of].version \in Nat
        /\ c.row \in Rows
    <3>1. c.row \in Rows /\ invoice[c.of] \in Rows /\ invoice'[c.of] \in Rows
      BY <2>1 DEF CopyInv, TypesInv, Ids
    <3> QED
      BY <3>1, RowFields
  <2>3. /\ invoice[c.of].version <= invoice'[c.of].version
        /\ invoice'[c.of].version = invoice[c.of].version => invoice'[c.of] = invoice[c.of]
    BY <2>1 DEF RowsGrow
  <2> QED
    BY <2>1, <2>2, <2>3 DEF CopyInv
<1>3. c.op \in {"work", "answer"} => Status(c.of)' # "DRAFT" /\ document'[c.of] = document[c.of]
  BY DEF CallInv, RowsGrow, MayFollow, Status
<1> QED
  BY <1>1, <1>2, <1>3 DEF CallInv

\* An assessment is of a receivable that is not assessed again, and of the document it keeps.
LEMMA AssessedKept ==
    ASSUME RowsGrow, AssessedInv, NEW a \in assessments
    PROVE  /\ a.of \in Ids' /\ Status(a.of)' \in Closed
           /\ a.read = document'[a.of].hash /\ a.version = invoice'[a.of].assessed
<1>1. a.of \in Ids /\ Status(a.of) \in Closed /\ a.read = document[a.of].hash /\ a.version = invoice[a.of].assessed
  BY DEF AssessedInv
<1>2. Status(a.of) # "DRAFT"
  BY <1>1 DEF Closed
<1> QED
  BY <1>1, <1>2 DEF RowsGrow, MayFollow, Status

\* Two receivables that are alive were alive before, with the terms they had.
LEMMA TermsKept ==
    ASSUME RowsGrow, Ids' = Ids, NoDoubleFinancing
    PROVE  NoDoubleFinancing'
<1> SUFFICES ASSUME NEW i \in Ids, NEW j \in Ids, i # j, Live(i)', Live(j)'
             PROVE  \/ Lower(Trimmed(invoice'[i].debtor)) # Lower(Trimmed(invoice'[j].debtor))
                    \/ Trimmed(invoice'[i].number) # Trimmed(invoice'[j].number)
                    \/ invoice'[i].face # invoice'[j].face \/ invoice'[i].due # invoice'[j].due
  BY DEF NoDoubleFinancing
<1>1. Live(i) /\ Live(j)
  BY DEF RowsGrow, MayFollow, Live, Status
<1>2. SameTerms(invoice'[i], invoice[i]) /\ SameTerms(invoice'[j], invoice[j])
  BY DEF RowsGrow, MayFollow
<1> QED
  BY <1>1, <1>2 DEF NoDoubleFinancing, SameTerms

LEMMA CallsKept ==
    ASSUME IInv, TypesInv', RowsGrow, NEW c \in Callers, CallInv(call[c])',
           \A b \in Callers : b # c => call'[b] = call[b]
    PROVE  CallsInv'
<1> SUFFICES ASSUME NEW b \in Callers, b # c, NEW d, d = call[b], call'[b] = d PROVE CallInv(call[b])'
  BY DEF CallsInv
<1>1. CallInv(d)'
  BY CallKept DEF IInv, CallsInv
<1> QED
  BY <1>1

LEMMA InitIInv == Init => IInv
<1> SUFFICES ASSUME Init PROVE IInv
  OBVIOUS
<1>1. TypesInv
  BY DEF Init, TypesInv
<1>2. Ids = {} /\ assessments = {} /\ \A c \in Callers : call[c].op = "none"
  BY DEF Init, Ids, Idle
<1> QED
  BY <1>1, <1>2 DEF IInv, CallsInv, CallInv, AssessedInv, NoDoubleFinancing

-----------------------------------------------------------------------------
(* The three kinds of steps *)

\* A step that only reads, or ends without having written.
LEMMA CallStep ==
    ASSUME IInv, NEW c \in Callers, NEW d, CallInv(d), call' = [call EXCEPT ![c] = d],
           UNCHANGED <<invoice, document, assessments>>
    PROVE  IInv' /\ RowsGrow
<1>1. /\ call' = [b \in Callers |-> call'[b]]
      /\ call'[c] = d /\ \A b \in Callers : b # c => call'[b] = call[b]
  BY CallSet DEF IInv
<1>2. TypesInv' /\ Ids' = Ids
  BY <1>1 DEF IInv, TypesInv, Ids
<1>3. RowsGrow
  BY <1>2, IdsAreRows DEF IInv, RowsGrow, MayFollow, SameTerms
<1>4. CallInv(d)'
  BY <1>2, <1>3, CallKept DEF IInv
<1>5. CallInv(call[c])'
  BY <1>1, <1>4
<1>6. CallsInv' /\ NoDoubleFinancing'
  BY <1>1, <1>2, <1>3, <1>5, CallsKept, TermsKept DEF IInv
<1>7. AssessedInv'
  BY <1>3, AssessedKept DEF IInv, AssessedInv
<1> QED
  BY <1>2, <1>3, <1>6, <1>7 DEF IInv

\* A step that writes the row it read, and ends.
LEMMA RowStep ==
    ASSUME IInv, NEW c \in Callers, Return(c),
           NEW i \in Ids, NEW row \in Rows, row.version = invoice[i].version,
           MayFollow(invoice[i], row), Set(i, row),
           document' \in Seq(Files), Len(document') = Len(document),
           \A j \in Ids : j # i \/ Status(i) # "DRAFT" => document'[j] = document[j]
    PROVE  TypesInv' /\ CallsInv' /\ NoDoubleFinancing' /\ Ids' = Ids /\ RowsGrow
<1>1. /\ call' = [b \in Callers |-> call'[b]]
      /\ call'[c] = Idle /\ \A b \in Callers : b # c => call'[b] = call[b]
  BY CallSet DEF IInv, Return
<1>2. TypesInv' /\ Ids' = Ids /\ RowsGrow
  BY <1>1, RowSet DEF IInv, TypesInv
<1>3. CallInv(call[c])'
  BY <1>1 DEF CallInv, Idle
<1>4. CallsInv' /\ NoDoubleFinancing'
  BY <1>1, <1>2, <1>3, CallsKept, TermsKept DEF IInv
<1> QED
  BY <1>2, <1>4

\* Create: what is not taken can be added.
LEMMA CreateStep ==
    ASSUME IInv, NEW x \in Offers, Create(x)
    PROVE  IInv' /\ RowsGrow
<1> DEFINE row == [issuer |-> x.issuer, debtor |-> Trimmed(x.debtor), number |-> Trimmed(x.number),
                   face |-> x.face, due |-> x.due, status |-> "DRAFT", version |-> 1, assessed |-> 0]
<1>1. ~IsTaken(row) /\ invoice' = Append(invoice, row) /\ document' = Append(document, NoDocument)
      /\ UNCHANGED <<assessments, call>>
  BY DEF Create
<1>2. row \in Rows /\ NoDocument \in Files
  BY DEF Rows, States, Files
<1> HIDE DEF row
<1>3. /\ invoice' \in Seq(Rows) /\ document' \in Seq(Files)
      /\ Len(invoice') = Len(invoice) + 1 /\ Len(document') = Len(document) + 1
      /\ invoice'[Len(invoice) + 1] = row
      /\ \A i \in Ids : invoice'[i] = invoice[i] /\ document'[i] = document[i]
  BY <1>1, <1>2 DEF IInv, TypesInv, Ids
<1>4. TypesInv'
  BY <1>1, <1>3 DEF IInv, TypesInv
<1>5. Ids' = Ids \cup {Len(invoice) + 1}
  BY <1>3, IdsAreRows DEF IInv, Ids
<1>6. RowsGrow
  BY <1>3, <1>5, IdsAreRows DEF IInv, RowsGrow, MayFollow, SameTerms
<1>7. CallsInv'
  <2> SUFFICES ASSUME NEW b \in Callers, NEW d, d = call[b], call'[b] = d PROVE CallInv(call[b])'
    BY <1>1 DEF CallsInv
  <2>1. CallInv(d)'
    BY <1>4, <1>6, CallKept DEF IInv, CallsInv
  <2> QED
    BY <2>1
<1>8. AssessedInv'
  BY <1>1, <1>6, AssessedKept DEF IInv, AssessedInv
<1>9. NoDoubleFinancing'
  <2> DEFINE Differ(a, b) == \/ Lower(Trimmed(a.debtor)) # Lower(Trimmed(b.debtor))
                             \/ Trimmed(a.number) # Trimmed(b.number)
                             \/ a.face # b.face \/ a.due # b.due
  <2>1. \A i, j \in Ids : i # j /\ Live(i) /\ Live(j) => Differ(invoice[i], invoice[j])
    BY DEF IInv, NoDoubleFinancing
  <2>2. \A i \in Ids : Live(i) => Differ(invoice[i], row) /\ Differ(row, invoice[i])
    BY <1>1 DEF IsTaken, Fingerprint
  <2>3. \A i \in Ids : Live(i)' => Live(i)
    BY <1>3 DEF Live, Status
  <2> SUFFICES ASSUME NEW i \in Ids', NEW j \in Ids', i # j, Live(i)', Live(j)'
               PROVE  Differ(invoice'[i], invoice'[j])
    BY DEF NoDoubleFinancing
  <2> HIDE DEF Differ
  <2> QED
    BY <1>3, <1>5, <2>1, <2>2, <2>3
<1> QED
  BY <1>4, <1>6, <1>7, <1>8, <1>9 DEF IInv

-----------------------------------------------------------------------------
(* One lemma per action *)

LEMMA ReturnStep ==
    ASSUME IInv, NEW c \in Callers, Return(c), UNCHANGED <<invoice, document, assessments>>
    PROVE  IInv' /\ RowsGrow
<1>1. CallInv(Idle)
  BY DEF CallInv, Idle
<1> QED
  BY <1>1, CallStep DEF Return

LEMMA ReadStep ==
    ASSUME IInv, NEW c \in Callers, NEW i \in Ids,
           \/ \E d \in DOMAIN Documents : ReadToUpload(c, i, d)
           \/ \E claim \in Claimed : ReadToAttach(c, i, claim)
           \/ \E status \in {"EXTRACTING", "APPROVED", "REJECTED"} : ReadToMove(c, i, status)
    PROVE  IInv' /\ RowsGrow
<1>1. /\ invoice[i] \in Rows /\ invoice[i].status \in States /\ i \in Nat
      /\ CopyInv(i, invoice[i])
  BY IdsAreRows, RowFields DEF IInv, CopyInv, Ids
<1>2. CASE \E d \in DOMAIN Documents : ReadToUpload(c, i, d)
  <2> PICK d \in DOMAIN Documents : ReadToUpload(c, i, d)
    BY <1>2
  <2> DEFINE request == [op |-> "upload", of |-> i, row |-> invoice[i], put |-> TRUE,
                         document |-> NewDocument(ObjectKey(i, d), d)]
  <2>1. request.document \in Files /\ invoice[i].status = "DRAFT"
    BY <1>1, MovesAre DEF ReadToUpload, Files, Status, States
  <2>2. CallInv(request)
    BY <1>1, <2>1 DEF CallInv
  <2> QED
    BY <2>2, CallStep DEF ReadToUpload, Begin
<1>3. CASE \E claim \in Claimed : ReadToAttach(c, i, claim)
  <2> PICK claim \in Claimed : ReadToAttach(c, i, claim)
    BY <1>3
  <2> DEFINE request == [op |-> "upload", of |-> i, row |-> invoice[i], put |-> FALSE,
                         document |-> NewDocument(claim.key, claim.hash)]
  <2>1. request.document \in Files /\ invoice[i].status = "DRAFT"
    BY <1>1, MovesAre DEF ReadToAttach, Files, Status, States
  <2>2. CallInv(request)
    BY <1>1, <2>1 DEF CallInv
  <2> QED
    BY <2>2, CallStep DEF ReadToAttach, Begin
<1>4. CASE \E status \in {"EXTRACTING", "APPROVED", "REJECTED"} : ReadToMove(c, i, status)
  <2> PICK status \in {"EXTRACTING", "APPROVED", "REJECTED"} : ReadToMove(c, i, status)
    BY <1>4
  <2> DEFINE request == [op |-> "move", of |-> i, row |-> invoice[i], to |-> status]
  <2>1. CallInv(request)
    BY <1>1 DEF CallInv, ReadToMove, Status
  <2> QED
    BY <2>1, CallStep DEF ReadToMove, Begin
<1> QED
  BY <1>2, <1>3, <1>4

\* What a run collects has left DRAFT: its document is the one it keeps.
LEMMA CollectStep ==
    ASSUME IInv, NEW c \in Callers, Collect(c)
    PROVE  IInv' /\ RowsGrow
<1> DEFINE i == Min(Collectable)
           request == [op |-> "work", of |-> i, document |-> document[i]]
<1>1. i \in Collectable
  <2>1. Collectable # {} /\ \A j \in Collectable : j \in Ids
    BY DEF Collect, Collectable, Listed
  <2>2. \A j \in Collectable : j \in Nat
    BY <2>1 DEF Ids
  <2> QED
    BY <2>1, <2>2, MinIs
<1>2. i \in Ids /\ Status(i) = "EXTRACTING"
  BY <1>1 DEF Collectable, Listed, Waits
<1>3. call' = [call EXCEPT ![c] = request] /\ UNCHANGED <<invoice, document, assessments>>
  BY DEF Collect, Begin
<1> HIDE DEF i
<1>4. CallInv(request)
  BY <1>2 DEF CallInv
<1> QED
  BY <1>3, <1>4, CallStep

LEMMA DeliverStep ==
    ASSUME IInv, NEW c \in Callers, Deliver(c)
    PROVE  IInv' /\ RowsGrow
<1>1. /\ call[c].of \in Ids /\ call[c].document = document[call[c].of]
      /\ Status(call[c].of) = "EXTRACTING" /\ UNCHANGED <<invoice, document, assessments>>
  BY DEF Deliver, IInv, CallsInv, CallInv, Waits
<1>2. CopyInv(call[c].of, invoice[call[c].of])
  BY <1>1, IdsAreRows DEF IInv, CopyInv
<1>3. PICK s \in scores :
        /\ s.read = call[c].document.hash
        /\ call' = [call EXCEPT ![c] =
             IF s.score = NoScore THEN [op |-> "failure", of |-> call[c].of]
             ELSE [op |-> "answer", of |-> call[c].of, row |-> invoice[call[c].of], made |-> s]]
  BY DEF Deliver
<1>4. CASE s.score = NoScore
  <2> DEFINE request == [op |-> "failure", of |-> call[c].of]
  <2>1. CallInv(request)
    BY <1>1 DEF CallInv
  <2>2. call' = [call EXCEPT ![c] = request]
    BY <1>3, <1>4
  <2> QED
    BY <1>1, <2>1, <2>2, CallStep
<1>5. CASE s.score # NoScore
  <2> DEFINE request == [op |-> "answer", of |-> call[c].of, row |-> invoice[call[c].of], made |-> s]
  <2>1. CallInv(request)
    BY <1>1, <1>2, <1>3 DEF CallInv, Status
  <2>2. call' = [call EXCEPT ![c] = request]
    BY <1>3, <1>5
  <2> QED
    BY <1>1, <2>1, <2>2, CallStep
<1> QED
  BY <1>4, <1>5

\* A document is replaced while its receivable is a draft, and never after.
LEMMA SaveDocumentStep ==
    ASSUME IInv, NEW c \in Callers, SaveDocument(c)
    PROVE  IInv' /\ RowsGrow
<1> DEFINE row == [call[c].row EXCEPT !.status = "UPLOADED"]
<1>1. /\ call[c].of \in Ids /\ call[c].row = invoice[call[c].of] /\ call[c].row \in Rows
      /\ call[c].row.status = "DRAFT" /\ call[c].document \in Files
  BY DEF SaveDocument, Unmoved, IInv, CallsInv, CallInv, CopyInv
<1>2. row \in Rows /\ row.version = invoice[call[c].of].version /\ row.status = "UPLOADED"
      /\ SameTerms(row, invoice[call[c].of])
  BY <1>1 DEF Rows, States, SameTerms
<1>3. MayFollow(invoice[call[c].of], row) /\ Status(call[c].of) = "DRAFT"
  BY <1>1, <1>2 DEF MayFollow, Closed, Status
<1>4. Set(call[c].of, row) /\ Return(c) /\ UNCHANGED assessments
  BY DEF SaveDocument, SetStatus
<1>5. /\ document' \in Seq(Files) /\ Len(document') = Len(document)
      /\ \A j \in Ids : j # call[c].of => document'[j] = document[j]
  BY <1>1 DEF SaveDocument, IInv, TypesInv, Ids
<1> HIDE DEF row
<1>6. TypesInv' /\ CallsInv' /\ NoDoubleFinancing' /\ RowsGrow
  BY <1>1, <1>2, <1>3, <1>4, <1>5, RowStep
<1>7. AssessedInv'
  BY <1>4, <1>6, AssessedKept DEF IInv, AssessedInv
<1> QED
  BY <1>6, <1>7 DEF IInv

LEMMA MoveStep ==
    ASSUME IInv, NEW c \in Callers, Move(c)
    PROVE  IInv' /\ RowsGrow
<1> DEFINE row == [call[c].row EXCEPT !.status = call[c].to]
<1>1. /\ call[c].of \in Ids /\ call[c].row = invoice[call[c].of] /\ call[c].row \in Rows
      /\ call[c].to \in Moves[call[c].row.status] /\ call[c].to \in {"EXTRACTING", "APPROVED", "REJECTED"}
  BY DEF Move, Unmoved, IInv, CallsInv, CallInv, CopyInv
<1>2. /\ row \in Rows /\ row.version = invoice[call[c].of].version /\ row.status = call[c].to
      /\ row.assessed = invoice[call[c].of].assessed /\ SameTerms(row, invoice[call[c].of])
  BY <1>1 DEF Rows, States, SameTerms
<1>3. MayFollow(invoice[call[c].of], row)
  BY <1>1, <1>2, MovesAre, RowFields DEF MayFollow, Closed, States
<1>4. Set(call[c].of, row) /\ Return(c) /\ UNCHANGED <<document, assessments>>
  BY DEF Move, SetStatus
<1>5. document' \in Seq(Files) /\ Len(document') = Len(document)
  BY <1>4 DEF IInv, TypesInv
<1> HIDE DEF row
<1>6. TypesInv' /\ CallsInv' /\ NoDoubleFinancing' /\ RowsGrow
  BY <1>1, <1>2, <1>3, <1>4, <1>5, RowStep
<1>7. AssessedInv'
  BY <1>4, <1>6, AssessedKept DEF IInv, AssessedInv
<1> QED
  BY <1>6, <1>7 DEF IInv

\* A receivable that waits has no assessment yet; and it keeps its document.
LEMMA CommitStep ==
    ASSUME IInv, NEW c \in Callers, Commit(c)
    PROVE  IInv' /\ RowsGrow
<1> DEFINE i == call[c].of
           row == [call[c].row EXCEPT !.status = "ASSESSED", !.assessed = call[c].row.version]
<1>1. /\ i \in Ids /\ call[c].row = invoice[i] /\ call[c].row \in Rows
      /\ call[c].row.status = "EXTRACTING" /\ call[c].made.read = document[i].hash
  BY DEF Commit, Unmoved, IInv, CallsInv, CallInv, CopyInv
<1>2. /\ row \in Rows /\ row.version = invoice[i].version /\ row.status = "ASSESSED"
      /\ row.assessed = invoice[i].version /\ SameTerms(row, invoice[i])
  BY <1>1, RowFields DEF Rows, States, SameTerms
<1>3. MayFollow(invoice[i], row)
  BY <1>1, <1>2 DEF MayFollow, Closed
<1>4. Set(i, row) /\ Return(c) /\ UNCHANGED document /\ assessments' = assessments \cup {Assessment(c)}
  BY DEF Commit
<1>5. document' \in Seq(Files) /\ Len(document') = Len(document)
  BY <1>4 DEF IInv, TypesInv
<1> HIDE DEF row
<1>6. TypesInv' /\ CallsInv' /\ NoDoubleFinancing' /\ RowsGrow /\ Ids' = Ids
  BY <1>1, <1>2, <1>3, <1>4, <1>5, RowStep
<1>7. invoice'[i].status = "ASSESSED" /\ invoice'[i].assessed = invoice[i].version
  <2>1. invoice'[i] = [row EXCEPT !.version = row.version + 1]
    BY <1>1, <1>2, <1>3, <1>4, <1>5, RowSet DEF IInv
  <2> QED
    BY <1>2, <2>1 DEF Rows
<1>8. /\ Assessment(c).of = i /\ Assessment(c).read = document[i].hash
      /\ Assessment(c).version = invoice[i].version
  BY <1>1 DEF Assessment
<1>9. AssessedInv'
  <2> SUFFICES ASSUME NEW a \in assessments'
               PROVE  /\ a.of \in Ids' /\ Status(a.of)' \in Closed
                      /\ a.read = document'[a.of].hash /\ a.version = invoice'[a.of].assessed
    BY DEF AssessedInv
  <2>1. CASE a \in assessments
    BY <1>6, <2>1, AssessedKept DEF IInv
  <2>2. CASE a = Assessment(c)
    BY <1>1, <1>4, <1>6, <1>7, <1>8, <2>2 DEF Status, Closed
  <2> QED
    BY <1>4, <2>1, <2>2
<1> QED
  BY <1>6, <1>9 DEF IInv

LEMMA RecordFailureStep ==
    ASSUME IInv, NEW c \in Callers, RecordFailure(c)
    PROVE  IInv' /\ RowsGrow
<1>1. CASE ~Waits(call[c].of)
  BY <1>1, ReturnStep DEF RecordFailure
<1>2. CASE Waits(call[c].of)
  <2> DEFINE i == call[c].of
             row == [invoice[i] EXCEPT !.status = "FAILED"]
  <2>1. i \in Ids /\ invoice[i] \in Rows /\ invoice[i].status = "EXTRACTING"
    BY <1>2, IdsAreRows DEF RecordFailure, IInv, CallsInv, CallInv, Waits, Status
  <2>2. /\ row \in Rows /\ row.version = invoice[i].version /\ row.status = "FAILED"
        /\ SameTerms(row, invoice[i])
    BY <2>1 DEF Rows, States, SameTerms
  <2>3. MayFollow(invoice[i], row)
    BY <2>1, <2>2 DEF MayFollow, Closed
  <2>4. Set(i, row) /\ Return(c) /\ UNCHANGED <<document, assessments>>
    BY <1>2 DEF RecordFailure
  <2>5. document' \in Seq(Files) /\ Len(document') = Len(document)
    BY <2>4 DEF IInv, TypesInv
  <2> HIDE DEF row
  <2>6. TypesInv' /\ CallsInv' /\ NoDoubleFinancing' /\ RowsGrow
    BY <2>1, <2>2, <2>3, <2>4, <2>5, RowStep
  <2>7. AssessedInv'
    BY <2>4, <2>6, AssessedKept DEF IInv, AssessedInv
  <2> QED
    BY <2>6, <2>7 DEF IInv
<1> QED
  BY <1>1, <1>2

\* And no step changes what a receivable is or brings one back.
LEMMA NextIInv == IInv /\ [Next]_vars => IInv' /\ RowsGrow
<1> SUFFICES ASSUME IInv, [Next]_vars PROVE IInv' /\ RowsGrow
  OBVIOUS
<1>1. ASSUME NEW x \in Offers, Create(x) PROVE IInv' /\ RowsGrow
  BY <1>1, CreateStep
<1>2. ASSUME NEW c \in Callers, Proceed(c) PROVE IInv' /\ RowsGrow
  BY <1>2, SaveDocumentStep, MoveStep, CollectStep, ReturnStep DEF Proceed, Refuse
<1>3. ASSUME NEW c \in Callers, Deliver(c) PROVE IInv' /\ RowsGrow
  BY <1>3, DeliverStep
<1>4. ASSUME NEW c \in Callers, Finish(c) PROVE IInv' /\ RowsGrow
  BY <1>4, CommitStep, RecordFailureStep DEF Finish
<1>5. ASSUME NEW c \in Callers, Fail(c) PROVE IInv' /\ RowsGrow
  BY <1>5, ReturnStep DEF Fail
<1>6. ASSUME NEW c \in Callers, NEW i \in Ids,
             \/ \E d \in DOMAIN Documents : ReadToUpload(c, i, d)
             \/ \E claim \in Claimed : ReadToAttach(c, i, claim)
             \/ \E status \in {"EXTRACTING", "APPROVED", "REJECTED"} : ReadToMove(c, i, status)
      PROVE  IInv' /\ RowsGrow
  BY <1>6, ReadStep
<1>7. CASE UNCHANGED vars
  <2>1. IInv'
    BY <1>7 DEF vars, IInv, TypesInv, CallsInv, CallInv, CopyInv, AssessedInv, NoDoubleFinancing, Ids, Status, Live
  <2>2. RowsGrow
    BY <1>7, IdsAreRows DEF vars, IInv, RowsGrow, MayFollow, SameTerms, Ids
  <2> QED
    BY <2>1, <2>2
<1> QED
  BY <1>1, <1>2, <1>3, <1>4, <1>5, <1>6, <1>7 DEF Next

-----------------------------------------------------------------------------
\* The rows, what requests and runs of the workflow read of them, and the
\* assessments belong together, whoever is slow, overtaken, refused or lost.
THEOREM IntakeInvariant == Spec => []IInv
<1> QED
  BY InitIInv, NextIInv, PTL DEF Spec

\* The same claim is never on the platform twice and alive, however its sellers
\* spell it: no request that is late brings back what Create found free (Create,
\* Fingerprint, the versions of Update).
THEOREM NothingIsFinancedTwice == Spec => []NoDoubleFinancing
<1>1. IInv => NoDoubleFinancing
  BY DEF IInv
<1> QED
  BY <1>1, IntakeInvariant, PTL

\* An assessment was made from the document its receivable has, and is the one
\* the receivable names (SaveDocument, Complete, commit).
THEOREM AssessedAsUploaded == Spec => []AssessmentIsOfTheDocument
<1>1. IInv => AssessmentIsOfTheDocument
  BY DEF IInv, AssessedInv, AssessmentIsOfTheDocument
<1> QED
  BY <1>1, IntakeInvariant, PTL

-----------------------------------------------------------------------------
(* Risk: worse evidence, worse score *)

\* The ends of the scale of odds.
LEMMA OddsAreInt == Intercept \in Int /\ Highest \in Int
BY DEF Intercept, Highest

\* What rises at every step rises from one end of a stretch to the other.
LEMMA SigmoidRises ==
    ASSUME NEW x \in Intercept..Highest, NEW y \in Intercept..Highest, x <= y
    PROVE  Sigmoid(x) \in Int /\ Sigmoid(y) \in Int /\ Sigmoid(x) <= Sigmoid(y)
<1> DEFINE Bad == {n \in Nat : x + n <= Highest /\ ~(Sigmoid(x) <= Sigmoid(x + n))}
<1>1. \A z \in Intercept..Highest : Sigmoid(z) \in Int /\ (z < Highest => Sigmoid(z) <= Sigmoid(z + 1))
  BY RiskAssumption
<1>2. Bad = {}
  <2> SUFFICES ASSUME Bad # {} PROVE FALSE
    OBVIOUS
  <2>1. PICK n \in Bad : \A m \in Bad : n <= m
    <3>1. Bad \in SUBSET Nat
      OBVIOUS
    <3> QED
      BY <3>1, LeastOf
  <2>2. n # 0
    BY <1>1, <2>1, OddsAreInt
  <2>3. n - 1 \in Nat /\ n - 1 \notin Bad
    BY <2>1, <2>2
  <2> DEFINE z == x + (n - 1)
  <2>4. z \in Intercept..Highest /\ z < Highest /\ z + 1 = x + n /\ x + n \in Intercept..Highest
    BY <2>1, <2>2, OddsAreInt
  <2>5. Sigmoid(x) <= Sigmoid(z)
    BY <2>3, <2>4, OddsAreInt
  <2>6. Sigmoid(x) \in Int /\ Sigmoid(z) \in Int /\ Sigmoid(x + n) \in Int /\ Sigmoid(z) <= Sigmoid(x + n)
    BY <1>1, <2>4
  <2>7. Sigmoid(x) <= Sigmoid(x + n)
    BY <2>5, <2>6
  <2> QED
    BY <2>1, <2>7
<1>3. y - x \in Nat /\ x + (y - x) = y /\ x + (y - x) <= Highest
  BY OddsAreInt
<1>4. y - x \notin Bad
  BY <1>2
<1> QED
  BY <1>1, <1>3, <1>4

Names == {"dso", "late", "dispute", "concentration", "volatility", "debtor"}

\* The weights of the model.
LEMMA CoefficientsAre ==
    /\ DOMAIN Coefficients = Names
    /\ Coefficients["dso"] = 1800 /\ Coefficients["late"] = 2400 /\ Coefficients["dispute"] = 1100
    /\ Coefficients["concentration"] = 900 /\ Coefficients["volatility"] = 700 /\ Coefficients["debtor"] = 2200
BY DEF Coefficients, Names

\* More of a feature weighs more, and never more than its coefficient.
LEMMA EffectRises ==
    ASSUME NEW c \in Nat, NEW x \in 0..One, NEW y \in 0..One, x <= y
    PROVE  /\ HalfEven(c * x, One) \in Nat /\ HalfEven(c * y, One) \in Nat
           /\ HalfEven(c * x, One) <= HalfEven(c * y, One) /\ HalfEven(c * y, One) <= c
<1>1. One \in Nat \ {0}
  BY DEF One
<1>2. HalfEven(c * y, One) <= c
  <2>1. c * y \in Nat /\ c * y <= c * One
    BY <1>1, Scaled
  <2> QED
    BY <1>1, <2>1, HalfEvenAtMost
<1>3. c * x \in Nat /\ c * y \in Nat /\ c * x <= c * y
  BY <1>1, Scaled
<1>4. (c * x) * One <= (c * y) * One
  BY <1>1, <1>3, Scaled
<1> QED
  BY <1>1, <1>2, <1>3, <1>4, HalfEvenRises

\* The odds follow every feature, and stay on the scale.
LEMMA LogOddsRises ==
    ASSUME NEW x, NEW y, InRange(x), InRange(y), \A f \in Names : x[f] <= y[f]
    PROVE  LogOdds(x) \in Intercept..Highest /\ LogOdds(y) \in Intercept..Highest /\ LogOdds(x) <= LogOdds(y)
<1> DEFINE Rises(f, c) == /\ Effect(x, f) \in Nat /\ Effect(y, f) \in Nat
                          /\ Effect(x, f) <= Effect(y, f) /\ Effect(y, f) <= c
<1>1. ASSUME NEW f \in Names, NEW c \in Nat, Coefficients[f] = c
      PROVE  Rises(f, c)
  <2>1. x[f] \in 0..One /\ y[f] \in 0..One /\ x[f] <= y[f]
    BY CoefficientsAre DEF InRange
  <2> QED
    BY <1>1, <2>1, EffectRises DEF Effect
<1> HIDE DEF Rises
<1>2. /\ Rises("dso", 1800) /\ Rises("late", 2400) /\ Rises("dispute", 1100)
      /\ Rises("concentration", 900) /\ Rises("volatility", 700) /\ Rises("debtor", 2200)
  BY <1>1, CoefficientsAre DEF Names
<1>3. /\ LogOdds(x) \in Int /\ Intercept <= LogOdds(x)
      /\ LogOdds(y) \in Int /\ LogOdds(y) <= Highest /\ LogOdds(x) <= LogOdds(y)
  BY <1>2 DEF LogOdds, Intercept, Highest, Rises
<1> QED
  BY <1>3, OddsAreInt

\* So does the probability of default.
LEMMA DefaultRises ==
    ASSUME NEW x, NEW y, InRange(x), InRange(y), \A f \in Names : x[f] <= y[f]
    PROVE  /\ ProbabilityOfDefault(x) \in Nat /\ ProbabilityOfDefault(y) \in Nat
           /\ ProbabilityOfDefault(x) <= ProbabilityOfDefault(y)
<1>1. /\ Sigmoid(LogOdds(x)) \in Int /\ Sigmoid(LogOdds(y)) \in Int
      /\ Sigmoid(LogOdds(x)) <= Sigmoid(LogOdds(y))
  BY LogOddsRises, SigmoidRises
<1> QED
  BY <1>1 DEF ProbabilityOfDefault, Between

\* What secures a claim lowers what a default costs.
LEMMA LossFalls ==
    ASSUME NEW a, NEW b, b.recourse => a.recourse, b.collateralized => a.collateralized
    PROVE  /\ LossGivenDefault(a) \in Nat /\ LossGivenDefault(b) \in Nat
           /\ LossGivenDefault(a) <= LossGivenDefault(b)
<1>1. (IF b.recourse THEN 150 ELSE 0) <= (IF a.recourse THEN 150 ELSE 0)
  OBVIOUS
<1>2. (IF b.collateralized THEN 100 ELSE 0) <= (IF a.collateralized THEN 100 ELSE 0)
  OBVIOUS
<1> DEFINE p(m) == IF m.recourse THEN 150 ELSE 0
           q(m) == IF m.collateralized THEN 100 ELSE 0
<1>3. p(a) \in Nat /\ p(b) \in Nat /\ q(a) \in Nat /\ q(b) \in Nat /\ p(b) <= p(a) /\ q(b) <= q(a)
  BY <1>1, <1>2
<1>4. /\ LossGivenDefault(a) = Between(450 - p(a) - q(a), 100, 900)
      /\ LossGivenDefault(b) = Between(450 - p(b) - q(b), 100, 900)
  BY DEF LossGivenDefault
<1> HIDE DEF p, q
<1> QED
  BY <1>3, <1>4 DEF Between

\* A higher probability is never graded better.
LEMMA RankRises ==
    ASSUME NEW p \in Int, NEW q \in Int, p <= q
    PROVE  Rank(p) <= Rank(q)
<1> DEFINE S(x) == {b \in DOMAIN Bands : x >= Bands[b]}
           n == Len(Bands)
<1>1. n \in Nat /\ DOMAIN Bands = 1..n /\ \A b \in DOMAIN Bands : Bands[b] \in Int
  BY DEF Bands
<1> HIDE DEF n
<1>2. S(q) \in SUBSET DOMAIN Bands /\ S(p) \subseteq S(q)
  BY <1>1
<1>3. IsFiniteSet(DOMAIN Bands)
  BY <1>1, FS_Interval
<1> HIDE DEF S
<1>4. IsFiniteSet(S(q)) /\ Cardinality(S(p)) <= Cardinality(S(q))
  BY <1>2, <1>3, FS_Subset
<1> QED
  BY <1>4 DEF Rank, S

\* The expected loss follows both.
LEMMA ExpectedLossRises ==
    ASSUME NEW p \in Nat, NEW q \in Nat, p <= q, NEW l \in Nat, NEW m \in Nat, l <= m, NEW face \in Nat
    PROVE  ExpectedLoss(p, l, face) <= ExpectedLoss(q, m, face)
<1>1. /\ face * p \in Nat /\ face * q \in Nat /\ face * p <= face * q
      /\ (face * p) * l \in Nat /\ (face * q) * l \in Nat /\ (face * q) * m \in Nat
  BY Scaled
<1>2. (face * p) * l <= (face * q) * l /\ (face * q) * l <= (face * q) * m
  BY <1>1, Scaled
<1>3. face * p * l \in Nat /\ face * q * m \in Nat /\ face * p * l <= face * q * m
  BY <1>1, <1>2
<1>4. One * One \in Nat \ {0}
  BY DEF One
<1>5. (face * p * l) * (One * One) <= (face * q * m) * (One * One)
  BY <1>3, <1>4, Scaled
<1> QED
  BY <1>3, <1>4, <1>5, HalfEvenRises DEF ExpectedLoss

\* So does the premium for the risk.
LEMMA RiskPremiumRises ==
    ASSUME NEW p \in Nat, NEW q \in Nat, p <= q, NEW l \in Nat, NEW m \in Nat, l <= m
    PROVE  RiskPremium(p, l) \in Nat /\ RiskPremium(q, m) \in Nat /\ RiskPremium(p, l) <= RiskPremium(q, m)
<1>1. /\ 25 * p \in Nat /\ 25 * q \in Nat /\ 25 * p <= 25 * q
      /\ (25 * p) * l \in Nat /\ (25 * q) * l \in Nat /\ (25 * q) * m \in Nat
  OBVIOUS
<1>2. (25 * p) * l <= (25 * q) * l /\ (25 * q) * l <= (25 * q) * m
  BY <1>1, Scaled
<1>3. 25 * p * l \in Nat /\ 25 * q * m \in Nat /\ 25 * p * l <= 25 * q * m
  BY <1>1, <1>2
<1>4. 10 * One \in Nat \ {0}
  BY DEF One
<1>5. (25 * p * l) * (10 * One) <= (25 * q * m) * (10 * One)
  BY <1>3, <1>4, Scaled
<1> QED
  BY <1>3, <1>4, <1>5, HalfEvenRises DEF RiskPremium

\* And the one for the concentration.
LEMMA ConcentrationRises ==
    ASSUME NEW x, NEW y, x.concentration \in 0..One, y.concentration \in 0..One,
           x.concentration <= y.concentration
    PROVE  /\ ConcentrationPremium(x) \in Nat /\ ConcentrationPremium(y) \in Nat
           /\ ConcentrationPremium(x) <= ConcentrationPremium(y)
BY EffectRises DEF ConcentrationPremium

\* More discount, less money; never more than the face.
LEMMA PresentValueFalls ==
    ASSUME NEW face \in Nat, NEW days \in Nat, NEW d \in Nat, NEW e \in Nat, d <= e
    PROVE  /\ PresentValue(face, d, days) \in Nat /\ PresentValue(face, e, days) \in Nat
           /\ PresentValue(face, e, days) <= PresentValue(face, d, days)
           /\ PresentValue(face, d, days) <= face
<1> DEFINE year == One * 365
           a == face * One * 365
           b == year + d * days
           c == year + e * days
<1>1. year \in Nat \ {0} /\ a \in Nat /\ a = face * year
  BY DEF One
<1>2. d * days \in Nat /\ e * days \in Nat /\ d * days <= e * days
  BY Scaled
<1> HIDE DEF year, a
<1>3. b \in Nat \ {0} /\ c \in Nat \ {0} /\ b <= c /\ year <= b
  BY <1>1, <1>2
<1> HIDE DEF b, c
<1>4. a * b <= a * c
  BY <1>1, <1>3, Scaled
<1>5. HalfEven(a, c) \in Nat /\ HalfEven(a, b) \in Nat /\ HalfEven(a, c) <= HalfEven(a, b)
  BY <1>1, <1>3, <1>4, HalfEvenRises
<1>6. a <= face * b
  BY <1>1, <1>3, Scaled
<1>7. HalfEven(a, b) <= face
  BY <1>1, <1>3, <1>6, HalfEvenAtMost
<1> QED
  BY <1>5, <1>7 DEF PresentValue, a, b, c, year

\* The evidence as it is scored.
Scored(d, snapshot) == [Derived(d) EXCEPT !.volatility = snapshot.volatility]
Default(d, snapshot) == ProbabilityOfDefault(Scored(d, snapshot))
Loss(d) == LossGivenDefault(Result(d).mitigations)
Asked(d, snapshot) == Discount(Scored(d, snapshot), Default(d, snapshot), Loss(d), snapshot)

\* The volatility is the market's, all else the document's.
LEMMA ScoredFields ==
    ASSUME NEW d, NEW snapshot
    PROVE  /\ DOMAIN Derived(d) = Names
           /\ Scored(d, snapshot)["volatility"] = snapshot.volatility
           /\ \A f \in Names \ {"volatility"} : Scored(d, snapshot)[f] = Derived(d)[f]
BY DEF Derived, Scored, Names

\* What a score says, when there is one.
LEMMA ScoreIs ==
    ASSUME NEW face, NEW days, NEW d, NEW snapshot,
           Score(face, days, Result(d), snapshot) # NoScore
    PROVE  LET score == Score(face, days, Result(d), snapshot)
           IN /\ InRange(Scored(d, snapshot)) /\ ~(days <= 0)
              /\ score.features = Scored(d, snapshot)
              /\ score.benchmark = snapshot.benchmark
              /\ score.rank = Rank(Default(d, snapshot))
              /\ score.loss = ExpectedLoss(Default(d, snapshot), Loss(d), face)
              /\ score.reserve = PresentValue(face, Asked(d, snapshot), days) - Fee(face)
<1>1. Result(d).features = Derived(d)
  BY DEF Result
<1> QED
  BY <1>1 DEF Score, Scored, Default, Loss, Asked, Reserve

\* The score of a receivable follows its evidence.
LEMMA ScoreFollowsRisk ==
    ASSUME NEW face \in Nat, NEW days \in Int, NEW c, NEW d, NEW snapshot,
           snapshot.benchmark \in Nat, snapshot.premium \in Nat,
           Score(face, days, Result(c), snapshot) # NoScore,
           Score(face, days, Result(d), snapshot) # NoScore,
           \A f \in Names : Derived(c)[f] <= Derived(d)[f],
           \A w \in {"recourse", "collateralized"} : Result(d).mitigations[w] => Result(c).mitigations[w]
    PROVE  LET x == Score(face, days, Result(c), snapshot)
               y == Score(face, days, Result(d), snapshot)
           IN /\ x.rank <= y.rank /\ x.loss <= y.loss /\ x.reserve >= y.reserve
              /\ x.reserve <= face - Fee(face)
<1> DEFINE F == Scored(c, snapshot)
           G == Scored(d, snapshot)
<1>1. InRange(F) /\ InRange(G) /\ days \in Nat
  BY ScoreIs
<1>2. \A f \in Names : F[f] <= G[f]
  <2>1. F["volatility"] = G["volatility"] /\ F["volatility"] \in 0..One
    BY <1>1, ScoredFields, CoefficientsAre DEF InRange, Names
  <2>2. F["volatility"] <= G["volatility"]
    BY <2>1 DEF One
  <2> QED
    BY <2>2, ScoredFields
<1>3. /\ Default(c, snapshot) \in Nat /\ Default(d, snapshot) \in Nat
      /\ Default(c, snapshot) <= Default(d, snapshot)
  BY <1>1, <1>2, DefaultRises DEF Default
<1>4. Loss(c) \in Nat /\ Loss(d) \in Nat /\ Loss(c) <= Loss(d)
  BY LossFalls DEF Loss
<1>5. /\ Rank(Default(c, snapshot)) <= Rank(Default(d, snapshot))
      /\ ExpectedLoss(Default(c, snapshot), Loss(c), face) <= ExpectedLoss(Default(d, snapshot), Loss(d), face)
  BY <1>3, <1>4, RankRises, ExpectedLossRises
<1>6. /\ RiskPremium(Default(c, snapshot), Loss(c)) \in Nat /\ RiskPremium(Default(d, snapshot), Loss(d)) \in Nat
      /\ RiskPremium(Default(c, snapshot), Loss(c)) <= RiskPremium(Default(d, snapshot), Loss(d))
  BY <1>3, <1>4, RiskPremiumRises
<1>7. /\ ConcentrationPremium(F) \in Nat /\ ConcentrationPremium(G) \in Nat
      /\ ConcentrationPremium(F) <= ConcentrationPremium(G)
  <2>1. F["concentration"] \in 0..One /\ G["concentration"] \in 0..One /\ F["concentration"] <= G["concentration"]
    BY <1>1, <1>2, CoefficientsAre DEF InRange, Names
  <2> QED
    BY <2>1, ConcentrationRises
<1>8. Asked(c, snapshot) \in Nat /\ Asked(d, snapshot) \in Nat /\ Asked(c, snapshot) <= Asked(d, snapshot)
  BY <1>6, <1>7 DEF Asked, Discount
<1>9. /\ PresentValue(face, Asked(c, snapshot), days) \in Nat /\ PresentValue(face, Asked(d, snapshot), days) \in Nat
      /\ PresentValue(face, Asked(d, snapshot), days) <= PresentValue(face, Asked(c, snapshot), days)
      /\ PresentValue(face, Asked(c, snapshot), days) <= face
  BY <1>1, <1>8, PresentValueFalls
<1>10. Fee(face) \in Int
  <2>1. 5 * face \in Nat /\ One \in Nat \ {0}
    BY DEF One
  <2> QED
    BY <2>1, HalfEvenIs DEF Fee
<1> QED
  BY <1>5, <1>9, <1>10, ScoreIs

-----------------------------------------------------------------------------
(* The benchmark: what a thin market cannot move *)

\* A digit keeps the square below the number.
LEMMA DigitIs ==
    ASSUME NEW n \in Nat, NEW r \in Nat, NEW unit \in Nat \ {0}, r * r <= n
    PROVE  LET root == WithDigit(n, r, unit)
           IN root \in Nat /\ root * root <= n /\ (n >= 1 /\ unit = 1 => root >= 1)
<1> DEFINE D == {d \in 0..(Base - 1) : (r + unit * d) * (r + unit * d) <= n}
<1>1. Base - 1 \in Nat /\ 1 <= Base - 1
  BY DEF Base
<1>2. D \in SUBSET Nat /\ 0 \in D /\ IsFiniteSet(D)
  <2>1. D \in SUBSET (0..(Base - 1)) /\ IsFiniteSet(0..(Base - 1))
    BY <1>1, FS_Interval
  <2>2. (r + unit * 0) * (r + unit * 0) = r * r
    OBVIOUS
  <2> QED
    BY <1>1, <2>1, <2>2, FS_Subset
<1>3. n >= 1 /\ unit = 1 /\ r = 0 => 1 \in D
  BY <1>1
<1> DEFINE m == Max(D)
<1>4. m \in D /\ \A d \in D : d <= m
  BY <1>2, MaxIs
<1>5. m \in Nat /\ (r + unit * m) * (r + unit * m) <= n /\ unit * m \in Nat
  BY <1>2, <1>4
<1>6. n >= 1 /\ unit = 1 => r + unit * m >= 1
  BY <1>3, <1>4, <1>5
<1>7. WithDigit(n, r, unit) = r + unit * m
  BY DEF WithDigit
<1> HIDE DEF m
<1> QED
  BY <1>5, <1>6, <1>7

\* The weight of a market is a number, and positive if there is anything to lend.
LEMMA RootIs ==
    ASSUME NEW n \in Nat
    PROVE  Root(n) \in Nat /\ (n >= 1 => Root(n) >= 1)
<1> DEFINE a == WithDigit(n, 0, Base * Base)
           b == WithDigit(n, a, Base)
<1>1. Base \in Nat \ {0} /\ Base * Base \in Nat \ {0} /\ 0 * 0 <= n
  BY DEF Base
<1>2. a \in Nat /\ a * a <= n
  BY <1>1, DigitIs
<1> HIDE DEF a
<1>3. b \in Nat /\ b * b <= n
  BY <1>1, <1>2, DigitIs
<1> HIDE DEF b
<1>4. WithDigit(n, b, 1) \in Nat /\ (n >= 1 => WithDigit(n, b, 1) >= 1)
  BY <1>3, DigitIs
<1> QED
  BY <1>4 DEF Root, a, b

\* Markets as FetchMarkets gives them, of which one can lend to each.
MarketSet(S) ==
    /\ IsFiniteSet(S)
    /\ \A m \in S : /\ m = [venue |-> m.venue, id |-> m.id, apy |-> m.apy, liquidity |-> m.liquidity]
                    /\ m.apy \in Nat /\ m.liquidity \in Nat \ {0}

\* The markets one can lend to are such.
LEMMA EligibleIs ==
    ASSUME NEW n \in DOMAIN Markets
    PROVE  MarketSet(Eligible(Markets[n]))
<1> DEFINE answers == Markets[n]
           rows(v) == {[venue |-> v, id |-> r.id, apy |-> r.lender, liquidity |-> r.deposits] :
                          r \in {x \in answers[v] : x.lender # NoRate}}
<1>1. CASE \E v \in DOMAIN answers : answers[v] = NoAnswer
  <2>1. Eligible(answers) = {}
    BY <1>1 DEF Eligible, Fetched
  <2> QED
    BY <2>1, FS_EmptySet DEF MarketSet
<1>2. CASE ~ \E v \in DOMAIN answers : answers[v] = NoAnswer
  <2>1. /\ IsFiniteSet(DOMAIN answers)
        /\ \A v \in DOMAIN answers :
              /\ IsFiniteSet(answers[v])
              /\ \A r \in answers[v] : r.lender \in Nat \cup {NoRate} /\ r.deposits \in Nat
    BY <1>2, MarketsAssumption
  <2>2. Fetched(answers) = UNION {rows(v) : v \in DOMAIN answers}
    BY <1>2 DEF Fetched
  <2>3. ASSUME NEW v \in DOMAIN answers
        PROVE  /\ IsFiniteSet(rows(v))
               /\ \A m \in rows(v) :
                     /\ m = [venue |-> m.venue, id |-> m.id, apy |-> m.apy, liquidity |-> m.liquidity]
                     /\ m.apy \in Nat /\ m.liquidity \in Nat
    <3>1. IsFiniteSet({x \in answers[v] : x.lender # NoRate})
      BY <2>1, FS_Subset
    <3> DEFINE T == {x \in answers[v] : x.lender # NoRate}
               f == [r \in T |-> [venue |-> v, id |-> r.id, apy |-> r.lender, liquidity |-> r.deposits]]
    <3>2. rows(v) = {f[r] : r \in T}
      OBVIOUS
    <3>3. IsFiniteSet({f[r] : r \in T})
      <4> HIDE DEF f
      <4> QED
        BY <3>1, ImageIsFinite
    <3>4. IsFiniteSet(rows(v))
      BY <3>2, <3>3
    <3> QED
      BY <2>1, <3>4
  <2> HIDE DEF rows
  <2>4. IsFiniteSet({rows(v) : v \in DOMAIN answers})
    <3> DEFINE f == [v \in DOMAIN answers |-> rows(v)]
    <3>1. {rows(v) : v \in DOMAIN answers} = {f[v] : v \in DOMAIN answers}
      OBVIOUS
    <3>2. IsFiniteSet({f[v] : v \in DOMAIN answers})
      <4> HIDE DEF f
      <4> QED
        BY <2>1, ImageIsFinite
    <3> QED
      BY <3>1, <3>2
  <2>5. IsFiniteSet(UNION {rows(v) : v \in DOMAIN answers})
    BY <2>3, <2>4, FS_UNION
  <2>6. Eligible(answers) \subseteq UNION {rows(v) : v \in DOMAIN answers}
    BY <2>2 DEF Eligible
  <2>7. IsFiniteSet(Eligible(answers))
    BY <2>5, <2>6, FS_Subset
  <2>8. \A m \in Eligible(answers) : m.liquidity > 0 /\ \E v \in DOMAIN answers : m \in rows(v)
    BY <2>2 DEF Eligible
  <2> QED
    BY <2>3, <2>7, <2>8 DEF MarketSet
<1> QED
  BY <1>1, <1>2

\* Some of them are such too.
LEMMA PartOfMarkets ==
    ASSUME NEW S, MarketSet(S), NEW T \in SUBSET S
    PROVE  MarketSet(T)
BY FS_Subset DEF MarketSet

\* The weight of some of the markets is what the others leave of the whole.
LEMMA WeightOfPart ==
    ASSUME NEW S, MarketSet(S), NEW T \in SUBSET S
    PROVE  /\ Weight(S) \in Nat /\ Weight(T) \in Nat /\ Weight(S \ T) \in Nat
           /\ Weight(S) = Weight(T) + Weight(S \ T)
<1> DEFINE f == [m \in S |-> Root(m.liquidity)]
           U == S \ T
<1>1. \A m \in S : f[m] \in Nat
  BY RootIs DEF MarketSet
<1>2. ASSUME NEW P \in SUBSET S
      PROVE  Weight(P) = SumOf(f, P) /\ Weight(P) \in Nat
  <2> DEFINE g == [m \in P |-> Root(m.liquidity)]
  <2>1. IsFiniteSet(P) /\ (\A m \in P : g[m] = f[m]) /\ (\A m \in P : g[m] \in Nat) /\ Numbers(g, P)
    BY <1>1, FS_Subset DEF MarketSet, Numbers
  <2> HIDE DEF f
  <2>2. Weight(P) = SumOf(g, P)
    BY DEF Weight
  <2> HIDE DEF g
  <2>3. SumOf(g, P) = SumOf(f, P)
    BY <2>1, SumOfSame
  <2> QED
    BY <2>1, <2>2, <2>3, SumIsNat
<1>3. IsFiniteSet(S) /\ Numbers(f, S) /\ U \in SUBSET S /\ S \in SUBSET S
  BY <1>1 DEF MarketSet, Numbers
<1> HIDE DEF f
<1>4. SumOf(f, S) = SumOf(f, T) + SumOf(f, S \ T)
  BY <1>3, SumOfTwo
<1> QED
  BY <1>2, <1>3, <1>4 DEF U

\* The more markets, the more weight.
LEMMA WeightRises ==
    ASSUME NEW S, MarketSet(S), NEW T \in SUBSET S, NEW U \in SUBSET T
    PROVE  Weight(U) \in Nat /\ Weight(T) \in Nat /\ Weight(U) <= Weight(T)
<1>1. MarketSet(T)
  BY PartOfMarkets
<1>2. /\ Weight(T) \in Nat /\ Weight(U) \in Nat /\ Weight(T \ U) \in Nat
      /\ Weight(T) = Weight(U) + Weight(T \ U)
  BY <1>1, WeightOfPart
<1> QED
  BY <1>2

Rates(S) == {m.apy : m \in S}
\* The rates of some markets are numbers, with a least and a greatest.
LEMMA RatesAre ==
    ASSUME NEW S, MarketSet(S), S # {}
    PROVE  /\ Rates(S) \in SUBSET Nat /\ Rates(S) # {} /\ IsFiniteSet(Rates(S))
           /\ Min(Rates(S)) \in Rates(S) /\ \A r \in Rates(S) : Min(Rates(S)) <= r
           /\ Max(Rates(S)) \in Rates(S) /\ \A r \in Rates(S) : r <= Max(Rates(S))
<1>1. Rates(S) \in SUBSET Nat /\ Rates(S) # {}
  BY DEF MarketSet, Rates
<1>2. IsFiniteSet(Rates(S))
  <2> DEFINE f == [m \in S |-> m.apy]
  <2>1. Rates(S) = {f[m] : m \in S}
    BY DEF Rates
  <2> HIDE DEF f
  <2> QED
    BY <2>1, ImageIsFinite DEF MarketSet
<1> QED
  BY <1>1, <1>2, MinIs, MaxIs

\* The quantile is the rate of a market, reaches its part of the weight, and is the least that does.
Reaches(S, num, den, rate) == den * Weight(NoDearer(S, rate)) >= num * Weight(S)
LEMMA QuantileIs ==
    ASSUME NEW S, MarketSet(S), S # {}, NEW num \in Nat, NEW den \in Nat, num <= den
    PROVE  /\ Quantile(S, num, den) \in Rates(S)
           /\ Reaches(S, num, den, Quantile(S, num, den))
           /\ \A r \in Rates(S) : Reaches(S, num, den, r) => Quantile(S, num, den) <= r
<1> DEFINE R == {m.apy : m \in {x \in S : Reaches(S, num, den, x.apy)}}
<1>1. Quantile(S, num, den) = Min(R)
  BY DEF Quantile, Reaches
<1>2. \A r : r \in R <=> r \in Rates(S) /\ Reaches(S, num, den, r)
  BY DEF Rates
<1> DEFINE top == Max(Rates(S))
<1>3. top \in Rates(S) /\ NoDearer(S, top) = S
  BY RatesAre DEF NoDearer, Rates
<1>4. Reaches(S, num, den, top)
  <2>1. Weight(S) \in Nat
    BY WeightOfPart
  <2>2. num * Weight(S) <= den * Weight(S)
    BY <2>1, Scaled
  <2>3. num * Weight(S) \in Int /\ den * Weight(S) \in Int
    BY <2>1
  <2> HIDE DEF top
  <2> QED
    BY <1>3, <2>2, <2>3 DEF Reaches
<1> HIDE DEF R, top
<1>5. R \in SUBSET Nat /\ R # {}
  BY <1>2, <1>3, <1>4, RatesAre
<1>6. Min(R) \in R /\ \A r \in R : Min(R) <= r
  BY <1>5, MinIs
<1> QED
  BY <1>1, <1>2, <1>6

\* What is winsorized are markets still.
LEMMA WinsorizedIs ==
    ASSUME NEW S, MarketSet(S), S # {}
    PROVE  MarketSet(Winsorized(S)) /\ Winsorized(S) # {}
<1>1. CASE Cardinality(S) < 2
  BY <1>1 DEF Winsorized
<1>2. CASE ~(Cardinality(S) < 2)
  <2> DEFINE low == Quantile(S, 1, 10)
             high == Quantile(S, 9, 10)
             f == [m \in S |-> [m EXCEPT !.apy = Clamp(m.apy, low, high)]]
  <2>1. Winsorized(S) = {f[m] : m \in S}
    BY <1>2 DEF Winsorized
  <2>2. low \in Nat /\ high \in Nat
    BY QuantileIs, RatesAre
  <2> HIDE DEF low, high
  <2>3. ASSUME NEW m \in S
        PROVE  /\ f[m] = [venue |-> f[m].venue, id |-> f[m].id, apy |-> f[m].apy, liquidity |-> f[m].liquidity]
               /\ f[m].apy \in Nat /\ f[m].liquidity \in Nat \ {0}
    <3>1. m = [venue |-> m.venue, id |-> m.id, apy |-> m.apy, liquidity |-> m.liquidity]
      BY DEF MarketSet
    <3>2. f[m] = [venue |-> m.venue, id |-> m.id, apy |-> Clamp(m.apy, low, high), liquidity |-> m.liquidity]
      BY <3>1
    <3>3. Clamp(m.apy, low, high) \in Nat /\ m.liquidity \in Nat \ {0}
      BY <2>2 DEF Clamp, MarketSet
    <3> HIDE DEF f
    <3> QED
      BY <3>2, <3>3
  <2>4. IsFiniteSet({f[m] : m \in S})
    <3> HIDE DEF f
    <3> QED
      BY ImageIsFinite DEF MarketSet
  <2> HIDE DEF f
  <2>5. Winsorized(S) # {} /\ IsFiniteSet(Winsorized(S))
    BY <2>1, <2>4
  <2>6. ASSUME NEW w \in Winsorized(S)
        PROVE  /\ w = [venue |-> w.venue, id |-> w.id, apy |-> w.apy, liquidity |-> w.liquidity]
               /\ w.apy \in Nat /\ w.liquidity \in Nat \ {0}
    <3>1. PICK m \in S : w = f[m]
      BY <2>1
    <3> QED
      BY <2>3, <3>1
  <2> QED
    BY <2>5, <2>6 DEF MarketSet
<1> QED
  BY <1>1, <1>2

\* Their rates are between the first and the last decile.
LEMMA WinsorizedRates ==
    ASSUME NEW S, MarketSet(S), ~(Cardinality(S) < 2), NEW r \in Rates(Winsorized(S)), S # {}
    PROVE  Quantile(S, 1, 10) <= r /\ r <= Quantile(S, 9, 10)
<1> DEFINE low == Quantile(S, 1, 10)
           high == Quantile(S, 9, 10)
<1>1. low \in Nat /\ high \in Nat /\ low <= high
  <2>1. low \in Rates(S) /\ high \in Rates(S) /\ Reaches(S, 9, 10, high)
        /\ \A q \in Rates(S) : Reaches(S, 1, 10, q) => low <= q
    BY QuantileIs
  <2> HIDE DEF low, high
  <2>2. Weight(NoDearer(S, high)) \in Nat /\ Weight(S) \in Nat
    <3>1. NoDearer(S, high) \in SUBSET S
      BY DEF NoDearer
    <3> QED
      BY <3>1, WeightOfPart
  <2>3. Reaches(S, 1, 10, high)
    BY <2>1, <2>2 DEF Reaches
  <2> QED
    BY <2>1, <2>3, RatesAre
<1>2. \A m \in S : [m EXCEPT !.apy = Clamp(m.apy, low, high)].apy = Clamp(m.apy, low, high) /\ m.apy \in Nat
  <2> TAKE m \in S
  <2>1. m = [venue |-> m.venue, id |-> m.id, apy |-> m.apy, liquidity |-> m.liquidity] /\ m.apy \in Nat
    BY DEF MarketSet
  <2>2. [m EXCEPT !.apy = Clamp(m.apy, low, high)]
          = [venue |-> m.venue, id |-> m.id, apy |-> Clamp(m.apy, low, high), liquidity |-> m.liquidity]
    BY <2>1
  <2> QED
    BY <2>1, <2>2
<1>3. PICK m \in S : r = [m EXCEPT !.apy = Clamp(m.apy, low, high)].apy
  BY DEF Rates, Winsorized
<1> HIDE DEF low, high
<1>4. r = Clamp(m.apy, low, high) /\ m.apy \in Nat
  BY <1>2, <1>3
<1>5. low <= r /\ r <= high
  BY <1>1, <1>4 DEF Clamp
<1> QED
  BY <1>5 DEF low, high

\* The spread between two bounds is no wider than they are.
LEMMA VolatilityWithin ==
    ASSUME NEW S, MarketSet(S), S # {}, NEW low \in Nat, NEW high \in Nat, low <= high,
           \A r \in Rates(S) : low <= r /\ r <= high
    PROVE  Volatility(S) \in Nat /\ Volatility(S) <= 10 * (high - low)
<1> DEFINE least == Min(Rates(S))
           most == Max(Rates(S))
<1>1. Volatility(S) = IF Cardinality(S) < 2 THEN 0 ELSE Clamp(10 * (most - least), 0, 1000)
  BY DEF Volatility, Rates
<1>2. least \in Nat /\ most \in Nat /\ low <= least /\ least <= most /\ most <= high
  BY RatesAre
<1> HIDE DEF least, most
<1> QED
  BY <1>1, <1>2 DEF Clamp

\* A market with less than a tenth of the weight: the quantiles are between the rates of the others.
LEMMA QuantilesOfOthers ==
    ASSUME NEW S, MarketSet(S), NEW t \in S, 10 * Weight({t}) < Weight(S)
    PROVE  /\ S \ {t} # {} /\ ~(Cardinality(S) < 2)
           /\ Min(Rates(S \ {t})) <= Quantile(S, 1, 10)
           /\ Quantile(S, 9, 10) <= Max(Rates(S \ {t}))
<1> DEFINE others == S \ {t}
           least == Min(Rates(others))
           most == Max(Rates(others))
<1>1. /\ Weight(S) \in Nat /\ Weight({t}) \in Nat /\ Weight(others) \in Nat
      /\ Weight(S) = Weight({t}) + Weight(others)
  BY WeightOfPart
<1>2. others # {}
  <2>1. CASE S = {t}
    BY <1>1, <2>1
  <2> QED
    BY <2>1
<1>3. ~(Cardinality(S) < 2)
  <2>1. IsFiniteSet(S)
    BY DEF MarketSet
  <2>2. /\ IsFiniteSet(others) /\ Cardinality(others) = Cardinality(S) - 1
        /\ Cardinality(S) \in Nat /\ Cardinality(others) \in Nat
    BY <2>1, FS_RemoveElement, FS_CardinalityType
  <2>3. Cardinality(others) # 0
    BY <1>2, <2>2, FS_EmptySet
  <2> QED
    BY <2>2, <2>3
<1>4. MarketSet(others) /\ Rates(others) \subseteq Rates(S)
  BY PartOfMarkets DEF Rates
<1>5. /\ least \in Rates(S) /\ most \in Rates(S) /\ least \in Nat /\ most \in Nat
      /\ \A m \in others : least <= m.apy /\ m.apy <= most /\ m.apy \in Nat
  <2>1. /\ least \in Rates(others) /\ \A r \in Rates(others) : least <= r
        /\ most \in Rates(others) /\ \A r \in Rates(others) : r <= most
        /\ Rates(others) \in SUBSET Nat
    BY <1>2, <1>4, RatesAre
  <2> HIDE DEF least, most
  <2>2. \A m \in others : m.apy \in Rates(others)
    BY DEF Rates
  <2> QED
    BY <1>4, <2>1, <2>2
<1> HIDE DEF least, most
<1>6. \A T \in SUBSET S : \A U \in SUBSET T : Weight(U) \in Nat /\ Weight(T) \in Nat /\ Weight(U) <= Weight(T)
  BY WeightRises
<1> DEFINE low == Quantile(S, 1, 10)
           high == Quantile(S, 9, 10)
<1>7. /\ low \in Nat /\ high \in Nat /\ Reaches(S, 1, 10, low)
      /\ \A r \in Rates(S) : Reaches(S, 9, 10, r) => high <= r
  BY QuantileIs, RatesAre
<1> HIDE DEF low, high
<1>8. least <= low
  <2> SUFFICES ASSUME ~(least <= low) PROVE FALSE
    OBVIOUS
  <2>1. NoDearer(S, low) \in SUBSET {t} /\ {t} \in SUBSET S
    BY <1>5, <1>7 DEF NoDearer
  <2>2. Weight(NoDearer(S, low)) \in Nat /\ Weight(NoDearer(S, low)) <= Weight({t})
    BY <1>6, <2>1
  <2> QED
    BY <1>1, <1>7, <2>2 DEF Reaches
<1>9. high <= most
  <2>1. others \in SUBSET NoDearer(S, most) /\ NoDearer(S, most) \in SUBSET S
    BY <1>5 DEF NoDearer
  <2>2. Weight(NoDearer(S, most)) \in Nat /\ Weight(others) <= Weight(NoDearer(S, most))
    BY <1>6, <2>1
  <2>3. Reaches(S, 9, 10, most)
    BY <1>1, <2>2 DEF Reaches
  <2> QED
    BY <1>5, <1>7, <2>3
<1> QED
  BY <1>2, <1>3, <1>8, <1>9 DEF least, most, low, high

\* So a thin market moves neither the benchmark nor the volatility beyond the others.
LEMMA ThinIsIgnored ==
    ASSUME NEW n \in DOMAIN Markets, NEW t \in Thin(Eligible(Markets[n]))
    PROVE  LET rates == {x.apy : x \in Eligible(Markets[n]) \ {t}}
               snapshot == Snapshot(Markets[n])
           IN /\ snapshot.benchmark \in Min(rates)..Max(rates)
              /\ snapshot.volatility <= 10 * (Max(rates) - Min(rates))
<1> DEFINE all == Eligible(Markets[n])
           rates == Rates(all \ {t})
           low == Quantile(all, 1, 10)
           high == Quantile(all, 9, 10)
           winsorized == Winsorized(all)
           middle == Quantile(winsorized, 1, 2)
<1>1. MarketSet(all) /\ t \in all /\ 10 * Weight({t}) < Weight(all)
  BY EligibleIs DEF Thin
<1>2. all \ {t} # {} /\ ~(Cardinality(all) < 2) /\ Min(rates) <= low /\ high <= Max(rates)
  BY <1>1, QuantilesOfOthers
<1>3. MarketSet(winsorized) /\ winsorized # {}
  BY <1>1, WinsorizedIs
<1>4. middle \in Rates(winsorized)
  BY <1>3, QuantileIs
<1>5. \A r \in Rates(winsorized) : low <= r /\ r <= high /\ r \in Nat
  BY <1>1, <1>2, <1>3, WinsorizedRates, RatesAre
<1>6. MarketSet(all \ {t})
  BY <1>1, PartOfMarkets
<1>7. Min(rates) \in Nat /\ Max(rates) \in Nat
  BY <1>2, <1>6, RatesAre
<1>8. low \in Nat /\ high \in Nat
  BY <1>1, QuantileIs, RatesAre
<1>9. Snapshot(Markets[n]).benchmark = middle /\ Snapshot(Markets[n]).volatility = Volatility(winsorized)
  BY <1>1 DEF Snapshot
<1>10. rates = {x.apy : x \in all \ {t}}
  BY DEF Rates
<1> HIDE DEF all, rates, low, high, winsorized, middle
<1>11. middle \in Nat /\ Min(rates) <= middle /\ middle <= Max(rates)
  BY <1>2, <1>4, <1>5, <1>7, <1>8
<1>12. \A r \in Rates(winsorized) : Min(rates) <= r /\ r <= Max(rates)
  BY <1>2, <1>5, <1>7, <1>8
<1>13. Volatility(winsorized) <= 10 * (Max(rates) - Min(rates))
  BY <1>3, <1>7, <1>11, <1>12, VolatilityWithin
<1>14. middle \in Min(rates)..Max(rates)
  BY <1>7, <1>11
<1> QED
  BY <1>9, <1>10, <1>13, <1>14 DEF all

\* What the risk model is told of the market.
LEMMA SnapshotIs ==
    ASSUME NEW n \in DOMAIN Markets, Snapshot(Markets[n]) # NoSnapshot
    PROVE  Snapshot(Markets[n]).benchmark \in Nat /\ Snapshot(Markets[n]).premium \in Nat
<1> DEFINE all == Eligible(Markets[n])
           total == TotalLiquidity(all)
<1>1. MarketSet(all) /\ all # {}
  BY EligibleIs DEF Snapshot
<1>2. Quantile(Winsorized(all), 1, 2) \in Nat
  <2> DEFINE w == Winsorized(all)
  <2>1. MarketSet(w) /\ w # {}
    BY <1>1, WinsorizedIs
  <2> HIDE DEF w
  <2>2. Quantile(w, 1, 2) \in Rates(w) /\ Rates(w) \in SUBSET Nat
    BY <2>1, QuantileIs, RatesAre
  <2> QED
    BY <2>2 DEF w
<1>3. total \in Nat /\ total >= 1
  <2> DEFINE f == [m \in all |-> m.liquidity]
  <2>1. PICK m \in all : TRUE
    BY <1>1
  <2>2. IsFiniteSet(all) /\ \A x \in all : f[x] \in Nat \ {0}
    BY <1>1 DEF MarketSet
  <2>3. IsFiniteSet(all \ {m}) /\ (\A x \in all \ {m} : f[x] \in Nat) /\ Numbers(f, all)
    BY <2>2, FS_RemoveElement DEF Numbers
  <2>4. total = SumOf(f, all)
    BY DEF TotalLiquidity
  <2> HIDE DEF f, all
  <2>5. SumOf(f, all \ {m}) \in Nat
    BY <2>3, SumIsNat
  <2>6. SumOf(f, all) = f[m] + SumOf(f, all \ {m})
    BY <2>1, <2>2, <2>3, SumSplit
  <2> QED
    BY <2>1, <2>2, <2>4, <2>5, <2>6
<1>4. Root(total) \in Nat \ {0}
  <2> HIDE DEF total
  <2> QED
    BY <1>3, RootIs
<1>5. LiquidityConstant * 1000 \in Nat
  BY MarketAssumption
<1>6. (LiquidityConstant * 1000) \div Root(total) \in Nat
  <2> DEFINE r == Root(total)
             k == LiquidityConstant * 1000
  <2>1. r \in Nat \ {0} /\ k \in Nat
    BY <1>4, <1>5
  <2> HIDE DEF r, k
  <2>2. k \div r \in Nat
    BY <2>1
  <2> QED
    BY <2>2 DEF r, k
<1>7. LiquidityPremium(all) \in Nat
  BY <1>6 DEF LiquidityPremium, Clamp
<1> QED
  BY <1>1, <1>2, <1>7 DEF Snapshot

-----------------------------------------------------------------------------
(* What is priced: every answer is what the model says of its receivable *)

Priced(made, i) == made \in Scores /\ made.score # NoScore /\ made.face = invoice[i].face
Answer(a) == [read |-> a.read, market |-> a.market, face |-> a.face, days |-> a.days, score |-> a.score]
PricesInv ==
    /\ scores = Scores
    /\ \A c \in Callers : call[c].op = "answer" => Priced(call[c].made, call[c].of)
    /\ \A a \in assessments : Priced(Answer(a), a.of)

\* The face of a receivable is settled with its creation.
LEMMA PricedKept ==
    ASSUME RowsGrow, NEW i \in Ids, NEW made, Priced(made, i)
    PROVE  Priced(made, i)'
BY DEF RowsGrow, MayFollow, SameTerms, Priced, Scores, ScoreOf

\* A step after which one request has something else on its mind.
LEMMA PricesKept ==
    ASSUME IInv, PricesInv, RowsGrow, NEW c \in Callers, NEW d, call' = [call EXCEPT ![c] = d],
           d.op = "answer" => d.of \in Ids /\ Priced(d.made, d.of),
           UNCHANGED <<assessments, scores>>
    PROVE  PricesInv'
<1>1. call'[c] = d /\ \A b \in Callers : b # c => call'[b] = call[b]
  BY CallSet DEF IInv
<1>2. \A b \in Callers : call[b].op = "answer" => call[b].of \in Ids /\ Priced(call[b].made, call[b].of)
  BY DEF IInv, CallsInv, CallInv, PricesInv
<1>3. \A b \in Callers : call'[b].op = "answer" => call'[b].of \in Ids /\ Priced(call'[b].made, call'[b].of)
  BY <1>1, <1>2
<1>4. ASSUME NEW b \in Callers, call'[b].op = "answer" PROVE Priced(call[b].made, call[b].of)'
  <2> DEFINE made == call'[b].made
             i == call'[b].of
  <2>1. i \in Ids /\ Priced(made, i)
    BY <1>3, <1>4
  <2>2. made \in Scores /\ made.score # NoScore /\ made.face = invoice[i].face
    BY <2>1 DEF Priced
  <2>3. invoice'[i].face = invoice[i].face
    BY <2>1 DEF RowsGrow, MayFollow, SameTerms
  <2> QED
    BY <2>2, <2>3 DEF Priced, Scores, ScoreOf
<1>5. ASSUME NEW a \in assessments PROVE Priced(Answer(a), a.of)'
  BY PricedKept DEF IInv, AssessedInv, PricesInv
<1> QED
  BY <1>4, <1>5 DEF PricesInv, Scores, ScoreOf

LEMMA DeliverPrices ==
    ASSUME IInv, PricesInv, RowsGrow, NEW c \in Callers, Deliver(c)
    PROVE  PricesInv'
<1> DEFINE i == call[c].of
<1>1. PICK s \in scores :
        /\ s.face = invoice[i].face
        /\ call' = [call EXCEPT ![c] =
             IF s.score = NoScore THEN [op |-> "failure", of |-> call[c].of]
             ELSE [op |-> "answer", of |-> call[c].of, row |-> invoice[call[c].of], made |-> s]]
  BY DEF Deliver
<1>2. i \in Ids /\ s \in Scores /\ UNCHANGED <<assessments, scores>>
  BY DEF Deliver, IInv, CallsInv, CallInv, PricesInv
<1>3. CASE s.score = NoScore
  <2> DEFINE request == [op |-> "failure", of |-> i]
  <2>1. call' = [call EXCEPT ![c] = request] /\ request.op # "answer"
    BY <1>1, <1>3
  <2> QED
    BY <1>2, <2>1, PricesKept
<1>4. CASE s.score # NoScore
  <2> DEFINE request == [op |-> "answer", of |-> i, row |-> invoice[i], made |-> s]
  <2>1. call' = [call EXCEPT ![c] = request] /\ request.of = i /\ request.made = s
    BY <1>1, <1>4
  <2>2. Priced(s, i)
    BY <1>1, <1>2, <1>4 DEF Priced
  <2> HIDE DEF request
  <2> QED
    BY <1>2, <2>1, <2>2, PricesKept
<1> QED
  BY <1>3, <1>4

LEMMA CommitPrices ==
    ASSUME IInv, PricesInv, RowsGrow, NEW c \in Callers, Commit(c)
    PROVE  PricesInv'
<1> DEFINE made == call[c].made
           i == call[c].of
<1>1. i \in Ids /\ Priced(made, i)
  BY DEF Commit, IInv, CallsInv, CallInv, PricesInv
<1>2. /\ call' = [call EXCEPT ![c] = Idle] /\ UNCHANGED scores
      /\ assessments' = assessments \cup {Assessment(c)}
  BY DEF Commit, Return
<1>3. Answer(Assessment(c)) = made /\ Assessment(c).of = i
  <2>1. PICK d \in DOMAIN Documents, n \in DOMAIN Markets, x \in Offers, day \in Today :
          made = [read |-> d, market |-> n, face |-> x.face, days |-> x.due - day,
                  score |-> ScoreOf(d, n, x.face, x.due - day)]
    BY <1>1 DEF Priced, Scores
  <2>2. made = [read |-> made.read, market |-> made.market, face |-> made.face, days |-> made.days,
                score |-> made.score]
    BY <2>1
  <2> HIDE DEF made
  <2> QED
    BY <2>2 DEF Assessment, Answer, made
<1>4. \A b \in Callers : call'[b].op = "answer" => call'[b] = call[b]
  BY <1>2, CallSet DEF IInv, Idle
<1>5. ASSUME NEW b \in Callers, call'[b].op = "answer" PROVE Priced(call[b].made, call[b].of)'
  <2>1. call'[b] = call[b] /\ call[b].of \in Ids /\ Priced(call[b].made, call[b].of)
    BY <1>4, <1>5 DEF IInv, CallsInv, CallInv, PricesInv
  <2>2. invoice'[call[b].of].face = invoice[call[b].of].face
    BY <2>1 DEF RowsGrow, MayFollow, SameTerms
  <2> QED
    BY <2>1, <2>2 DEF Priced, Scores, ScoreOf
<1>6. ASSUME NEW a \in assessments' PROVE Priced(Answer(a), a.of)'
  <2>1. CASE a \in assessments
    BY <2>1, PricedKept DEF IInv, AssessedInv, PricesInv
  <2>2. CASE a = Assessment(c)
    BY <1>1, <1>3, <2>2, PricedKept
  <2> QED
    BY <1>2, <2>1, <2>2
<1> QED
  BY <1>2, <1>5, <1>6 DEF PricesInv, Scores, ScoreOf

LEMMA NextPrices == IInv /\ PricesInv /\ [Next]_vars => PricesInv'
<1> SUFFICES ASSUME IInv, PricesInv, [Next]_vars PROVE PricesInv'
  OBVIOUS
<1>1. RowsGrow
  BY NextIInv
<1>2. ASSUME NEW x \in Offers, Create(x) PROVE PricesInv'
  <2>1. UNCHANGED <<assessments, call, scores>>
    BY <1>2 DEF Create
  <2>2. ASSUME NEW b \in Callers, call[b].op = "answer" PROVE Priced(call[b].made, call[b].of)'
    <3>1. call'[b] = call[b] /\ call[b].of \in Ids /\ Priced(call[b].made, call[b].of)
      BY <2>1, <2>2 DEF IInv, CallsInv, CallInv, PricesInv
    <3>2. invoice'[call[b].of].face = invoice[call[b].of].face
      BY <1>1, <3>1 DEF RowsGrow, MayFollow, SameTerms
    <3> QED
      BY <3>1, <3>2 DEF Priced, Scores, ScoreOf
  <2>3. ASSUME NEW a \in assessments PROVE Priced(Answer(a), a.of)'
    BY <1>1, PricedKept DEF IInv, AssessedInv, PricesInv
  <2> QED
    BY <2>1, <2>2, <2>3 DEF PricesInv, Scores, ScoreOf
<1>3. ASSUME NEW c \in Callers, NEW d, call' = [call EXCEPT ![c] = d], d.op # "answer",
             UNCHANGED <<assessments, scores>>
      PROVE  PricesInv'
  BY <1>1, <1>3, PricesKept
<1>4. ASSUME NEW c \in Callers, Return(c), UNCHANGED <<assessments, scores>> PROVE PricesInv'
  <2>1. call' = [call EXCEPT ![c] = Idle] /\ Idle.op # "answer"
    BY <1>4 DEF Return, Idle
  <2> QED
    BY <1>3, <1>4, <2>1
<1>5. ASSUME NEW c \in Callers, Proceed(c) PROVE PricesInv'
  <2>1. CASE Collect(c)
    <3> DEFINE request == [op |-> "work", of |-> Min(Collectable), document |-> document[Min(Collectable)]]
    <3>1. call' = [call EXCEPT ![c] = request] /\ request.op # "answer" /\ UNCHANGED <<assessments, scores>>
      BY <2>1 DEF Collect, Begin
    <3> HIDE DEF request
    <3> QED
      BY <1>3, <3>1
  <2> QED
    BY <1>4, <1>5, <2>1 DEF Proceed, SaveDocument, Move, Refuse
<1>6. ASSUME NEW c \in Callers, Deliver(c) PROVE PricesInv'
  BY <1>1, <1>6, DeliverPrices
<1>7. ASSUME NEW c \in Callers, Finish(c) PROVE PricesInv'
  BY <1>1, <1>4, <1>7, CommitPrices DEF Finish, RecordFailure
<1>8. ASSUME NEW c \in Callers, Fail(c) PROVE PricesInv'
  BY <1>4, <1>8 DEF Fail
<1>9. ASSUME NEW c \in Callers, NEW i \in Ids,
             \/ \E d \in DOMAIN Documents : ReadToUpload(c, i, d)
             \/ \E claim \in Claimed : ReadToAttach(c, i, claim)
             \/ \E status \in {"EXTRACTING", "APPROVED", "REJECTED"} : ReadToMove(c, i, status)
      PROVE  PricesInv'
  <2>1. ASSUME NEW d, Begin(c, d), d.op # "answer" PROVE PricesInv'
    BY <1>3, <2>1 DEF Begin
  <2>2. ASSUME NEW d \in DOMAIN Documents, ReadToUpload(c, i, d) PROVE PricesInv'
    <3> DEFINE request == [op |-> "upload", of |-> i, row |-> invoice[i], put |-> TRUE,
                           document |-> NewDocument(ObjectKey(i, d), d)]
    <3>1. Begin(c, request) /\ request.op # "answer"
      BY <2>2 DEF ReadToUpload
    <3> QED
      BY <2>1, <3>1
  <2>3. ASSUME NEW claim \in Claimed, ReadToAttach(c, i, claim) PROVE PricesInv'
    <3> DEFINE request == [op |-> "upload", of |-> i, row |-> invoice[i], put |-> FALSE,
                           document |-> NewDocument(claim.key, claim.hash)]
    <3>1. Begin(c, request) /\ request.op # "answer"
      BY <2>3 DEF ReadToAttach
    <3> QED
      BY <2>1, <3>1
  <2>4. ASSUME NEW status, ReadToMove(c, i, status) PROVE PricesInv'
    <3> DEFINE request == [op |-> "move", of |-> i, row |-> invoice[i], to |-> status]
    <3>1. Begin(c, request) /\ request.op # "answer"
      BY <2>4 DEF ReadToMove
    <3> QED
      BY <2>1, <3>1
  <2> QED
    BY <1>9, <2>2, <2>3, <2>4
<1>10. CASE UNCHANGED vars
  BY <1>10 DEF vars, PricesInv, Priced, Scores, ScoreOf
<1> QED
  BY <1>2, <1>5, <1>6, <1>7, <1>8, <1>9, <1>10 DEF Next

\* No request and no run of the workflow changes what a receivable is worth or
\* when it is due, replaces the document of one that has left the draft, or
\* brings back one that was rejected (status.go, Update, SaveDocument).
THEOREM NothingIsRewritten == Spec => [][RowsGrow]_vars
<1>1. IInv /\ [Next]_vars => [RowsGrow]_vars
  BY NextIInv
<1> QED
  BY <1>1, IntakeInvariant, PTL DEF Spec

\* Every answer and every assessment is what the model says of the document, the
\* market and the receivable it names, whatever happened in between (Complete, commit).
THEOREM PricedByTheModel == Spec => []PricesInv
<1>1. Init => PricesInv
  BY DEF Init, PricesInv, Idle
<1> QED
  BY <1>1, NextPrices, IntakeInvariant, PTL DEF Spec

\* What an assessment says, in the terms of the model.
LEMMA AssessmentIs ==
    ASSUME PricesInv, NEW a \in assessments
    PROVE  LET snapshot == Snapshot(Markets[a.market])
               d == Documents[a.read]
           IN /\ a.market \in DOMAIN Markets /\ a.face \in Nat \ {0} /\ a.days \in Int
              /\ a.face = invoice[a.of].face
              /\ snapshot # NoSnapshot
              /\ a.score = Score(a.face, a.days, Result(d), snapshot) /\ a.score # NoScore
<1>1. Priced(Answer(a), a.of)
  BY DEF PricesInv
<1>2. PICK d \in DOMAIN Documents, n \in DOMAIN Markets, x \in Offers, day \in Today :
        Answer(a) = [read |-> d, market |-> n, face |-> x.face, days |-> x.due - day,
                     score |-> ScoreOf(d, n, x.face, x.due - day)]
  BY <1>1 DEF Priced, Scores
<1>3. a.read = d /\ a.market = n /\ a.face = x.face /\ a.days = x.due - day
      /\ a.score = ScoreOf(d, n, x.face, x.due - day)
  BY <1>2 DEF Answer
<1>4. x.face \in Nat \ {0} /\ x.due - day \in Int
  BY IntakeAssumption
<1>5. a.score # NoScore /\ a.face = invoice[a.of].face
  BY <1>1 DEF Priced, Answer
<1> QED
  BY <1>3, <1>4, <1>5 DEF ScoreOf

\* Of two receivables alike, priced in the same market, the one with the worse
\* evidence never gets the better grade, the smaller loss or the higher price,
\* for any documents, markets and terms (Model.Assess, Model.Price).
THEOREM WorseEvidenceIsNotDearer == Spec => []PriceFollowsRisk
<1>1. ASSUME PricesInv PROVE PriceFollowsRisk
  <2>1. ASSUME NEW a \in assessments, NEW b \in assessments, AtLeastAsGood(a, b)
        PROVE  /\ a.score.rank <= b.score.rank /\ a.score.loss <= b.score.loss
               /\ a.score.reserve >= b.score.reserve /\ a.score.reserve <= a.face - Fee(a.face)
    <3> DEFINE snapshot == Snapshot(Markets[a.market])
               c == Documents[a.read]
               d == Documents[b.read]
    <3>1. /\ a.market \in DOMAIN Markets /\ a.face \in Nat /\ a.days \in Int /\ snapshot # NoSnapshot
          /\ a.score = Score(a.face, a.days, Result(c), snapshot) /\ a.score # NoScore
      BY <1>1, AssessmentIs
    <3>2. a.market = b.market /\ a.face = b.face /\ a.days = b.days
      BY <2>1 DEF AtLeastAsGood
    <3>3. b.score = Score(a.face, a.days, Result(d), snapshot) /\ b.score # NoScore
      BY <1>1, <3>2, AssessmentIs
    <3>4. snapshot.benchmark \in Nat /\ snapshot.premium \in Nat
      BY <3>1, SnapshotIs
    <3>5. \A f \in Names : Derived(c)[f] <= Derived(d)[f]
      BY <2>1, ScoredFields DEF AtLeastAsGood, Result
    <3>6. \A w \in {"recourse", "collateralized"} : Result(d).mitigations[w] => Result(c).mitigations[w]
      BY <2>1 DEF AtLeastAsGood, Result
    <3> HIDE DEF snapshot, c, d
    <3> QED
      BY <3>1, <3>3, <3>4, <3>5, <3>6, ScoreFollowsRisk
  <2>2. ASSUME NEW a \in assessments
        PROVE  a.score.reserve <= invoice[a.of].face - Fee(invoice[a.of].face)
    <3>1. AtLeastAsGood(a, a)
      <4>1. \A f \in Names : Derived(Documents[a.read])[f] <= Derived(Documents[a.read])[f]
        <5> DEFINE d == Documents[a.read]
                   snapshot == Snapshot(Markets[a.market])
        <5>1. InRange(Scored(d, snapshot))
          <6>1. a.score = Score(a.face, a.days, Result(d), snapshot) /\ a.score # NoScore
            BY <1>1, AssessmentIs
          <6> HIDE DEF d, snapshot
          <6> QED
            BY <6>1, ScoreIs
        <5>2. Derived(d)["volatility"] = 0
          BY DEF Derived
        <5> HIDE DEF d, snapshot
        <5>3. \A f \in Names \ {"volatility"} : Derived(d)[f] \in 0..One
          <6> SUFFICES ASSUME NEW f \in Names \ {"volatility"} PROVE Derived(d)[f] \in 0..One
            OBVIOUS
          <6>1. Scored(d, snapshot)[f] \in 0..One
            BY <5>1, CoefficientsAre DEF InRange
          <6> QED
            BY <6>1, ScoredFields
        <5>4. \A f \in Names : Derived(d)[f] \in Int
          <6>1. \A f \in Names \ {"volatility"} : Derived(d)[f] \in Int
            BY <5>3
          <6> QED
            BY <5>2, <6>1
        <5>5. \A f \in Names : Derived(d)[f] <= Derived(d)[f]
          BY <5>4
        <5> QED
          BY <5>5 DEF d
      <4> QED
        BY <4>1, ScoredFields DEF AtLeastAsGood, Result
    <3> QED
      BY <1>1, <2>1, <3>1, AssessmentIs
  <2> QED
    BY <2>1, <2>2 DEF PriceFollowsRisk
<1> QED
  BY <1>1, PricedByTheModel, PTL

\* A market with less than a tenth of the weight moves neither the benchmark nor
\* the volatility beyond what the others say, whatever rate it quotes and however
\* many markets there are (Normalizer.Normalize).
THEOREM ThinMarketIsIgnored == Spec => []ThinMarketMovesNothing
<1>1. ASSUME PricesInv PROVE ThinMarketMovesNothing
  <2> SUFFICES ASSUME NEW a \in assessments, NEW rates \in WithoutThin[a.market]
               PROVE  /\ a.score.benchmark \in Min(rates)..Max(rates)
                      /\ a.score.features.volatility <= 10 * (Max(rates) - Min(rates))
    BY DEF ThinMarketMovesNothing
  <2> DEFINE n == a.market
             snapshot == Snapshot(Markets[n])
             d == Documents[a.read]
  <2>1. n \in DOMAIN Markets /\ a.score = Score(a.face, a.days, Result(d), snapshot) /\ a.score # NoScore
    BY <1>1, AssessmentIs
  <2>2. PICK t \in Thin(Eligible(Markets[n])) : rates = {x.apy : x \in Eligible(Markets[n]) \ {t}}
    BY <2>1 DEF WithoutThin
  <2>3. snapshot.benchmark \in Min(rates)..Max(rates) /\ snapshot.volatility <= 10 * (Max(rates) - Min(rates))
    BY <2>1, <2>2, ThinIsIgnored
  <2>4. a.score.benchmark = snapshot.benchmark /\ a.score.features = Scored(d, snapshot)
    <3> HIDE DEF snapshot, d
    <3> QED
      BY <2>1, ScoreIs
  <2>5. Scored(d, snapshot).volatility = snapshot.volatility
    BY ScoredFields
  <2> QED
    BY <2>3, <2>4, <2>5
<1> QED
  BY <1>1, PricedByTheModel, PTL
===============================================================================
