------------------------------- MODULE Pipeline -------------------------------
(***************************************************************************)
(* One receivable on its way from upload to token: the issuer and operators *)
(* move it with commands, and two stages, assessment and issuance, are      *)
(* carried out by outbox handlers, or, for the confidential half of an      *)
(* assessment, by a workflow that delivers its answer over HTTP.            *)
(*                                                                          *)
(* A handler reads the invoice outside any transaction, does its work, and  *)
(* commits under the version it read.  Invoices never meet here, so one is  *)
(* enough.                                                                  *)
(***************************************************************************)
EXTENDS Naturals

CONSTANTS
    Workers,        \* dispatchers and HTTP handlers; each handles one command or answer at a time
    Workflows,      \* "inline": DeterministicWorkflow; "elsewhere": PendingWorkflow
    Issuers,        \* "local": LocalIssuer; "live": HederaIssuer
    NoCommand,
    MaxCommands,    \* bound: assessments and issuances requested
    MaxDeliveries,  \* bound: times one command is claimed
    MaxMints,       \* bound: tokens are counted up to here, beyond it nothing differs
    MaxFaults       \* bound: steps that fail and processes that stop

Commands == 1..MaxCommands

ASSUME PipelineAssumption ==
    /\ Workflows \subseteq {"inline", "elsewhere"} /\ Issuers \subseteq {"local", "live"}
    /\ NoCommand \notin Commands
    /\ MaxCommands \in Nat /\ MaxDeliveries \in Nat /\ MaxMints \in Nat \ {0} /\ MaxFaults \in Nat

VARIABLES
    workflow, issuer,   \* what this deployment is configured with
    invoice,            \* the row: [status, failedFrom, version]
    assessments,        \* assessments stored for it
    asset,              \* whether its asset row exists
    minted,             \* tokens the issuer has made for it: LocalIssuer's are named by the
                        \* reference, those of HederaIssuer are numbered
    published,          \* number of commands published
    topic,              \* what a command asks for
    since,              \* the version of the invoice its request stored
    delivered,          \* commands whose outbox row is marked delivered
    deliveries,
    at,                 \* what each worker is about to do
    holds,              \* the command it claimed; none for an answer over HTTP
    copy,               \* the version of the invoice it read
    reference,          \* the assessment it read, by which the issuer shall know the request
    faults

config == <<workflow, issuer>>
rows   == <<invoice, assessments, asset>>
outbox == <<published, topic, since, delivered, deliveries>>
memory == <<at, holds, copy, reference>>
vars   == <<config, rows, minted, outbox, memory, faults>>

-------------------------------------------------------------------------------
(* The invoice *)

Statuses == {"DRAFT", "UPLOADED", "EXTRACTING", "ASSESSED", "APPROVED", "TOKENIZING",
             "TOKENIZED", "REJECTED", "FAILED"}
Topics == {"assess", "tokenize"}

Invoices == [status : Statuses, failedFrom : {"none", "EXTRACTING", "TOKENIZING"}, version : Nat]

\* The status in which an invoice waits for a command of a topic.
Waiting(t) == IF t = "assess" THEN "EXTRACTING" ELSE "TOKENIZING"

Moved(status) ==
    [status |-> status, failedFrom |-> invoice.failedFrom, version |-> invoice.version + 1]

Init ==
    /\ workflow \in Workflows /\ issuer \in Issuers
    /\ invoice = [status |-> "DRAFT", failedFrom |-> "none", version |-> 1]
    /\ assessments = 0 /\ asset = FALSE /\ minted = {}
    /\ published = 0 /\ delivered = {}
    /\ topic = [c \in Commands |-> "assess"] /\ since = [c \in Commands |-> 0]
    /\ deliveries = [c \in Commands |-> 0]
    /\ at = [w \in Workers |-> "idle"] /\ holds = [w \in Workers |-> NoCommand]
    /\ copy = [w \in Workers |-> 0] /\ reference = [w \in Workers |-> 0]
    /\ faults = 0

-------------------------------------------------------------------------------
(* Requests of the issuer and of operators: each is one transaction, and one that lost the *)
(* race for the invoice's version leaves nothing.                                          *)

AttachDocument ==
    /\ invoice.status = "DRAFT"
    /\ invoice' = Moved("UPLOADED")
    /\ UNCHANGED <<config, assessments, asset, minted, outbox, memory, faults>>

\* A failed stage is resumed where it failed.
\* Mutation: it is resumed anywhere.
MutResumeAnywhere(stage) == invoice.status = "FAILED"
MayResume(stage) == invoice.status = "FAILED" /\ invoice.failedFrom = stage

\* The state change and its command are committed together.
Enter(t) ==
    /\ published < MaxCommands
    /\ invoice' = [status |-> Waiting(t), failedFrom |-> "none", version |-> invoice.version + 1]
    /\ published' = published + 1
    /\ topic' = [topic EXCEPT ![published'] = t]
    /\ since' = [since EXCEPT ![published'] = invoice'.version]
    /\ UNCHANGED <<config, assessments, asset, minted, delivered, deliveries, memory, faults>>

RequestAssessment ==
    /\ invoice.status = "UPLOADED" \/ MayResume("EXTRACTING")
    /\ Enter("assess")

Approve ==
    /\ invoice.status = "ASSESSED"
    /\ assessments > 0
    /\ invoice' = Moved("APPROVED")
    /\ UNCHANGED <<config, assessments, asset, minted, outbox, memory, faults>>

RequestTokenization ==
    /\ invoice.status = "APPROVED" \/ MayResume("TOKENIZING")
    /\ Enter("tokenize")

Reject ==
    /\ invoice.status \in {"DRAFT", "UPLOADED", "ASSESSED", "FAILED"}
    /\ invoice' = Moved("REJECTED")
    /\ UNCHANGED <<config, assessments, asset, minted, outbox, memory, faults>>

-------------------------------------------------------------------------------
(* A worker: one command through AssessmentWorker.Handle or issuance.Worker.Handle, or one *)
(* answer through AssessmentWorker.Complete                                                *)

Topic(w) == IF holds[w] = NoCommand THEN "assess" ELSE topic[holds[w]]

Goto(w, label) == at' = [at EXCEPT ![w] = label]

\* The handler returned, or its process stopped.
Release(w) ==
    /\ Goto(w, "idle")
    /\ holds' = [holds EXCEPT ![w] = NoCommand]
    /\ copy' = [copy EXCEPT ![w] = 0]
    /\ reference' = [reference EXCEPT ![w] = 0]

\* FetchDue: a command that is not delivered yet may be claimed by several workers.
Claim(w, c) ==
    /\ at[w] = "idle"
    /\ c <= published /\ c \notin delivered
    /\ deliveries[c] < MaxDeliveries
    /\ deliveries' = [deliveries EXCEPT ![c] = @ + 1]
    /\ Goto(w, "claimed")
    /\ holds' = [holds EXCEPT ![w] = c]
    /\ UNCHANGED <<config, rows, minted, published, topic, since, delivered, copy, reference, faults>>

\* Whether the stage a command was published for has ended.
NotWaiting(w) == invoice.status # Waiting(Topic(w))

\* Handle reads the invoice; a command that finds it elsewhere has nothing to do, and one
\* whose workflow collects its own work leaves the invoice waiting for the answer.
Handle(w) ==
    /\ at[w] = "claimed"
    /\ \/ /\ NotWaiting(w)
          /\ Goto(w, "finished") /\ UNCHANGED copy
       \/ /\ ~NotWaiting(w)
          /\ \/ Topic(w) = "tokenize" /\ Goto(w, "looking")
             \/ Topic(w) = "assess" /\ workflow = "inline" /\ Goto(w, "working")
             \/ Topic(w) = "assess" /\ workflow = "elsewhere" /\ Goto(w, "finished")
          /\ copy' = [copy EXCEPT ![w] = invoice.version]
    /\ UNCHANGED <<config, rows, minted, outbox, holds, reference, faults>>

\* The confidential workflow delivers an answer to a waiting invoice.
Answer(w) ==
    /\ workflow = "elsewhere"
    /\ at[w] = "idle"
    /\ invoice.status = "EXTRACTING"
    /\ Goto(w, "working")
    /\ copy' = [copy EXCEPT ![w] = invoice.version]
    /\ UNCHANGED <<config, rows, minted, outbox, holds, reference, faults>>

\* issuance.Handle looks for an asset of the invoice before it mints one.
LookForAsset(w) ==
    /\ at[w] = "looking"
    /\ Goto(w, IF asset THEN "storing" ELSE "referring")
    /\ UNCHANGED <<config, rows, minted, outbox, holds, copy, reference, faults>>

\* The issuer shall know the request by the latest assessment; assessments are numbered as
\* they are stored.  Mutation: by the command that is being delivered.
MutCommandAsReference(w) == holds[w]
Reference(w) == assessments

ReadLatest(w) ==
    /\ at[w] = "referring"
    /\ Goto(w, IF assessments = 0 THEN "failing" ELSE "working")
    /\ reference' = [reference EXCEPT ![w] = Reference(w)]
    /\ UNCHANGED <<config, rows, minted, outbox, holds, copy, faults>>

\* Workflow, market snapshot and score.
Assess(w) ==
    /\ at[w] = "working" /\ Topic(w) = "assess"
    /\ Goto(w, "storing")
    /\ UNCHANGED <<config, rows, minted, outbox, holds, copy, reference, faults>>

\* LocalIssuer: the token is a hash of the invoice and the reference, and of nothing else.
MintLocal(w) ==
    /\ at[w] = "working" /\ Topic(w) = "tokenize" /\ issuer = "local"
    /\ minted' = minted \cup {reference[w]}
    /\ Goto(w, "storing")
    /\ UNCHANGED <<config, rows, outbox, holds, copy, reference, faults>>

\* HederaIssuer creates a token with every call and hands the reference to nobody; its
\* receipt may be lost.
NewToken ==
    LET unused == (1..MaxMints) \ minted
    IN  IF unused = {} THEN {} ELSE {CHOOSE n \in unused : TRUE}

MintLive(w) ==
    /\ at[w] = "working" /\ Topic(w) = "tokenize" /\ issuer = "live"
    /\ minted' = minted \cup NewToken
    /\ \/ Goto(w, "storing") /\ UNCHANGED faults
       \/ Goto(w, "failing") /\ faults < MaxFaults /\ faults' = faults + 1
    /\ UNCHANGED <<config, rows, outbox, holds, copy, reference>>

SameVersion(w) == invoice.version = copy[w]

\* commit and finish: the result, the invoice and, for a new one, the asset in one
\* transaction.  A conflict is returned as it is.
Store(w) ==
    /\ at[w] = "storing"
    /\ \/ /\ SameVersion(w)
          /\ IF Topic(w) = "assess"
             THEN /\ invoice' = Moved("ASSESSED")
                  /\ assessments' = assessments + 1
                  /\ UNCHANGED asset
             ELSE /\ invoice' = Moved("TOKENIZED")
                  /\ asset' = TRUE
                  /\ UNCHANGED assessments
          /\ Goto(w, "finished")
          /\ UNCHANGED <<holds, copy, reference>>
       \/ /\ ~SameVersion(w)
          /\ Release(w)
          /\ UNCHANGED rows
    /\ UNCHANGED <<config, minted, outbox, faults>>

\* The work fails: the assessment, the wallet, the workflow, the market or the issuer cannot be
\* reached, or their answer is refused.
WorkFails(w) ==
    /\ at[w] \in {"referring", "working"}
    /\ faults < MaxFaults /\ faults' = faults + 1
    /\ Goto(w, "failing")
    /\ UNCHANGED <<config, rows, minted, outbox, holds, copy, reference>>

\* The invoice or the asset cannot be read, the result cannot be stored, or the process
\* stops.
Interrupted(w) ==
    /\ at[w] # "idle"
    /\ faults < MaxFaults /\ faults' = faults + 1
    /\ Release(w)
    /\ UNCHANGED <<config, rows, minted, outbox>>

\* recordFailure reads the invoice again: it fails whatever round of the stage is waiting.
Failed == [status |-> "FAILED", failedFrom |-> invoice.status, version |-> invoice.version + 1]

RecordFailure(w) ==
    /\ at[w] = "failing"
    /\ invoice' = IF NotWaiting(w) THEN invoice ELSE Failed
    /\ Release(w)
    /\ UNCHANGED <<config, assessments, asset, minted, outbox, faults>>

\* Recording can fail, or lose a race; either way the handler returns the error.
\* Mutation: the error ends there.
MutSwallowed(w) == Goto(w, "finished") /\ UNCHANGED <<holds, copy, reference>>
ErrorReturned(w) == Release(w)

RecordingFails(w) ==
    /\ at[w] = "failing"
    /\ ErrorReturned(w)
    /\ UNCHANGED <<config, rows, minted, outbox, faults>>

\* The handler returned nil: the dispatcher marks the command delivered.
Finish(w) ==
    /\ at[w] = "finished"
    /\ delivered' = IF holds[w] = NoCommand THEN delivered ELSE delivered \cup {holds[w]}
    /\ Release(w)
    /\ UNCHANGED <<config, rows, minted, published, topic, since, deliveries, faults>>

-------------------------------------------------------------------------------

Step(w) ==
    \/ Handle(w) \/ LookForAsset(w) \/ ReadLatest(w)
    \/ Assess(w) \/ MintLocal(w) \/ MintLive(w) \/ Store(w)
    \/ RecordFailure(w) \/ Finish(w)

Next ==
    \/ AttachDocument \/ RequestAssessment \/ Approve \/ RequestTokenization \/ Reject
    \/ \E w \in Workers :
          \/ \E c \in Commands : Claim(w, c)
          \/ Step(w) \/ Answer(w)
          \/ WorkFails(w) \/ Interrupted(w) \/ RecordingFails(w)

Spec == Init /\ [][Next]_vars

\* The dispatcher polls and walks its batch to the end.  Nobody has to request a stage, approve
\* or reject an invoice, and nobody outside has to deliver an answer.
Fairness ==
    /\ \A w \in Workers : WF_vars(Step(w))
    /\ \A w \in Workers, c \in Commands : WF_vars(Claim(w, c))

FairSpec == Spec /\ Fairness

-------------------------------------------------------------------------------
(* Properties *)

Labels == {"idle", "claimed", "looking", "referring", "working", "storing", "failing",
           "finished"}

\* Types of the rows, the issuer's tokens, the commands and the workers' memory.
TypeOK ==
    /\ workflow \in Workflows /\ issuer \in Issuers
    /\ invoice \in Invoices
    /\ assessments \in Nat /\ asset \in BOOLEAN /\ minted \subseteq Nat
    /\ published \in 0..MaxCommands /\ topic \in [Commands -> Topics]
    /\ since \in [Commands -> Nat] /\ delivered \subseteq Commands
    /\ deliveries \in [Commands -> 0..MaxDeliveries]
    /\ at \in [Workers -> Labels] /\ holds \in [Workers -> Commands \cup {NoCommand}]
    /\ copy \in [Workers -> Nat] /\ reference \in [Workers -> Nat] /\ faults \in 0..MaxFaults

\* An invoice never sits in EXTRACTING or TOKENIZING with nothing on its way to move it
\* (RequestAssessment, RequestTokenization), whichever old command still comes back; an
\* assessment collected elsewhere is the workflow's to move.
WaitingHasCommand ==
    \A t \in Topics : invoice.status = Waiting(t) /\ ~(t = "assess" /\ workflow = "elsewhere") =>
        \E c \in 1..published : topic[c] = t /\ c \notin delivered

Assessed == invoice.status \in {"ASSESSED", "APPROVED", "TOKENIZING", "TOKENIZED"}

\* The stages happen in order and once, however often their commands are delivered: one
\* assessment, none before and none after the status says so; an asset exactly on a tokenized
\* invoice; no token for an invoice that was not assessed.
StagesInOrder ==
    /\ Assessed \/ (invoice.status = "FAILED" /\ invoice.failedFrom = "TOKENIZING") => assessments = 1
    /\ invoice.status \in {"DRAFT", "UPLOADED", "EXTRACTING"} => assessments = 0
    /\ assessments <= 1
    /\ asset <=> invoice.status = "TOKENIZED"
    /\ minted # {} => assessments = 1
    /\ asset => minted # {}

\* With an issuer whose token is a function of the reference (LocalIssuer.Issue), redelivery,
\* overlapping deliveries and retries after a failure never put two claims on one receivable:
\* every attempt, whichever command and version of the invoice it works for, refers to the same
\* assessment.
LocalTokenIsOne == issuer = "local" => \A s, t \in minted : s = t

\* The commands the platform carries out itself.
Own == {c \in Commands : c <= published /\ ~(topic[c] = "assess" /\ workflow = "elsewhere")}

\* The handlers keep the outbox's promise: whatever else has happened to the invoice since,
\* such a command is closed only when the round it was published for has ended.
Promise == INSTANCE Delivery WITH
    Events <- Commands,
    Works <- Commands,
    WorkOf <- [c \in Commands |-> c],
    published <- Own,
    done <- {c \in Own : invoice.version > since[c]},
    closed <- delivered \cap Own
ImplementsDelivery == Promise!Spec

\* A stage that is the platform's own to carry out ends, well or badly.
EveryStageEnds ==
    /\ invoice.status = "EXTRACTING" /\ workflow = "inline" ~> invoice.status # "EXTRACTING"
    /\ invoice.status = "TOKENIZING" ~> invoice.status # "TOKENIZING"

===============================================================================
