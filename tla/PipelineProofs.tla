---------------------------- MODULE PipelineProofs ----------------------------
(***************************************************************************)
(* Proofs about the way of a receivable to its token, for any number of     *)
(* workers, commands and faults.  The invariant hangs on versions: the      *)
(* version a request stored, and the version a worker read, are versions at *)
(* which the invoice waits for exactly that stage, so whatever moves the    *)
(* invoice ends the round and turns every older copy and command stale.     *)
(***************************************************************************)
EXTENDS Pipeline, TLAPS

Failing == invoice.status = "FAILED"

\* What the row says of the assessment, the asset and the token; LocalIssuer only ever hears of
\* the first assessment, because there is no second.
StageInv ==
    /\ StagesInOrder
    /\ Failing => invoice.failedFrom \in {"EXTRACTING", "TOKENIZING"}
    /\ Failing /\ invoice.failedFrom = "EXTRACTING" => assessments = 0
    /\ issuer = "local" => minted \subseteq {1}

\* A command belongs to one version of the invoice, and a waiting invoice to one command.
CommandInv ==
    /\ delivered \subseteq 1..published
    /\ \A c \in 1..published :
          /\ since[c] <= invoice.version
          /\ since[c] = invoice.version => invoice.status = Waiting(topic[c])
          /\ topic[c] = "tokenize" => assessments = 1
    /\ \A t \in Topics : invoice.status = Waiting(t) =>
          \E c \in 1..published : topic[c] = t /\ since[c] = invoice.version
    /\ \A c \in delivered \cap Own : invoice.version > since[c]

\* A copy that is still current is of a waiting invoice.
Reading == {"looking", "referring", "working", "storing"}

WorkerFacts(w) ==
    /\ holds[w] # NoCommand => holds[w] \in 1..published
    /\ at[w] = "idle" => holds[w] = NoCommand
    /\ at[w] \in {"claimed", "looking", "referring"} => holds[w] # NoCommand
    /\ at[w] \in {"looking", "referring"} => Topic(w) = "tokenize"
    /\ at[w] = "working" /\ Topic(w) = "tokenize" => reference[w] = 1
    /\ copy[w] <= invoice.version
    /\ at[w] \in Reading /\ copy[w] = invoice.version => invoice.status = Waiting(Topic(w))
    /\ at[w] = "storing" /\ Topic(w) = "tokenize" => minted # {}
    /\ at[w] = "finished" /\ holds[w] \in Own => invoice.version > since[holds[w]]

WorkerInv == \A w \in Workers : WorkerFacts(w)

IInv == TypeOK /\ StageInv /\ CommandInv /\ WorkerInv

-------------------------------------------------------------------------------

\* An uploaded document is still to come.
LEMMA InvInit == Init => IInv
  <1> SUFFICES ASSUME Init PROVE IInv
    OBVIOUS
  <1>1. TypeOK
    <2>1. invoice \in Invoices
      BY DEF Init, Invoices, Statuses
    <2>2. /\ topic \in [Commands -> Topics] /\ since \in [Commands -> Nat]
          /\ deliveries \in [Commands -> 0..MaxDeliveries]
      BY PipelineAssumption DEF Init, Topics
    <2>3. /\ at \in [Workers -> Labels] /\ copy \in [Workers -> Nat] /\ reference \in [Workers -> Nat]
          /\ holds \in [Workers -> Commands \cup {NoCommand}]
      BY DEF Init, Labels
    <2>4. /\ minted \subseteq Nat /\ published \in 0..MaxCommands /\ faults \in 0..MaxFaults
          /\ assessments \in Nat /\ delivered \subseteq Commands
      BY PipelineAssumption DEF Init
    <2> QED
      BY <2>1, <2>2, <2>3, <2>4 DEF Init, TypeOK
  <1>2. StageInv
    BY DEF Init, StageInv, StagesInOrder, Assessed, Failing
  <1>3. CommandInv
    BY DEF Init, CommandInv, Waiting, Topics
  <1>4. WorkerInv
    <2> SUFFICES ASSUME NEW w \in Workers PROVE WorkerFacts(w)
      BY DEF WorkerInv
    <2>1. at[w] = "idle" /\ holds[w] = NoCommand /\ copy[w] = 0 /\ invoice.version = 1
      BY DEF Init
    <2> QED
      BY <2>1 DEF WorkerFacts, Reading
  <1> QED
    BY <1>1, <1>2, <1>3, <1>4 DEF IInv

\* A step of the invoice ends a version.
LEMMA MovedIsAnInvoice ==
    ASSUME TypeOK, NEW status \in Statuses
    PROVE  /\ Moved(status) \in Invoices
           /\ Moved(status).status = status /\ Moved(status).failedFrom = invoice.failedFrom
           /\ Moved(status).version = invoice.version + 1
  <1>1. invoice \in Invoices
    BY DEF TypeOK
  <1> QED
    BY <1>1 DEF Invoices, Moved

\* Only a waiting stage fails.
LEMMA FailedIsAnInvoice ==
    ASSUME TypeOK, NEW w \in Workers, ~ NotWaiting(w)
    PROVE  /\ Failed \in Invoices
           /\ Failed.status = "FAILED" /\ Failed.failedFrom = invoice.status
           /\ Failed.version = invoice.version + 1
  <1>1. invoice.status \in {"EXTRACTING", "TOKENIZING"}
    BY DEF NotWaiting, Waiting
  <1>2. invoice \in Invoices
    BY DEF TypeOK
  <1> QED
    BY <1>1, <1>2 DEF Invoices, Failed, Statuses

\* A worker goes where it is sent, and the others stay.
LEMMA OthersStay ==
    ASSUME TypeOK, NEW w \in Workers, NEW label \in Labels, Goto(w, label)
    PROVE  /\ at' \in [Workers -> Labels] /\ at'[w] = label
           /\ \A v \in Workers \ {w} : at'[v] = at[v]
  BY DEF TypeOK, Goto

Unmoved(v) ==
    at'[v] = at[v] /\ holds'[v] = holds[v] /\ copy'[v] = copy[v] /\ reference'[v] = reference[v]

\* A worker that is released forgets what it held.
LEMMA Released ==
    ASSUME TypeOK, NEW w \in Workers, Release(w)
    PROVE  /\ at' \in [Workers -> Labels]
           /\ holds' \in [Workers -> Commands \cup {NoCommand}]
           /\ copy' \in [Workers -> Nat] /\ reference' \in [Workers -> Nat]
           /\ at'[w] = "idle" /\ holds'[w] = NoCommand /\ copy'[w] = 0
           /\ \A v \in Workers \ {w} : Unmoved(v)
  <1>1. "idle" \in Labels
    BY DEF Labels
  <1> QED
    BY <1>1, OthersStay DEF TypeOK, Release, Unmoved

\* HederaIssuer makes one token, or none that is counted.
LEMMA NewTokenIsANumber == NewToken \subseteq 1..MaxMints
  <1> DEFINE unused == (1..MaxMints) \ minted
  <1>1. CASE unused = {}
    BY <1>1 DEF NewToken
  <1>2. CASE unused # {}
    <2>1. (CHOOSE n \in unused : TRUE) \in unused
      BY <1>2
    <2> QED
      BY <1>2, <2>1 DEF NewToken
  <1> QED
    BY <1>1, <1>2

\* There is a token after an issuer was asked for one.
LEMMA MintMakesOne ==
    ASSUME TypeOK, NEW w \in Workers, MintLocal(w) \/ MintLive(w)
    PROVE  minted' # {}
  <1> DEFINE unused == (1..MaxMints) \ minted
  <1>1. CASE MintLocal(w)
    BY <1>1 DEF MintLocal
  <1>2. CASE MintLive(w) /\ unused = {}
    <2>1. 1 \in 1..MaxMints
      BY PipelineAssumption
    <2> QED
      BY <1>2, <2>1 DEF MintLive
  <1>3. CASE MintLive(w) /\ unused # {}
    BY <1>3 DEF MintLive, NewToken
  <1> QED
    BY <1>1, <1>2, <1>3

\* Types are kept by every step.
LEMMA TypeStep == IInv /\ [Next]_vars => TypeOK'
  <1> SUFFICES ASSUME IInv, [Next]_vars PROVE TypeOK'
    OBVIOUS
  <1> USE DEF config, rows, outbox, memory
  <1>t. TypeOK
    BY DEF IInv
  <1>l. {"idle", "claimed", "looking", "referring", "working", "storing", "failing", "finished"}
           \subseteq Labels
    BY DEF Labels
  <1>f. faults < MaxFaults => faults + 1 \in 0..MaxFaults
    BY <1>t, PipelineAssumption DEF TypeOK
  <1>1. CASE UNCHANGED vars
    BY <1>t, <1>1 DEF vars, TypeOK
  <1>2. CASE AttachDocument \/ Approve \/ Reject
    <2>1. invoice' \in Invoices
      BY <1>t, <1>2, MovedIsAnInvoice DEF AttachDocument, Approve, Reject, Statuses
    <2> QED
      BY <1>t, <1>2, <2>1 DEF AttachDocument, Approve, Reject, TypeOK
  <1>3. ASSUME NEW t \in Topics, Enter(t) PROVE TypeOK'
    <2>1. invoice' \in Invoices
      BY <1>t, <1>3 DEF Enter, TypeOK, Waiting, Statuses, Invoices
    <2>2. published' \in Commands
      BY <1>t, <1>3, PipelineAssumption DEF Enter, TypeOK, Commands
    <2>3. /\ published' \in 0..MaxCommands
          /\ topic' \in [Commands -> Topics] /\ since' \in [Commands -> Nat]
      BY <1>t, <1>3, <2>1, <2>2, PipelineAssumption DEF Enter, TypeOK, Invoices, Commands
    <2> QED
      BY <1>t, <1>3, <2>1, <2>2, <2>3 DEF Enter, TypeOK
  <1>4. ASSUME NEW w \in Workers, NEW c \in Commands, Claim(w, c) PROVE TypeOK'
    <2>1. at' \in [Workers -> Labels]
      BY <1>t, <1>4, <1>l, OthersStay DEF Claim
    <2>2. deliveries[c] + 1 \in 0..MaxDeliveries
      BY <1>t, <1>4, PipelineAssumption DEF Claim, TypeOK
    <2>3. /\ deliveries' \in [Commands -> 0..MaxDeliveries]
          /\ holds' \in [Workers -> Commands \cup {NoCommand}]
      BY <1>t, <1>4, <2>2 DEF Claim, TypeOK
    <2> QED
      BY <1>t, <1>4, <2>1, <2>3 DEF Claim, TypeOK
  <1>5. ASSUME NEW w \in Workers, Handle(w) \/ Answer(w) PROVE TypeOK'
    <2>1. at' \in [Workers -> Labels]
      BY <1>t, <1>5, <1>l DEF Handle, Answer, Goto, TypeOK
    <2>2. invoice.version \in Nat
      BY <1>t DEF TypeOK, Invoices
    <2>3. copy' \in [Workers -> Nat]
      BY <1>t, <1>5, <2>2 DEF Handle, Answer, TypeOK
    <2> QED
      BY <1>t, <1>5, <2>1, <2>3 DEF Handle, Answer, TypeOK
  <1>6. ASSUME NEW w \in Workers, LookForAsset(w) \/ Assess(w) \/ WorkFails(w) PROVE TypeOK'
    <2>1. at' \in [Workers -> Labels]
      BY <1>t, <1>6, <1>l DEF LookForAsset, Assess, WorkFails, Goto, TypeOK
    <2> QED
      BY <1>t, <1>6, <1>f, <2>1 DEF LookForAsset, Assess, WorkFails, TypeOK
  <1>10. ASSUME NEW w \in Workers, ReadLatest(w) PROVE TypeOK'
    <2>1. at' \in [Workers -> Labels] /\ reference' \in [Workers -> Nat]
      BY <1>t, <1>10, <1>l DEF ReadLatest, Reference, Goto, TypeOK
    <2> QED
      BY <1>t, <1>10, <2>1 DEF ReadLatest, TypeOK
  <1>7. ASSUME NEW w \in Workers, MintLocal(w) \/ MintLive(w) PROVE TypeOK'
    <2>1. at' \in [Workers -> Labels]
      BY <1>t, <1>7, <1>l DEF MintLocal, MintLive, Goto, TypeOK
    <2>2. minted' \subseteq Nat
      <3>1. reference[w] \in Nat /\ NewToken \subseteq Nat
        BY <1>t, NewTokenIsANumber, PipelineAssumption DEF TypeOK
      <3>2. minted' = minted \cup {reference[w]} \/ minted' = minted \cup NewToken
        BY <1>7 DEF MintLocal, MintLive
      <3> QED
        BY <1>t, <3>1, <3>2 DEF TypeOK
    <2> QED
      BY <1>t, <1>7, <1>f, <2>1, <2>2 DEF MintLocal, MintLive, TypeOK
  <1>8. ASSUME NEW w \in Workers, Store(w) PROVE TypeOK'
    <2>1. invoice' \in Invoices
      BY <1>t, <1>8, MovedIsAnInvoice DEF Store, TypeOK, Statuses
    <2>3. assessments' \in Nat
      BY <1>t, <1>8 DEF Store, TypeOK
    <2>4. asset' \in BOOLEAN
      BY <1>t, <1>8 DEF Store, TypeOK
    <2>2. /\ at' \in [Workers -> Labels]
          /\ holds' \in [Workers -> Commands \cup {NoCommand}]
          /\ copy' \in [Workers -> Nat] /\ reference' \in [Workers -> Nat]
      BY <1>t, <1>8, <1>l, OthersStay, Released DEF Store, TypeOK
    <2> QED
      BY <1>t, <1>8, <2>1, <2>2, <2>3, <2>4 DEF Store, TypeOK
  <1>9. ASSUME NEW w \in Workers,
               Interrupted(w) \/ RecordFailure(w) \/ RecordingFails(w) \/ Finish(w)
        PROVE  TypeOK'
    <2>1. Release(w)
      BY <1>9 DEF Interrupted, RecordFailure, RecordingFails, ErrorReturned, Finish
    <2>2. invoice' \in Invoices
      BY <1>t, <1>9, FailedIsAnInvoice
         DEF Interrupted, RecordFailure, RecordingFails, Finish, TypeOK
    <2>3. delivered' \subseteq Commands
      BY <1>t, <1>9 DEF Interrupted, RecordFailure, RecordingFails, Finish, TypeOK
    <2>4. faults' \in 0..MaxFaults
      BY <1>t, <1>9, <1>f DEF Interrupted, RecordFailure, RecordingFails, Finish, TypeOK
    <2> QED
      BY <1>t, <1>9, <2>1, <2>2, <2>3, <2>4, Released
         DEF Interrupted, RecordFailure, RecordingFails, Finish, TypeOK
  <1> QED
    BY <1>1, <1>2, <1>3, <1>4, <1>5, <1>6, <1>7, <1>8, <1>9, <1>10
       DEF Next, Step, RequestAssessment, RequestTokenization, Topics

-------------------------------------------------------------------------------

\* A worker on an issuance holds a published command, of an assessed invoice.
LEMMA IssuanceHasCommand ==
    ASSUME IInv, NEW w \in Workers, Topic(w) = "tokenize"
    PROVE  holds[w] \in 1..published /\ topic[holds[w]] = "tokenize" /\ assessments = 1
  <1>1. holds[w] # NoCommand /\ topic[holds[w]] = "tokenize"
    BY DEF Topic
  <1>2. holds[w] \in 1..published
    BY <1>1 DEF IInv, WorkerInv, WorkerFacts
  <1> QED
    BY <1>1, <1>2 DEF IInv, CommandInv

\* A worker whose copy is still current stores the stage the invoice waits for.
LEMMA StoresTheStage ==
    ASSUME IInv, NEW w \in Workers, at[w] = "storing", SameVersion(w)
    PROVE  /\ invoice.status = Waiting(Topic(w)) /\ Topic(w) \in Topics
           /\ Topic(w) = "tokenize" => minted # {}
  <1>1. Topic(w) \in Topics
    <2>1. topic \in [Commands -> Topics] /\ holds[w] \in Commands \cup {NoCommand}
      BY DEF IInv, TypeOK
    <2> QED
      BY <2>1 DEF Topic, Topics
  <1>2. WorkerFacts(w)
    BY DEF IInv, WorkerInv
  <1> QED
    BY <1>1, <1>2 DEF WorkerFacts, Reading, SameVersion

\* The stages happen in order and once.
LEMMA StageStep == IInv /\ [Next]_vars => StageInv'
  <1> SUFFICES ASSUME IInv, [Next]_vars PROVE StageInv'
    OBVIOUS
  <1> USE DEF config, rows, outbox, memory, StageInv, StagesInOrder, Assessed, Failing
  <1>s. StageInv /\ invoice \in Invoices /\ assessments \in Nat /\ minted \subseteq Nat
    BY DEF IInv, TypeOK
  <1>1. CASE UNCHANGED <<config, rows, minted>>
    BY <1>s, <1>1
  <1>2. CASE AttachDocument
    BY <1>s, <1>2 DEF AttachDocument, Moved
  <1>3. CASE Approve
    BY <1>s, <1>3 DEF Approve, Moved
  <1>4. CASE Reject
    BY <1>s, <1>4 DEF Reject, Moved
  <1>5. CASE RequestAssessment
    BY <1>s, <1>5 DEF RequestAssessment, MayResume, Enter, Waiting
  <1>6. CASE RequestTokenization
    BY <1>s, <1>6 DEF RequestTokenization, MayResume, Enter, Waiting
  <1>7. ASSUME NEW w \in Workers, MintLocal(w) \/ MintLive(w) PROVE StageInv'
    <2>1. assessments = 1
      BY <1>7, IssuanceHasCommand DEF MintLocal, MintLive
    <2>2. UNCHANGED <<config, rows>> /\ minted' # {}
      BY <1>7, MintMakesOne DEF MintLocal, MintLive, IInv
    <2>3. issuer = "local" => minted' \subseteq {1}
      <3> HAVE issuer = "local"
      <3>1. at[w] = "working" /\ Topic(w) = "tokenize" /\ minted' = minted \cup {reference[w]}
        BY <1>7 DEF MintLocal, MintLive
      <3>2. reference[w] = 1
        BY <3>1 DEF IInv, WorkerInv, WorkerFacts
      <3> QED
        BY <1>s, <3>1, <3>2
    <2> QED
      BY <1>s, <2>1, <2>2, <2>3
  <1>8. ASSUME NEW w \in Workers, Store(w), SameVersion(w) PROVE StageInv'
    <2>1. /\ invoice.status = Waiting(Topic(w)) /\ Topic(w) \in Topics
          /\ Topic(w) = "tokenize" => minted # {}
      BY <1>8, StoresTheStage DEF Store
    <2>2. CASE Topic(w) = "assess"
      <3>1. /\ invoice'.status = "ASSESSED" /\ assessments' = assessments + 1
            /\ UNCHANGED <<config, asset, minted>>
        BY <1>8, <2>2 DEF Store, Moved
      <3> QED
        BY <1>s, <2>1, <2>2, <3>1 DEF Waiting
    <2>3. CASE Topic(w) = "tokenize"
      <3>1. /\ invoice'.status = "TOKENIZED" /\ asset' = TRUE
            /\ UNCHANGED <<config, assessments, minted>>
        BY <1>8, <2>3 DEF Store, Moved
      <3> QED
        BY <1>s, <2>1, <2>3, <3>1 DEF Waiting
    <2> QED
      BY <2>1, <2>2, <2>3 DEF Topics
  <1>9. ASSUME NEW w \in Workers, RecordFailure(w), ~ NotWaiting(w) PROVE StageInv'
    <2>1. /\ invoice' = Failed /\ UNCHANGED <<config, assessments, asset, minted>>
          /\ invoice.status \in {"EXTRACTING", "TOKENIZING"}
      BY <1>9 DEF RecordFailure, NotWaiting, Waiting
    <2>2. invoice'.status = "FAILED" /\ invoice'.failedFrom = invoice.status
      BY <2>1 DEF Failed
    <2> QED
      BY <1>s, <2>1, <2>2
  <1>10. ASSUME NEW w \in Workers,
                \/ Handle(w) \/ Answer(w) \/ LookForAsset(w) \/ ReadLatest(w) \/ Assess(w)
                \/ WorkFails(w) \/ Interrupted(w) \/ RecordingFails(w) \/ Finish(w)
                \/ \E c \in Commands : Claim(w, c)
                \/ Store(w) /\ ~ SameVersion(w)
                \/ RecordFailure(w) /\ NotWaiting(w)
         PROVE  UNCHANGED <<config, rows, minted>>
    BY <1>10 DEF Handle, Answer, LookForAsset, ReadLatest, Assess, WorkFails, Interrupted,
       RecordingFails, Finish, Claim, Store, RecordFailure
  <1>11. CASE UNCHANGED vars
    BY <1>1, <1>11 DEF vars
  <1> QED
    BY <1>1, <1>2, <1>3, <1>4, <1>5, <1>6, <1>7, <1>8, <1>9, <1>10, <1>11 DEF Next, Step

-------------------------------------------------------------------------------

\* Every step leaves the invoice alone, or starts a round, or moves it to where no command is
\* waited for.
EndsRound ==
    /\ invoice'.version = invoice.version + 1
    /\ invoice'.status \notin {"EXTRACTING", "TOKENIZING"}
    /\ assessments = 1 => assessments' = 1
    /\ UNCHANGED <<workflow, published, topic, since, delivered>>

LEMMA RoundSteps ==
    ASSUME IInv, [Next]_vars
    PROVE  \/ UNCHANGED <<workflow, invoice, assessments, published, topic, since>>
           \/ RequestAssessment \/ RequestTokenization
           \/ EndsRound
  <1> USE DEF config, rows, outbox, memory
  <1>1. CASE AttachDocument
    BY <1>1 DEF AttachDocument, Moved, EndsRound
  <1>2. CASE Approve
    BY <1>2 DEF Approve, Moved, EndsRound
  <1>3. CASE Reject
    BY <1>3 DEF Reject, Moved, EndsRound
  <1>4. ASSUME NEW w \in Workers, Store(w), SameVersion(w) PROVE EndsRound
    <2>1. invoice.status = Waiting(Topic(w)) /\ Topic(w) \in Topics
      BY <1>4, StoresTheStage DEF Store
    <2>2. assessments = 1 => Topic(w) = "tokenize"
      BY <2>1 DEF Topics, Waiting, IInv, StageInv, StagesInOrder
    <2>3. /\ invoice' = Moved("ASSESSED") \/ invoice' = Moved("TOKENIZED")
          /\ Topic(w) = "tokenize" => assessments' = assessments
          /\ UNCHANGED <<workflow, published, topic, since, delivered>>
      BY <1>4 DEF Store
    <2> QED
      BY <2>2, <2>3 DEF Moved, EndsRound
  <1>5. ASSUME NEW w \in Workers, RecordFailure(w), ~ NotWaiting(w) PROVE EndsRound
    BY <1>5 DEF RecordFailure, Failed, EndsRound
  <1>6. ASSUME NEW w \in Workers,
               \/ Handle(w) \/ Answer(w) \/ LookForAsset(w) \/ ReadLatest(w) \/ Assess(w)
               \/ MintLocal(w) \/ MintLive(w)
               \/ WorkFails(w) \/ Interrupted(w) \/ RecordingFails(w) \/ Finish(w)
               \/ \E c \in Commands : Claim(w, c)
               \/ Store(w) /\ ~ SameVersion(w)
               \/ RecordFailure(w) /\ NotWaiting(w)
        PROVE  UNCHANGED <<workflow, invoice, assessments, published, topic, since>>
    BY <1>6 DEF Handle, Answer, LookForAsset, ReadLatest, Assess, MintLocal, MintLive, WorkFails,
       Interrupted, RecordingFails, Finish, Claim, Store, RecordFailure
  <1>7. CASE UNCHANGED vars
    BY <1>7 DEF vars
  <1> QED
    BY <1>1, <1>2, <1>3, <1>4, <1>5, <1>6, <1>7 DEF Next, Step

\* A command is closed by the worker that finished it.
LEMMA DeliveredSteps ==
    ASSUME [Next]_vars
    PROVE  \/ UNCHANGED delivered
           \/ \E w \in Workers : Finish(w) /\ holds[w] # NoCommand
  <1> USE DEF config, rows, outbox, memory
  <1> QED
    BY DEF Next, Step, vars, AttachDocument, RequestAssessment, RequestTokenization, Enter, Approve,
       Reject, Claim, Handle, Answer, LookForAsset, ReadLatest, Assess, MintLocal, MintLive, Store,
       WorkFails, Interrupted, RecordFailure, RecordingFails, Finish

\* A request is for the stage that the invoice then waits for, at a version of its own.
LEMMA RequestStep ==
    ASSUME IInv, RequestAssessment \/ RequestTokenization
    PROVE  \E t \in Topics :
              /\ Enter(t)
              /\ published' = published + 1 /\ published' \in Commands
              /\ invoice.status \notin {"EXTRACTING", "TOKENIZING"}
              /\ invoice'.status = Waiting(t) /\ invoice'.version = invoice.version + 1
              /\ topic'[published'] = t /\ since'[published'] = invoice'.version
              /\ \A c \in 1..published : topic'[c] = topic[c] /\ since'[c] = since[c]
              /\ t = "tokenize" => assessments = 1
              /\ UNCHANGED <<workflow, assessments, delivered, memory>>
  <1>1. PICK t \in Topics : /\ Enter(t)
                            /\ invoice.status \notin {"EXTRACTING", "TOKENIZING"}
                            /\ t = "tokenize" => assessments = 1
    BY DEF RequestAssessment, RequestTokenization, MayResume, Topics, IInv, StageInv, StagesInOrder,
       Assessed
  <1>2. published \in Nat /\ published' = published + 1 /\ published' \in Commands
    BY <1>1, PipelineAssumption DEF Enter, IInv, TypeOK, Commands
  <1>3. topic \in [Commands -> Topics] /\ since \in [Commands -> Nat]
    BY DEF IInv, TypeOK
  <1>4. \A c \in 1..published : c \in Commands /\ c # published'
    BY <1>2, PipelineAssumption DEF Commands
  <1>5. invoice'.status = Waiting(t) /\ invoice'.version = invoice.version + 1
    BY <1>1 DEF Enter
  <1>6. /\ topic' = [topic EXCEPT ![published'] = t]
        /\ since' = [since EXCEPT ![published'] = invoice'.version]
        /\ UNCHANGED <<workflow, assessments, delivered, memory>>
    BY <1>1 DEF Enter, config
  <1>7. /\ topic'[published'] = t /\ since'[published'] = invoice'.version
        /\ \A c \in 1..published : topic'[c] = topic[c] /\ since'[c] = since[c]
    BY <1>2, <1>3, <1>4, <1>6
  <1> QED
    BY <1>1, <1>2, <1>5, <1>6, <1>7

\* Commands keep to their versions, and a waiting invoice to its command.
LEMMA CommandStep == IInv /\ [Next]_vars => CommandInv'
  <1> SUFFICES ASSUME IInv, [Next]_vars PROVE CommandInv'
    OBVIOUS
  <1> USE DEF memory
  <1>c. CommandInv /\ published \in Nat /\ invoice.version \in Nat
    BY DEF IInv, TypeOK, Invoices
  <1>s. \A c \in 1..published : since[c] \in Nat
    <2>1. \A c \in 1..published : c \in Commands
      BY PipelineAssumption DEF Commands, IInv, TypeOK
    <2> QED
      BY <2>1 DEF IInv, TypeOK
  <1>1. CASE EndsRound
    <2>1. \A c \in 1..published : since[c] < invoice'.version
      BY <1>c, <1>s, <1>1 DEF CommandInv, EndsRound
    <2>2. \A t \in Topics : invoice'.status # Waiting(t)
      BY <1>1 DEF EndsRound, Waiting
    <2>3. \A c \in delivered' \cap Own' : c \in 1..published
      BY <1>c, <1>1 DEF CommandInv, EndsRound
    <2>4. \A c \in 1..published : since[c] <= invoice'.version /\ since[c] # invoice'.version
      BY <1>c, <1>s, <1>1, <2>1 DEF EndsRound
    <2>5. \A c \in 1..published : topic[c] = "tokenize" => assessments' = 1
      BY <1>c, <1>1 DEF CommandInv, EndsRound
    <2>6. \A c \in delivered' \cap Own' : invoice'.version > since[c]
      BY <1>c, <1>s, <1>1, <2>1, <2>3 DEF EndsRound
    <2> QED
      BY <1>c, <1>1, <2>2, <2>4, <2>5, <2>6 DEF CommandInv, EndsRound
  <1>2. CASE RequestAssessment \/ RequestTokenization
    <2>1. PICK t \in Topics :
              /\ published' = published + 1 /\ published' \in Commands
              /\ invoice.status \notin {"EXTRACTING", "TOKENIZING"}
              /\ invoice'.status = Waiting(t) /\ invoice'.version = invoice.version + 1
              /\ topic'[published'] = t /\ since'[published'] = invoice'.version
              /\ \A c \in 1..published : topic'[c] = topic[c] /\ since'[c] = since[c]
              /\ t = "tokenize" => assessments = 1
              /\ UNCHANGED <<workflow, assessments, delivered>>
      BY <1>2, RequestStep
    <2>2. \A c \in 1..published' : c \in 1..published \/ c = published'
      BY <1>c, <2>1
    <2>3. \A c \in 1..published : since'[c] <= invoice'.version /\ since'[c] # invoice'.version
      BY <1>c, <1>s, <2>1 DEF CommandInv
    <2>4. published' \in 1..published' /\ 1..published \subseteq 1..published'
      BY <1>c, <2>1
    <2>5. delivered' \subseteq 1..published'
      BY <1>c, <2>1, <2>4 DEF CommandInv
    <2>6. \A c \in 1..published' :
              /\ since'[c] <= invoice'.version
              /\ since'[c] = invoice'.version => invoice'.status = Waiting(topic'[c])
              /\ topic'[c] = "tokenize" => assessments' = 1
      BY <1>c, <2>1, <2>2, <2>3 DEF CommandInv
    <2>7. \A u \in Topics : invoice'.status = Waiting(u) => u = t
      BY <2>1 DEF Waiting, Topics
    <2>8. \A c \in delivered' \cap Own' : invoice'.version > since'[c]
      <3>1. \A c \in delivered' : c \in 1..published
        BY <1>c, <2>1 DEF CommandInv
      <3> QED
        BY <1>c, <1>s, <2>1, <2>3, <3>1
    <2> QED
      BY <2>1, <2>4, <2>5, <2>6, <2>7, <2>8 DEF CommandInv
  <1>3. CASE UNCHANGED <<workflow, invoice, assessments, published, topic, since>>
    <2>1. Own' = Own
      BY <1>3 DEF Own
    <2>2. CASE UNCHANGED delivered
      BY <1>c, <1>3, <2>1, <2>2 DEF CommandInv
    <2>3. ASSUME NEW w \in Workers, Finish(w), holds[w] # NoCommand PROVE CommandInv'
      <3>1. /\ delivered' = delivered \cup {holds[w]} /\ holds[w] \in 1..published
            /\ holds[w] \in Own => invoice.version > since[holds[w]]
        BY <2>3 DEF Finish, IInv, WorkerInv, WorkerFacts
      <3> QED
        BY <1>c, <1>3, <2>1, <3>1 DEF CommandInv
    <2> QED
      BY <2>2, <2>3, DeliveredSteps
  <1> QED
    BY <1>1, <1>2, <1>3, RoundSteps

-------------------------------------------------------------------------------

\* Tokens are not taken back.
LEMMA MintedStays == IInv /\ [Next]_vars => (minted # {} => minted' # {})
  <1> USE DEF config, rows, outbox, memory
  <1> SUFFICES ASSUME IInv, [Next]_vars, minted # {} PROVE minted' # {}
    OBVIOUS
  <1>2. ASSUME NEW w \in Workers, MintLocal(w) \/ MintLive(w) PROVE minted' # {}
    BY <1>2, MintMakesOne DEF IInv
  <1>3. CASE minted' = minted
    BY <1>3
  <1> QED
    BY <1>2, <1>3 DEF Next, Step, vars, AttachDocument, RequestAssessment, RequestTokenization,
       Enter, Approve, Reject, Claim, Handle, Answer, LookForAsset, ReadLatest, Assess, Store,
       WorkFails, Interrupted, RecordFailure, RecordingFails, Finish

\* Versions and commands only ever come on top.
Advance ==
    /\ published <= published' /\ invoice.version <= invoice'.version
    /\ invoice'.version = invoice.version => invoice' = invoice
    /\ workflow' = workflow
    /\ \A c \in 1..published :
          c \in 1..published' /\ topic'[c] = topic[c] /\ since'[c] = since[c]
    /\ minted # {} => minted' # {}

LEMMA AdvanceStep == IInv /\ [Next]_vars => Advance
  <1> SUFFICES ASSUME IInv, [Next]_vars PROVE Advance
    OBVIOUS
  <1>1. published \in Nat /\ invoice.version \in Nat
    BY DEF IInv, TypeOK, Invoices
  <1>2. CASE UNCHANGED <<workflow, invoice, assessments, published, topic, since>>
    BY <1>1, <1>2, MintedStays DEF Advance
  <1>3. CASE EndsRound
    BY <1>1, <1>3, MintedStays DEF Advance, EndsRound
  <1>4. CASE RequestAssessment \/ RequestTokenization
    <2>1. /\ published' = published + 1 /\ invoice'.version = invoice.version + 1
          /\ workflow' = workflow
          /\ \A c \in 1..published : topic'[c] = topic[c] /\ since'[c] = since[c]
      BY <1>4, RequestStep
    <2> QED
      BY <1>1, <2>1, MintedStays DEF Advance
  <1> QED
    BY <1>2, <1>3, <1>4, RoundSteps

\* A worker that does nothing keeps what it knows.
LEMMA BystanderKeeps ==
    ASSUME IInv, TypeOK', Advance, NEW w \in Workers,
           Unmoved(w)
    PROVE  WorkerFacts(w)'
  <1> USE DEF Unmoved
  <1>1. WorkerFacts(w) /\ copy[w] \in Nat /\ invoice.version \in Nat /\ published \in Nat
        /\ invoice'.version \in Nat
    BY DEF IInv, WorkerInv, TypeOK, Invoices
  <1>2. holds[w] # NoCommand =>
           /\ holds[w] \in 1..published
           /\ holds[w] \in 1..published' /\ topic'[holds[w]] = topic[holds[w]]
           /\ since'[holds[w]] = since[holds[w]]
    BY <1>1 DEF WorkerFacts, Advance
  <1>3. Topic(w)' = Topic(w)
    BY <1>2 DEF Topic
  <1>4. copy[w] <= invoice'.version
    BY <1>1 DEF WorkerFacts, Advance
  <1>5. holds[w] # NoCommand => since[holds[w]] \in Nat /\ (holds[w] \in Own' => holds[w] \in Own)
    <2>1. holds[w] \in Commands \cup {NoCommand} /\ since \in [Commands -> Nat]
      BY DEF IInv, TypeOK
    <2> QED
      BY <1>1, <1>2, <2>1 DEF Own, Advance
  <1>6. at[w] = "finished" /\ holds[w] \in Own' => invoice'.version > since[holds[w]]
    <2>1. NoCommand \notin Own'
      BY PipelineAssumption DEF Own, Commands
    <2> QED
      BY <1>1, <1>5, <2>1 DEF WorkerFacts, Advance
  <1>7. at[w] \in Reading /\ copy[w] = invoice'.version => invoice'.status = Waiting(Topic(w))
    BY <1>1 DEF WorkerFacts, Advance
  <1>8. /\ holds'[w] # NoCommand => holds'[w] \in 1..published'
        /\ at'[w] = "idle" => holds'[w] = NoCommand
        /\ at'[w] \in {"claimed", "looking", "referring"} => holds'[w] # NoCommand
        /\ copy'[w] <= invoice'.version
    BY <1>1, <1>2, <1>4 DEF WorkerFacts
  <1>9. /\ at'[w] \in {"looking", "referring"} => Topic(w)' = "tokenize"
        /\ at'[w] = "working" /\ Topic(w)' = "tokenize" => reference'[w] = 1
        /\ at'[w] = "storing" /\ Topic(w)' = "tokenize" => minted' # {}
        /\ at'[w] \in Reading /\ copy'[w] = invoice'.version
              => invoice'.status = Waiting(Topic(w)')
    BY <1>1, <1>3, <1>7 DEF WorkerFacts, Advance
  <1>10. at'[w] = "finished" /\ holds'[w] \in Own' => invoice'.version > since'[holds'[w]]
    <2>1. NoCommand \notin Own'
      BY PipelineAssumption DEF Own, Commands
    <2> QED
      BY <1>2, <1>6, <2>1
  <1> QED
    BY <1>4, <1>8, <1>9, <1>10 DEF WorkerFacts

\* A worker that was released knows nothing.
LEMMA ReleasedFacts ==
    ASSUME IInv, TypeOK', NEW w \in Workers, Release(w)
    PROVE  /\ WorkerFacts(w)'
           /\ \A v \in Workers \ {w} : Unmoved(v)
  <1>1. /\ at'[w] = "idle" /\ holds'[w] = NoCommand /\ copy'[w] = 0
        /\ \A v \in Workers \ {w} : Unmoved(v)
    BY Released DEF IInv
  <1>2. invoice'.version \in Nat
    BY DEF TypeOK, Invoices
  <1> QED
    BY <1>1, <1>2 DEF WorkerFacts, Reading

\* A step of a worker's own moves nobody else and leaves it knowing what it should.
Alone(w) ==
    /\ WorkerFacts(w)'
    /\ \A v \in Workers \ {w} : Unmoved(v)

\* Going on with the same command and the same copy, with the rows untouched.
LEMMA GoesOn ==
    ASSUME IInv, TypeOK', NEW w \in Workers, NEW label \in Labels, Goto(w, label),
           UNCHANGED <<invoice, published, topic, since, workflow, holds, copy>>,
           at[w] \in Reading, label \in {"referring", "working", "storing", "failing"},
           \A v \in Workers \ {w} : reference'[v] = reference[v],
           label = "referring" => Topic(w) = "tokenize" /\ holds[w] # NoCommand,
           label = "working" /\ Topic(w) = "tokenize" => reference'[w] = 1,
           label = "storing" /\ Topic(w) = "tokenize" => minted' # {}
    PROVE  Alone(w)
  <1>1. WorkerFacts(w)
    BY DEF IInv, WorkerInv
  <1>2. at'[w] = label /\ \A v \in Workers \ {w} : at'[v] = at[v]
    BY OthersStay DEF IInv
  <1>3. Topic(w)' = Topic(w)
    BY DEF Topic
  <1> QED
    BY <1>1, <1>2, <1>3 DEF WorkerFacts, Reading, Alone, Unmoved

LEMMA WorkerMoves ==
    ASSUME IInv, TypeOK', [Next]_vars, Advance
    PROVE  UNCHANGED memory \/ \E w \in Workers : Alone(w)
  <1> USE DEF config, rows, outbox, memory
  <1>l. {"idle", "claimed", "looking", "referring", "working", "storing", "failing", "finished"}
           \subseteq Labels
    BY DEF Labels
  <1>t. /\ TypeOK /\ invoice.version \in Nat /\ published \in Nat
        /\ \A w \in Workers : copy[w] \in Nat /\ WorkerFacts(w)
        /\ holds \in [Workers -> Commands \cup {NoCommand}] /\ copy \in [Workers -> Nat]
    BY DEF IInv, WorkerInv, TypeOK, Invoices
  <1>1. ASSUME NEW w \in Workers, NEW c \in Commands, Claim(w, c) PROVE Alone(w)
    <2>1. at'[w] = "claimed" /\ \A v \in Workers \ {w} : at'[v] = at[v]
      BY <1>1, <1>t, <1>l, OthersStay DEF Claim
    <2>2. holds'[w] = c /\ \A v \in Workers \ {w} : holds'[v] = holds[v]
      BY <1>1, <1>t DEF Claim
    <2>3. c \in 1..published /\ c # NoCommand
      BY <1>1, <1>t, PipelineAssumption DEF Claim, Commands
    <2> QED
      BY <1>1, <1>t, <2>1, <2>2, <2>3 DEF Claim, Alone, Unmoved, WorkerFacts, Reading
  <1>2. ASSUME NEW w \in Workers, Handle(w) PROVE Alone(w)
    <2>1. UNCHANGED <<invoice, published, topic, since, workflow, minted, holds, reference>>
      BY <1>2 DEF Handle
    <2>2. Topic(w)' = Topic(w) /\ Own' = Own
      BY <2>1 DEF Topic, Own
    <2>3. holds[w] \in 1..published /\ holds[w] # NoCommand /\ Topic(w) = topic[holds[w]]
      BY <1>2, <1>t DEF Handle, WorkerFacts, Topic
    <2>4. CASE NotWaiting(w)
      <3>1. at'[w] = "finished" /\ copy' = copy /\ \A v \in Workers \ {w} : at'[v] = at[v]
        BY <1>2, <1>t, <1>l, <2>4, OthersStay DEF Handle
      <3>2. invoice.version > since[holds[w]]
        <4>1. since[holds[w]] <= invoice.version /\ since[holds[w]] # invoice.version
          BY <2>3, <2>4 DEF NotWaiting, IInv, CommandInv
        <4>2. since[holds[w]] \in Nat
          BY <1>t, <2>3 DEF TypeOK
        <4> QED
          BY <1>t, <4>1, <4>2
      <3> QED
        BY <1>t, <2>1, <2>2, <2>3, <3>1, <3>2 DEF Alone, Unmoved, WorkerFacts, Reading
    <2>5. CASE ~ NotWaiting(w)
      <3>1. /\ copy'[w] = invoice.version /\ \A v \in Workers \ {w} : copy'[v] = copy[v]
            /\ invoice.status = Waiting(Topic(w))
        BY <1>2, <1>t, <2>5 DEF Handle, NotWaiting
      <3>2. PICK label \in {"looking", "working", "finished"} :
                /\ Goto(w, label)
                /\ label = "looking" <=> Topic(w) = "tokenize"
                /\ label = "finished" => Topic(w) = "assess" /\ workflow = "elsewhere"
        BY <1>2, <2>5 DEF Handle
      <3>3. at'[w] = label /\ \A v \in Workers \ {w} : at'[v] = at[v]
        BY <1>t, <1>l, <3>2, OthersStay
      <3>4. label = "finished" => holds[w] \notin Own
        BY <2>3, <3>2 DEF Own
      <3> QED
        BY <1>t, <2>1, <2>2, <2>3, <3>1, <3>2, <3>3, <3>4 DEF Alone, Unmoved, WorkerFacts, Reading
    <2> QED
      BY <2>4, <2>5
  <1>3. ASSUME NEW w \in Workers, Answer(w) PROVE Alone(w)
    <2>1. /\ UNCHANGED <<invoice, published, topic, since, workflow, minted, holds, reference>>
          /\ invoice.status = "EXTRACTING" /\ holds[w] = NoCommand
      BY <1>3, <1>t DEF Answer, WorkerFacts
    <2>2. at'[w] = "working" /\ \A v \in Workers \ {w} : at'[v] = at[v]
      BY <1>3, <1>t, <1>l, OthersStay DEF Answer
    <2>3. copy'[w] = invoice.version /\ \A v \in Workers \ {w} : copy'[v] = copy[v]
      BY <1>3, <1>t DEF Answer
    <2>4. Topic(w)' = "assess"
      BY <2>1 DEF Topic
    <2> QED
      BY <1>t, <2>1, <2>2, <2>3, <2>4 DEF Alone, Unmoved, WorkerFacts, Reading, Waiting
  <1>4. ASSUME NEW w \in Workers, LookForAsset(w) PROVE Alone(w)
    <2>1. asset => minted # {}
      BY DEF IInv, StageInv, StagesInOrder
    <2>2. PICK label \in {"referring", "storing"} :
              Goto(w, label) /\ (label = "storing" => minted' # {})
      BY <1>4, <2>1 DEF LookForAsset
    <2>3. Topic(w) = "tokenize" /\ holds[w] # NoCommand
      BY <1>4, <1>t DEF LookForAsset, WorkerFacts
    <2> QED
      BY <1>4, <1>l, <2>2, <2>3, GoesOn DEF LookForAsset, Reading
  <1>11. ASSUME NEW w \in Workers, ReadLatest(w) PROVE Alone(w)
    <2>1. assessments = 1
      BY <1>11, <1>t, IssuanceHasCommand DEF ReadLatest, WorkerFacts
    <2>2. /\ Goto(w, "working") /\ reference'[w] = 1
          /\ \A v \in Workers \ {w} : reference'[v] = reference[v]
      BY <1>11, <1>t, <2>1 DEF ReadLatest, Reference, TypeOK
    <2> QED
      BY <1>11, <1>l, <2>2, GoesOn DEF ReadLatest, Reading
  <1>5. ASSUME NEW w \in Workers, Assess(w) PROVE Alone(w)
    BY <1>5, <1>l, GoesOn DEF Assess, Reading
  <1>6. ASSUME NEW w \in Workers, MintLocal(w) \/ MintLive(w) PROVE Alone(w)
    <2>1. minted' # {}
      BY <1>6, MintMakesOne DEF IInv
    <2>2. PICK label \in {"storing", "failing"} : Goto(w, label)
      BY <1>6 DEF MintLocal, MintLive
    <2>3. UNCHANGED <<invoice, published, topic, since, workflow, holds, copy, reference>>
          /\ at[w] \in Reading
      BY <1>6 DEF MintLocal, MintLive, Reading
    <2> QED
      BY <1>l, <2>1, <2>2, <2>3, GoesOn
  <1>7. ASSUME NEW w \in Workers, Store(w) PROVE Alone(w)
    <2>1. CASE SameVersion(w)
      <3>1. UNCHANGED <<published, topic, since, workflow, holds, copy, reference, minted>>
        BY <1>7, <2>1 DEF Store
      <3>2. at'[w] = "finished" /\ \A v \in Workers \ {w} : at'[v] = at[v]
        BY <1>7, <1>t, <1>l, <2>1, OthersStay DEF Store
      <3>3. invoice'.version = invoice.version + 1
        BY <1>7, <2>1 DEF Store, Moved
      <3>4. holds[w] \in Own' => since[holds[w]] <= invoice.version /\ since[holds[w]] \in Nat
        <4>1. holds[w] \in Own' => holds[w] \in 1..published /\ holds[w] \in Commands
          BY <1>t, <3>1, PipelineAssumption DEF Own, Commands, WorkerFacts
        <4> QED
          BY <1>t, <4>1 DEF IInv, CommandInv, TypeOK
      <3> QED
        BY <1>t, <3>1, <3>2, <3>3, <3>4 DEF Alone, Unmoved, WorkerFacts, Reading
    <2>2. CASE ~ SameVersion(w)
      BY <1>7, <2>2, ReleasedFacts DEF Store, Alone
    <2> QED
      BY <2>1, <2>2
  <1>8. ASSUME NEW w \in Workers, WorkFails(w) PROVE Alone(w)
    BY <1>8, <1>l, GoesOn DEF WorkFails, Reading
  <1>9. ASSUME NEW w \in Workers,
               Interrupted(w) \/ RecordFailure(w) \/ RecordingFails(w) \/ Finish(w)
        PROVE  Alone(w)
    BY <1>9, ReleasedFacts
       DEF Interrupted, RecordFailure, RecordingFails, ErrorReturned, Finish, Alone
  <1>10. CASE \/ UNCHANGED vars \/ AttachDocument \/ Approve \/ Reject
              \/ RequestAssessment \/ RequestTokenization
    BY <1>10 DEF vars, AttachDocument, Approve, Reject, RequestAssessment, RequestTokenization,
       Enter
  <1> QED
    BY <1>1, <1>2, <1>3, <1>4, <1>5, <1>6, <1>7, <1>8, <1>9, <1>10, <1>11 DEF Next, Step

\* Workers know what they should after every step.
LEMMA WorkerStep == IInv /\ [Next]_vars => WorkerInv'
  <1> SUFFICES ASSUME IInv, [Next]_vars, NEW v \in Workers PROVE WorkerFacts(v)'
    BY DEF WorkerInv
  <1>1. TypeOK' /\ Advance
    BY TypeStep, AdvanceStep
  <1>2. CASE UNCHANGED memory
    BY <1>1, <1>2, BystanderKeeps DEF memory, Unmoved
  <1>3. ASSUME NEW w \in Workers, Alone(w) PROVE WorkerFacts(v)'
    <2>1. CASE v = w
      BY <1>3, <2>1 DEF Alone
    <2>2. CASE v # w
      <3>1. Unmoved(v)
        BY <1>3, <2>2 DEF Alone
      <3> QED
        BY <1>1, <3>1, BystanderKeeps
    <2> QED
      BY <2>1, <2>2
  <1> QED
    BY <1>1, <1>2, <1>3, WorkerMoves

-------------------------------------------------------------------------------
(* The theorems *)

\* The invariant holds of every reachable state of the pipeline.
THEOREM StageInvariant == Spec => []IInv
  <1>1. IInv /\ [Next]_vars => IInv'
    BY TypeStep, StageStep, CommandStep, WorkerStep DEF IInv
  <1> QED
    BY <1>1, InvInit, PTL DEF Spec

\* Rows, tokens, commands and workers' memory keep their types.
THEOREM TypeCorrect == Spec => []TypeOK
  BY StageInvariant, PTL DEF IInv

\* An invoice never waits for the platform with no command left to move it (RequestAssessment,
\* RequestTokenization).
THEOREM WaitingIsServed == Spec => []WaitingHasCommand
  <1>1. IInv => WaitingHasCommand
    <2> SUFFICES ASSUME IInv, NEW t \in Topics, invoice.status = Waiting(t),
                        ~(t = "assess" /\ workflow = "elsewhere")
                 PROVE  \E c \in 1..published : topic[c] = t /\ c \notin delivered
      BY DEF WaitingHasCommand
    <2>1. PICK c \in 1..published : topic[c] = t /\ since[c] = invoice.version
      BY DEF IInv, CommandInv
    <2>2. c \in Commands /\ c <= published /\ since[c] \in Nat
      BY PipelineAssumption DEF IInv, TypeOK, Commands
    <2>3. c \in Own
      BY <2>1, <2>2 DEF Own
    <2>4. c \in delivered => invoice.version > since[c]
      BY <2>3 DEF IInv, CommandInv
    <2> QED
      BY <2>1, <2>2, <2>4
  <1> QED
    BY <1>1, StageInvariant, PTL

\* One assessment, one asset and no token before its time, however often commands are
\* delivered.
THEOREM StagesAreInOrder == Spec => []StagesInOrder
  <1>1. IInv => StagesInOrder
    BY DEF IInv, StageInv
  <1> QED
    BY <1>1, StageInvariant, PTL

\* However often its issuance is delivered, overlapped, failed and requested anew, every request
\* LocalIssuer.Issue hears for a receivable carries the one assessment it ever gets, and so
\* names one token.
THEOREM LocalIssuerMintsOnce == Spec => []LocalTokenIsOne
  <1>1. IInv => LocalTokenIsOne
    BY DEF IInv, StageInv, LocalTokenIsOne
  <1> QED
    BY <1>1, StageInvariant, PTL

-------------------------------------------------------------------------------
(* The handlers keep the promise of Delivery *)

Done == {c \in Own : invoice.version > since[c]}

\* Every step of the pipeline is a step of Delivery or changes nothing Delivery sees.
LEMMA PipelineStep == IInv /\ [Next]_vars => [Promise!Next]_(Promise!vars)
  <1> SUFFICES ASSUME IInv, [Next]_vars PROVE Promise!Next \/ UNCHANGED Promise!vars
    OBVIOUS
  <1> USE DEF memory
  <1>o. Own \subseteq Commands /\ \A c \in Own : c \in 1..published
    BY PipelineAssumption DEF Own, Commands, IInv, TypeOK
  <1>c. /\ CommandInv /\ published \in Nat /\ invoice.version \in Nat
        /\ \A c \in Own : since[c] \in Nat
    BY <1>o DEF IInv, TypeOK, Invoices
  <1>1. CASE EndsRound
    <2>1. Own' = Own /\ delivered' = delivered
      BY <1>1 DEF EndsRound, Own
    <2>2. Done' = Own
      <3>1. \A c \in Own : invoice'.version > since'[c]
        BY <1>c, <1>o, <1>1 DEF CommandInv, EndsRound
      <3> QED
        BY <2>1, <3>1 DEF Done
    <2>3. PICK events \in SUBSET Commands : events = Own
      BY <1>o
    <2>4. events \subseteq {[x \in Commands |-> x][c] : c \in Own}
      BY <2>3
    <2>5. Promise!Perform(events)
      BY <2>1, <2>2, <2>3, <2>4 DEF Promise!Perform, Done
    <2> QED
      BY <2>3, <2>5 DEF Promise!Next
  <1>2. CASE RequestAssessment \/ RequestTokenization
    <2>1. PICK t \in Topics :
              /\ published' = published + 1 /\ published' \in Commands
              /\ invoice.status \notin {"EXTRACTING", "TOKENIZING"}
              /\ invoice'.version = invoice.version + 1
              /\ topic'[published'] = t /\ since'[published'] = invoice'.version
              /\ \A c \in 1..published : topic'[c] = topic[c] /\ since'[c] = since[c]
              /\ UNCHANGED <<workflow, delivered>>
      BY <1>2, RequestStep
    <2> DEFINE new == Own' \ Own
    <2>2. \A c \in Own' : c \in Own \/ c = published'
      BY <1>c, <2>1, PipelineAssumption DEF Own, Commands
    <2>3. Own \subseteq Own' /\ new \in SUBSET Commands
      <3>1. ASSUME NEW c \in Own PROVE c \in Own'
        <4>1. c \in Commands /\ c \in 1..published /\ topic'[c] = topic[c] /\ c <= published'
          BY <1>c, <1>o, <2>1
        <4> QED
          BY <2>1, <4>1 DEF Own
      <3> QED
        BY <3>1 DEF Own
    <2>4. \A c \in Own : invoice.version > since[c]
      BY <1>c, <1>o, <2>1 DEF CommandInv, Waiting
    <2>5. \A c \in Own : invoice'.version > since'[c]
      BY <1>c, <1>o, <2>1, <2>4
    <2>6. \A c \in new : ~(invoice'.version > since'[c])
      BY <1>c, <2>1, <2>2
    <2>7. Done' = Done
      BY <2>3, <2>4, <2>5, <2>6 DEF Done
    <2>8. delivered' \cap Own' = delivered \cap Own
      <3>1. published' \notin delivered
        BY <1>c, <2>1 DEF CommandInv
      <3> QED
        BY <2>1, <2>2, <2>3, <3>1
    <2>9. Promise!Publish(new)
      BY <2>3, <2>7, <2>8 DEF Promise!Publish, Done
    <2> QED
      BY <2>3, <2>9 DEF Promise!Next
  <1>3. CASE UNCHANGED <<workflow, invoice, assessments, published, topic, since>>
    <2>1. Own' = Own /\ Done' = Done
      BY <1>3 DEF Own, Done
    <2>2. CASE delivered' \cap Own = delivered \cap Own
      BY <2>1, <2>2 DEF Promise!vars, Done
    <2>3. ASSUME NEW w \in Workers, Finish(w), holds[w] \in Own \ delivered
          PROVE  Promise!Next
      <3>1. delivered' = delivered \cup {holds[w]} /\ invoice.version > since[holds[w]]
        BY <1>o, <2>3, PipelineAssumption DEF Finish, IInv, WorkerInv, WorkerFacts, Commands
      <3>2. Promise!Close(holds[w])
        BY <1>o, <2>1, <2>3, <3>1 DEF Promise!Close, Done
      <3> QED
        BY <1>o, <2>3, <3>2 DEF Promise!Next
    <2>4. ASSUME NEW w \in Workers, Finish(w), holds[w] # NoCommand, holds[w] \notin Own \ delivered
          PROVE  delivered' \cap Own = delivered \cap Own
      BY <2>4 DEF Finish
    <2> QED
      BY <2>2, <2>3, <2>4, DeliveredSteps
  <1> QED
    BY <1>1, <1>2, <1>3, RoundSteps

\* A command the platform carries out itself is closed only after its round has ended
\* (AssessmentWorker.Handle, issuance.Worker.Handle).
THEOREM PipelineKeepsThePromise == Spec => ImplementsDelivery
  <1>1. Init => Promise!Init
    <2> SUFFICES ASSUME Init PROVE Promise!Init
      OBVIOUS
    <2>1. Own = {}
      BY DEF Init, Own, Commands
    <2> QED
      BY <2>1 DEF Init, Promise!Init
  <1> QED
    BY <1>1, PipelineStep, StageInvariant, PTL DEF Spec, ImplementsDelivery, Promise!Spec
===============================================================================
