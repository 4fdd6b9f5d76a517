# FactorFlow: formal specifications

FactorFlow finances invoices.  A company uploads a receivable, the platform assesses and
tokenizes it, sells fractions of it to investors in a sealed-bid batch auction, settles each
allocation as a transfer on Hedera, and divides what the debtor finally pays over the
holders.  The program is one Go service over PostgreSQL; its background work runs through a
transactional outbox.

These modules describe the parts of it whose correctness depends on an order of events:
several processes, redelivered commands, transactions at READ COMMITTED, a chain that
answers late or not at all, crashes between two steps; and the algorithms whose correctness a
table of examples does not show: the clearing of a batch, the division of a payment, the price
of a receivable.  TLC checks them on small instances; TLAPS proves every safety property the
runs check, of the eleven modules they are about, for every instance.

* [1. The system](#1-the-system)
* [2. Modules](#2-modules)
* [3. Runs](#3-runs)
* [4. Fairness](#4-fairness)
* [5. Proofs](#5-proofs)
* [6. Where the code and its documentation part](#6-where-the-code-and-its-documentation-part)
* [7. Not modelled](#7-not-modelled)

## 1. The system

`cmd/factorflow/main.go` wires everything into one process: an HTTP server, and one
goroutine that runs the outbox dispatcher.  Several such processes share the database during
a rolling restart, and the outbox is written for that (`outbox.go:76-78`).  All transactions
run at READ COMMITTED (`postgres.InTx`); aggregates carry a version and are written with
`UPDATE ... WHERE version = $n`.

| Component | State it keeps | Operations | What makes it correct |
|---|---|---|---|
| **Settlement saga** `internal/settlement`, `app/marketplace/settlement*.go` | `settlements` rows (state, transaction id, version), the auction's and the invoice's status, `LocalExecutor`'s in-memory ledger | `SettleAuction`; the worker's `Handle`, `submit`, `confirmConsensus`, `confirmMirror`, `account`, `recordFailure` | one transfer per allocation; the books follow the chain; transfer, receivable and batch move together; every planned transfer gets there |
| **Outbox** `platform/outbox` | `outbox_events` (attempts, `available_at`, `delivered_at`), a dispatcher's claimed copies | `Publish`, `FetchDue`, `RunOnce`, `MarkDelivered`, `Reschedule`, `Retry` | nothing closed before it is done, nothing lost, nothing stalled by a broken event |
| **Idempotency middleware** `platform/idempotency` | `idempotency_keys` | `Reserve`, `Get`, `Complete`, `Release` around a handler | the work of a key is done once; retries are told the same, about the same request |
| **Collections** `app/collections`, `redemption` | `repayments`, `repayment_shares`, invoice status | `Record`, `Default`, `Distribute` | holders are exactly the buyers who hold; shares add up to what was paid; a payment reported twice is recorded once |
| **Marketplace** `app/marketplace/service.go`, `auction` | auctions, lots, bids, allocations, certificate, invoice status | `OpenAuction`, `PlaceBid`, `CancelBid`, `ClearAuction`, `CancelAuction`, `SettleAuction` | an asset is in one open batch; a cleared batch is the solution of the bids it names; invoices and batch agree |
| **Auction solver and verifier** `auction/solver*.go`, `mincostflow.go`, `verifier.go` | none outside one call | `Clear`, `Verify` | limits, minima and capacities hold; the search ends; rounding breaks no limit |
| **Invoice lifecycle** `invoice` | `invoices` (status, `FailedFrom`, fingerprint, version), documents | commands of `commands.go`, `Create`, `AttachDocument` | no stage is skipped or repeated; one claim is not financed twice |
| **Documents** `app/documents`, `platform/objects` | ciphertexts by a key that holds their digest | `Upload`, `Fetch` | row and object belong together |
| **Assessment** `app/assessment`, **Issuance** `app/issuance`, `tokenization` | invoice status, assessment, asset row, token at the issuer | outbox handlers, `Complete`, `recordFailure`, manual retry | one assessment and one token per invoice; failures can be retried |
| **Confidential queue** `app/confidential`, **CRE workflow** `cre-workflows/invoice-risk-go` | invoices in EXTRACTING; the workflow keeps nothing | `Next`, `Deliver`; `onSchedule` | what can be read is answered; an answer is of the document it names and lands once |
| **Risk** `risk`, **Market data** `marketdata`, **Money** `platform/money` | none | `Assess`, `Price`, `Normalize`; amounts and rates | more risk never means a better price; a thin market moves nothing; rounding |
| **x402 payments** `payments` | `x402_requests`, the facilitator's ledger | `Quote`, `Redeem` | a payment buys the quoted work, and what was paid for is handed over |
| **Identity** `identity`, **Organizations** `organization`, `app/onboarding`, console commands of `cmd/factorflow` | challenges, sessions, organizations, accounts on the network | `Challenge`, `Verify`, `Resolve`, `Logout`; `Register`, `Approve`, `Reject`; `make-operator`, `chain-accounts` | a challenge buys one thing; a decision stays; an account is for good |
| Paid agent services, reporting, demo, HTTP plumbing, audit, config, web | - | I/O, reading and wiring | - |

How they interact:

* A handler changes rows and **publishes** an outbox event in the same transaction; the
  dispatcher later **delivers** it to `AssessmentWorker`, `issuance.Worker` or
  `SettlementWorker`.  A handler that returns an error is called again after a backoff.
* `SettleAuction` publishes one command per allocation; `SettlementWorker` calls the **chain**
  through `RoutedExecutor` (the network for buyers with an account, an in-memory ledger for
  the others), and its last step writes settlement, invoice and auction together.
* `collections` reads the **settlements** to find the holders, and moves the same **invoice**.
* The marketplace takes **invoices** at TOKENIZED, hands the lots and the active **bids** of a batch
  to the solver inside one transaction, and leaves ALLOCATED invoices to the saga.
* The confidential workflow **polls** for work and posts its answer to `AssessmentWorker.Complete`;
  nothing marks the work as taken.
* A paid endpoint runs the work **between** the facilitator's verdict and its settlement; every
  change of the row is a transaction of its own.
* An actor's rights are **read once** per request, and the console commands write the same rows
  from a process of their own.
* The idempotency middleware stands in front of every write route for signed-in callers and
  shares nothing with the handler behind it: its claim, the handler's work and the outcome
  are three transactions.

Hard behaviours, each listed at its line under `hazards` in `PROJECT.json`: a chain call
followed by a database write; a claim that ends before the work it claimed; copies read
outside a transaction and written later; rows read without a lock in a transaction that
writes another row; errors that carry the very value that must not be lost; outcomes written
with a context that may be cancelled; work with no claim on it; searches in which one repair
may undo another, and divisions that leave a remainder.

## 2. Modules

| Module | What it is |
|---|---|
| `Settlement` | the saga of one cleared batch, its workers, the chain and the collections desk |
| `Delivery` | what the outbox promises to whoever publishes: the abstract specification |
| `Outbox` | the outbox table and its dispatchers, one action per statement that commits |
| `Pipeline` | one receivable from upload to token: its status, the assessment and issuance handlers, the confidential answer, the issuer |
| `Idempotency` | one key of the idempotency store and the requests that carry it |
| `Marketplace` | batches, bids and receivables under concurrent requests, with any clearing the solver may return |
| `Flow`, `Clearing` | min-cost flow, and one call of `Solver.Clear` around it |
| `Collections` | one receivable at maturity: the payment, its division, the default |
| `Payments` | quotes, payments and redemptions of the paid endpoints |
| `Access` | challenges, sessions, organizations and the console commands |
| `Market`, `Risk`, `Evidence` | pure: a snapshot from lending rates, a score and a price from evidence, evidence from a document |
| `Intake` | receivables from creation to approval, composing the three with the confidential workflow |
| `Money`, `Sums` | rounding half to even, and sums over a finite set: what the pure parts share |
| `SettlementProofs`, `PipelineProofs`, `PaymentsProofs`, `CollectionsProofs` | theorems about those four |
| `PlatformProofs` | theorems about `Access`, `Idempotency` and `Outbox` |
| `AuctionProofs` | theorems about `Marketplace`, `Flow` and `Clearing` |
| `IntakeProofs` | theorems about `Intake`, `Risk` and `Market` |
| `SumProofs` | what sums, least numbers, roundings and recursive functions are; `AuctionProofs`, `IntakeProofs` and `CollectionsProofs` rest on it |
| `MC...` | instances for TLC |

`Delivery` is implemented three times.  `Outbox` implements it directly.  `Settlement` and
`Pipeline` do not compose with `Outbox`: a worker there claims any undelivered command it
likes, any number of times up to `MaxDeliveries`, which is all a handler may assume of the
outbox.  Each says what the work of a command is (`Works`, `WorkOf`): for the outbox the event's own,
for `Settlement` the plan, done when it is in the books, and several commands may ask for it,
even one published when it is done already; for `Pipeline` the round of the stage, done when it
has ended.  So the outbox's half (a command is closed only when its handler returned nil) and
the handlers' half (they return nil only when that much is done) meet in one specification.

### Settlement

| In the module | In the code |
|---|---|
| `plan[p]`, `auction`, `invoice`, `holders` | the rows of `settlements`, `auctions`, `invoices`, `repayments` |
| `queued`, `delivered`, `deliveries` | settle commands in the outbox |
| `chain[p][k]`, `ledger[w]` | what became of the k-th transaction submitted for a plan; `LocalExecutor`'s map in process `w` |
| `pc`, `holds`, `seen`, `receipt`, `decided` | the stack of a dispatcher inside `SettlementWorker.Handle`: the command, the plan as read, the id the chain returned, what the accounting transaction read |
| `PlanTransfers` | `SettleAuction`, the first call: plans, status and commands in one transaction |
| `existing`, `ListExisting`, `QueueSettlements`, `SettleFails` | `SettleAuction`, a later call: the unfinished plans as it read them, unlocked; the commit that publishes a command for each; the transaction that leaves none |
| `Claim`, `MarkDelivered` | the dispatcher around the handler |
| `Handle`, `TransferOnChain`, `TransferInProcess`, `StoreSubmission`, `ConfirmConsensus`, `ConfirmMirror`, `NotYetVisible` | `Handle`, `advance`, `submit`, `confirmConsensus`, `confirmMirror` |
| `ReadAccounts`, `CommitAccounts` | `account`, with `finishInvoice` and `finishAuction`: its reads, then its commit |
| `StepFails`, `StoreFails`, `RecordFailure`, `RecordingFails`, `Crash` | errors, `recordFailure`, a process that stops |
| `Decide` | the network |
| `ReadHolders`, `CommitRepayment`, `Default` | `collections.Record`, `collections.Default` |

One step is one committed transaction or one chain call.  `account`, `Record` and a repeated
`SettleAuction` read rows they do not lock before they write others, so they are two steps each.  A version is a
counter of the row; only the comparisons the code makes appear.  The status of an invoice or
an auction stands for its version because neither returns to a status it left within a saga.
The notional, the wallets and the price are left out: nothing the properties say depends on
them.  A batch is CLEARED when the model starts; `CancelAuction`, which may take a CLEARED
batch away, is in `Marketplace`.

### Outbox

`due` holds the undelivered rows whose time has come, in the order it came, which is the
order `FetchDue` uses; a row that waits is in `backoff` or `parked`, and `Elapse` lets its
time come.  How long it waits is not modelled.  A claim holds its rows locked between `Claim`
and `CommitClaim`; after that a dispatcher works from its copies (`batch`).  The attempts
column stops counting at `MaxAttempts`, beyond which the code does not tell values apart.
`done` is not a column: it records whose handler has returned nil.

### Pipeline

| In the module | In the code |
|---|---|
| `workflow`, `issuer` | what this deployment is wired with: `DeterministicWorkflow` or `PendingWorkflow`, `LocalIssuer` or `HederaIssuer` |
| `invoice`, `assessments`, `asset` | the row of `invoices` (status, `FailedFrom`, version), how many assessments it has, whether it has an asset row |
| `minted` | the tokens the issuer has made for it, each a number |
| `published`, `topic`, `since`, `delivered`, `deliveries` | the assess and tokenize commands in the outbox; `since` is the version their request stored, which no column holds |
| `at`, `holds`, `copy`, `reference` | the stack of a handler: where it is, its command, the version it read, the assessment it will name to the issuer |
| `AttachDocument`, `RequestAssessment`, `Approve`, `RequestTokenization`, `Reject` | `invoice.Service` |
| `Handle`, `Assess`, `Store` | `AssessmentWorker.Handle`, its workflow, snapshot and score, `commit` |
| `Answer`, `Assess`, `Store` | `AssessmentWorker.Complete`, over HTTP |
| `Handle`, `LookForAsset`, `ReadLatest`, `MintLocal`, `MintLive`, `Store` | `issuance.Worker.Handle`, the two issuers, `commit`, `complete`, `finish` |
| `WorkFails`, `RecordFailure`, `RecordingFails`, `Interrupted` | errors of the work, `recordFailure`, its own failure, errors that are only returned, a process that stops |

A handler reads the invoice, works, and writes in separate transactions, so each is a step.
One invoice is enough: no statement of these handlers touches two.  What an assessment says
and why work fails are left out.  Assessments are numbered as they are stored, and
`Reference` is the number of the latest one when the worker reads it (`ReadLatest`).  The token of
`LocalIssuer` is a hash of invoice and reference: it is that number here, so asking again makes no second token *because* no assessment
was stored in between, which is for `StagesInOrder` and the version check to see to.
`HederaIssuer` takes an unused number with every call, up to `MaxMints`.

### Idempotency

One key, because every statement of the store names one key.  A request is its `BodyOf`, and
the hash of a body is the body.  `Reserve` (insert) and `Look` (read) are two statements with
two snapshots.  `Perform`, `Refuse` and `CommitUnknown` are what the handler behind the
middleware can do: commit and answer below 400, answer an error having done nothing, or
commit and answer an error because the confirmation of the commit was lost.

### Marketplace

Rows carry the version a request has read in `call[r].seen`; zero stands for a row it did not
read.  `ReadTo...` is the first half of a transaction, the action without the prefix its writes.
`ClearAuction` has three parts, because at READ COMMITTED the bids are read after the batch:
`ReadToClear`, `ListBids`, `ClearAuction`.  The allocation is any set of pairs of a lot and a bid
that was read: which one is the matter of `Clearing`.  `PlaceBid` is an insert and compares
nothing, so a bid may arrive after its batch was cleared; and it asks the time twice, so a bid let
in before `ClosesAt` may be created after it (`late`), which the solver leaves out without a line of its
own while the bid is marked REJECTED like the others; `Listed` is the unique key on
`auction_lots.asset_key`, over lots that are never deleted.  Statuses a batch takes only through
functions without a caller (CLEARING, FAILED) do not appear, and amounts do not matter here.

### Flow and Clearing

`Clearing` is one call of `Solver.Clear` on one of `Batches`, phase by phase: `Canonicalize` makes
the feasible pairs, `Prune` bounds them, `Explore` opens a node, `Relax` builds the network,
`Push` solves it one settled node or one augmentation at a time (the `StartFlow`, `Settle` and
`Augment` of `Flow`), `ReadFlow` takes the cash off it, `RepairExposure` and `RepairMinimumLots` tighten the node and solve again or `Abandon` gives it up, `Branch` forces a dropped pair,
`Materialize` rounds the best candidate to notional and `Verify` accepts or refuses it.  The
budgets (`MaxAugmentations`, `MaxRelaxedSolves`, `MaxBranchNodes`, `MaxRepairRounds`) are counted
as the code counts them.  Rates have `Scale` steps where the code has 18 decimals; amounts are
minor units.  A value point is one `Points`-th, where the code's `valueScale` is a millionth, and
implied yields are rounded to points before anything compares them, as `Lot.ImpliedYield` does.  The
minimum yield of a bid is an input with twelve decimals that nothing rounds: it has steps of a `Fine`-th of a
point.  Residual arcs are pairs of nodes: a pair of nodes never has two edges in this
network.  The reasons given to bids that got nothing and the certificate are left out.

### Collections

One receivable with its transfers (`book`), of which `finished` are accounted.  `Record` is three
steps, as its transaction reads the invoice, the payment on record and the transfers one after
another and locks none: `ReadToRecord`, `ReadHolders` or `Replay`, `Record`.  `Trimmed` is what
`redemption.New` does to the reference; `IsOnRecord` compares the untrimmed one, as the service
does.  `answered` is a history of what requests were told.

### Payments

`quote` is the table by nonce, `ledger` what transactions really paid for, `known` those the
facilitator can see (a mirror lags; the local one forgets at `Restart`).  `Present`, `Accept` or
`Reject`, `Sign`, `DoWork`, `Store`, `Settle` are `Redeem`, one step per transaction or outside
call, and `GiveUp` leaves it anywhere.  `handed` is the answer of the last step, so that every
answer is examined when it is given.

### Access

`ReadToVerify`/`Verify` and `ReadToRegister`/`Register` are the two ways to use a challenge;
`Resolve` reads the actor's organization once for a request that decides (`ReadToDecide`,
`Decide`) or bids later.  `ListInvestors`, `OpenAccount`, `RecordAccount` are `chain-accounts`:
the list, the slow call to the network, the conditional write; `opened` is the network's side.
A signature is taken to come from the wallet it names.

### Market, Risk, Evidence, Intake

The three are operators without state.  Fixed point stands for decimals (rates in thousandths),
`Sigmoid` is a constant operator for the logistic function, and a document is the numbers
`derive` takes from it plus the words it looks for.  `Intake` composes them: `Create` with its
fingerprint, `Upload` (object and row) and `AttachDocument` (row only), moves of the seller,
`Collect` and `Deliver` as two visits of a workflow run, `Commit` or `RecordFailure` as the
worker's transaction.  A call carries what its transaction or its run has read.  `scores` tables
what the model says of every possible answer, so that TLC computes each once; it is set by
`Init` and never changes.

## 3. Runs

The longest run takes about three minutes on two cores.  `CHECK_DEADLOCK FALSE` stands in every
cfg but that of `collections`, because a bounded instance really stops: commands, deliveries,
attempts and requests run out, and a saga, a queue or a search that is finished has nothing
left to do.

| Run | Instance | What it shows |
|---|---|---|
| `settlement_race` | 2 plans of one receivable, 2 dispatchers, the receivable repaid or defaulted, transactions that succeed without crediting the buyer or are rejected, one fault, one lookup that comes too early, one lost receipt | whatever two dispatchers and the desk interleave: `AccountedWasCredited`, `SettledBatchIsAccounted`, `InvoiceFollowsTransfers`, `RepaidHoldersAreAccounted`, and no step forgets a transaction id (`SubmissionIsRemembered`) |
| `settlement_process` | the deployed shape, 1 dispatcher: one transfer on the network and one in process, of two receivables, a settle request that reads the plans and publishes its commands later, a crash, a lost receipt, a lookup before the mirror shows the transaction, 4 deliveries per command | the batch closes with its last transfer (`AccountedBatchIsSettled`), only losses and crashes cost a second transfer (`ExtraTransfersAreExplained`), the saga implements `Delivery`, and every planned transfer is accounted and the batch closed, but for what a restart forgot (`EveryPlanIsAccounted`) |
| `outbox` | 2 good events and one that always fails, 2 dispatchers, batches of two, a failure or a stop, a replay | the outbox implements `Delivery`, and the broken event does not keep the others from being delivered (`EveryEventIsDelivered`) |
| `idempotency_once` | 4 requests, one with another body; 2 panics, stops or failed writes, 1 commit without confirmation | the work is done once (`OneEffectPerKey`), every reply is of work done for that body (`RepliesAreTrue`) |
| `pipeline_stages` | 2 workers, both workflows and both issuers, 3 commands delivered up to 3 times, 2 faults | stages happen in order and once (`StagesInOrder`), every worker names the same assessment to an issuer that makes one token of it (`LocalTokenIsOne`), the handlers implement `Delivery`, every stage of the platform's own ends (`EveryStageEnds`) |
| `marketplace` | 2 receivables of one issuer, 2 batches, 2 bids of 2 investors, an operator, 2 concurrent requests of any kind | nothing is on sale in two batches (`OnSaleInOneBatch`); batch, lots, bids and receivables tell one story (`OutcomesAgree`); no receivable is sold by two clearings (`SoldByOneClearing`) |
| `payments` | 2 quotes (one under a key), 2 transactions, 2 concurrent retries, either facilitator, restarts | only paid quotes are answered (`AnswersArePaid`), a paid one is rejected for its time, for another request under its nonce or because a restarted local facilitator has forgotten it, and for nothing else (`PaidQuoteIsKept`), an answer given stays (`AnswerIsFinal`) |
| `access` | 3 wallets, 2 challenges, 2 accounts, 2 requests and 2 console commands at once | a challenge buys one registration or session (`ChallengeBuysOnce`), an organization is as eligible as the last decision about it said (`EligibilityIsAsDecided`), a network account is never replaced (`AccountIsForGood`) |
| `clearing` | every batch of 2 lots from two pairs and 3 bids of six kinds: shares of one debtor, issuer and grade, minimum lots; and four batches of 3 lots whose searches may go round | the flow is feasible after every augmentation (`FlowIsFeasible`) and each augmentation pays (`EveryAugmentationPays`), candidates keep minima and shares (`CandidateKeepsRules`), the notional keeps the limits (`MaterializedKeepsLimits`), and only a walk along a circle keeps `Clear` from its answer (`EndsOrCircles`) |
| `clearing_circle` | the four batches of 3 lots, one bid of which asks for half a value point more than the others | violated: the predecessors close a circle, and the walk back along them has no end (`ClearingEnds`, Section 6) |
| `collections` | 3 books of up to 3 transfers and 3 parties, 2 spellings of one reference, 2 requests | the payment is handed out whole and in proportion (`PaymentIsDivided`), a closed receivable agrees with the payment on record (`ClosedAsPaid`), nobody is told of a payment that is not (`AnswersAreOnRecord`), what is closed stays (`ClosedIsFinal`) |
| `intake` | 2 sellers, one receivable spelled twice and another, 2 documents, 2 overlapping calls, two states of the market, two days | one claim is alive once (`NoDoubleFinancing`), an assessment is of the stored document (`AssessmentIsOfTheDocument`), more risk is never a better price (`PriceFollowsRisk`), a market with less than a tenth of the weight moves nothing (`ThinMarketMovesNothing`), the oldest readable document is answered (`OldestIsAnswered`) |

The type invariant of each module is in no run.  Those of `Settlement`, `Pipeline`, `Idempotency`,
`Outbox`, `Marketplace`, `Payments`, `Access` and `Collections` are theorems; the invariants of
`IntakeProofs` and `AuctionProofs` type what their properties speak of in `Intake`, `Flow` and
`Clearing`.

Bounds, and why they are enough:

* `MaxTxs`: a plan is submitted again only after a lost id, a crash or by a second worker, so
  one more than those suffice; `settlement_race` has two.
* `MaxCommands` 1 or 2: a second command for a plan differs from a second delivery of the
  first only in what `MarkDelivered` closes; `settlement_process` has two.  `Callers`: one repeated
  settle request there, whose reading and publishing any steps may separate, and none in
  `settlement_race`, where a further command would be a further delivery.
* `MaxDeliveries`: 2 let a command be redelivered, and delivered to both workers at once.  In
  `settlement_process` a delivery ends without progress at most three times (`MaxLost`, `MaxCrashes`, and
  `MaxEarly` for a lookup that comes too early), so the fourth cannot; fewer would stop the saga for want of deliveries rather than
  of progress, where the real outbox goes on.  Reads and writes that fail, which would take a fifth, are
  the matter of `settlement_race` (`MaxFaults`).
* Two plans are the smallest batch in which the last transfer and another race, and one
  receivable cut in two allocations (`OneInvoice`) the smallest in which a repayment can meet
  a transfer still under way; two of different receivables (`TwoInvoices`) let one mature
  while the other settles.
* `Outcomes` lists what the network may decide in the instance.  A rejected transaction stops
  the saga for good, which `EveryPlanIsAccounted` allows for (`Stranded`); `settlement_process`
  leaves it out, since nothing follows it there, and `settlement_race` has it.
* `MaxAttempts = 2` makes a row park after its second failure, and the replay comes back for a
  third; the broken event and a batch of two leave room for one of the good ones only.
  `MaxFaults` counts failed writes, failed handlers of good events and stops together, one of
  any kind; `MaxRetries` the operator's replays.
* In `pipeline_stages` three commands are the two stages and one manual retry of either; a
  delivery ends without progress at most once per fault, so the third of two faults cannot;
  `MaxMints = 2` tells one token from more, and a token of a second reference, were there one,
  would be a second token.
* In `marketplace`, `payments`, `access` and `collections` two requests are in flight at once and
  any number one after another: every read-then-write race of two is there, and a third adds
  one only where three rows are involved, which no transaction of theirs compares.
  `MaxWork = 2` tells work done once from work done twice; `MaxVersion = 3` lets an
  organization be decided about and written by a command after it was read.  Three wallets
  are two investors and somebody who decides.
* `clearing` counts 12 augmentations, 5 solves, 3 nodes, 3 repair rounds and 1 edge per bid
  instead of thousands, so that each budget is exhausted in some batches and not in others.
  Two lots of one debtor, and of two, are the smallest on which a share binds across lots.
  A circle of predecessors takes three lots, a bid with a node for one issuer, and a minimum yield of
  half a value point: rounding the surplus to points then makes two lots worth the same to one bid
  and not to the other (Section 6).  `Points = 100` and `Fine = 2` are the fewest steps that have it.
* The books of `collections` have remainders that differ, remainders that tie, and a part that
  stays with the issuer.
* `Window = 1` stands for twenty documents, so that one unread document hides the next.
  `MaxRequested` counts how often an assessment may be asked for; without it older receivables asked for
  again and again keep the newer ones waiting for ever (Section 6).
* Symmetry is used in `settlement_race` (the two plans, the two workers), `marketplace`, `payments`, `access` and `collections`, between requests
  and names the specification treats alike.  Their properties are invariants or constraints on
  single steps; no instance with a liveness property or a refinement uses it.

### Mutants

Next to each definition that carries a decision stand, under the word *Mutation* or with a name in
`Mut...`, the forms a plausible bug would give it: a write that does not compare versions, a
failure stored over a finished plan, a retry answered by its key alone, a remainder given out
in the order of the holders' ids.  No specification uses them; each property of each run has
one that it notices.

## 4. Fairness

`Dispatcher.Run` polls on a ticker and `RunOnce` walks its batch to the end.  So
`Settlement!Fairness` has a worker that can take a step take it, a command that stays due
be claimed, and the network decide about what it accepted; `Outbox!Fairness` has the
dispatchers step and time pass, and `Pipeline!Fairness` has workers step and commands be
claimed.  All of it is weak fairness: a claim is disabled
only by somebody else's progress.  Nobody has to settle a batch, settle it again, pay, publish,
replay, request or approve anything, or deliver an answer from outside, and no fault has to
happen or to stop happening other than by its bound.

`Clearing` has weak fairness of its one next step: `Clear` is an uninterrupted call.  In `Intake` a
call that can go on goes on (`WF`).  A run of the confidential workflow may fail anywhere, and
the schedule starts the next; `SF` of `Deliver` and of the end of a call says that of runs
started for ever not every one fails at the same place.  Nothing makes a seller upload or ask.
`Marketplace`, `Payments`, `Access` and `Collections` state no fairness: nothing in the code finishes
what a client has left.

## 5. Proofs

The proof modules follow one plan: a type invariant, a strengthening `IInv` that is
inductive, one lemma per conjunct with one step per action, and theorems that read the
properties off it.  TLC found each `IInv` to hold on the instance of the module's run before it
was proved.  The assumptions are the named ones of the modules (`SettlementAssumption`,
`PipelineAssumption`, `IdempotencyAssumption`, `OutboxAssumption`, `MarketplaceAssumption`,
`ClearingAssumption`, `PaymentsAssumption`, `AccessAssumption`, `IntakeAssumption`,
`CollectionsAssumption`, `RiskAssumption`, `MarketAssumption`, `MarketsAssumption`, `FarAway`): bounds
are naturals, maps have their domains, ids of different tables differ, trimming twice is trimming
once, a notional is not negative.  `RiskAssumption` says that the logistic function does not fall
over the log-odds features in range can have.  `ClearingAssumption` says of a batch what `Lot.Validate`,
`NewBid` and `NewAuction` demand of its lots and bids, and that the price of a lot does not round to
nothing, which takes a face of 2 * 10^18 minor units.  `FarAway` gives the distance no path has a
positive number.  Where a cardinality or a sum is taken, the set is finite.  Numbers of plans,
receivables, workers, commands, deliveries, faults, crashes, requests, batches, bids, quotes,
events, dispatchers, lots, wallets and holders are arbitrary, and so are amounts, rates and limits.  Only the three theorems of *One process* below assume more,
and say so in their statement.

The same idea carries most of them.  Nothing in the program holds a lock while it thinks: it
reads a row, works, and writes with `WHERE version = $n`.  So each invariant says of every copy
that it is a past version of its row, *and the row itself while the versions are equal*
(`CopyInv`).  From there, what a request concluded from its copy is true of the row at the only
moments at which it can still write it.

**`SettlementProofs`.**  The properties are not inductive: a worker writes from memory.  The
invariant adds what the memory of a worker has to do with the rows:

* `RowInv`: a row past PREPARED names a transaction the chain has; a mirror-confirmed or
  accounted one names a credited transaction.
* `CopyInv`: a worker's copy is a past version of the row, and *if the versions are equal the
  copy is the row*, which is why comparing versions is enough.
* `BooksInv`, `ClosedInv`, `DeskInv`, `PlannedInv`: what a worker decided inside the
  accounting transaction, and what the desk counted, is still true at the commit or the
  commit fails.

| Theorem | Statement |
|---|---|
| `SagaInvariant`, `TypeCorrect` | `Spec => []IInv`, `Spec => []TypeOK` |
| `BooksFollowTheChain` | `Spec => []AccountedWasCredited` |
| `BooksAgree`, `ClosedBatchIsAccounted` | `Spec => []InvoiceFollowsTransfers`, `Spec => []SettledBatchIsAccounted` |
| `HoldersAreAccounted` | `Spec => []RepaidHoldersAreAccounted` |
| `NothingIsStranded` | `Spec => []UnfinishedHasCommand` |
| `TransactionsAreRemembered`, `BooksAreFinal` | `Spec => SubmissionIsRemembered`, `Spec => AccountedIsFinal` |
| `SagaKeepsThePromise` | `Spec => ImplementsDelivery`, settle requests that publish for finished plans included |

*One process.*  Two statements are false of two processes (Section 6) and are proved under
`OneProcess` (any two workers are the same) and a batch that is not empty.  `OneInv` adds to `IInv`
what such a process can rely on.  `CopyIsCurrent`: what it read is the row, for nobody else
writes it.  `LastCloses`: if only its own transfer is missing it has decided to close.
`TransfersAreExplained`: a plan has no more transfers on the chain than the one it knows of, or
is about to store, and one for each receipt lost and each crash; the bound that TLC checks
(`1 + lost + crashes`) is not inductive, because it does not say that a plan which knows of no
transfer has used none of its allowance.

| Theorem | Statement, for one process |
|---|---|
| `OneProcessInvariant` | `Spec => []OneInv` |
| `LastTransferClosesBatch` | `Spec => []AccountedBatchIsSettled` |
| `NoTransferIsRepeated` | `Spec => []ExtraTransfersAreExplained` |

**`PipelineProofs`.**  Everything hangs on versions.  `CommandInv`: a command belongs to the
version its request stored; while the invoice has that version it waits for that command's
stage, and a waiting invoice has such a command.  `WorkerInv`: a copy that is still current is
of an invoice waiting for that worker's stage; a worker that stores a token has one, and a worker
about to ask for one names the assessment on record, which is the first and only one because no
assessment is stored once the status has passed ASSESSED; so a local issuer is never asked
under two references.
`StageInv`: what the status says of the assessment, the asset and the token.  A step starts a
round, ends one (`EndsRound`) or leaves the invoice alone (`RoundSteps`), so each conjunct is
proved three ways instead of once per action; `Alone` says that a worker's step moves that
worker only.  Without `since` and `copy` the properties are not inductive: a worker could
store an assessment on an invoice it read two rounds ago.

| Theorem | Statement |
|---|---|
| `StageInvariant`, `TypeCorrect` | `Spec => []IInv`, `Spec => []TypeOK` |
| `WaitingIsServed` | `Spec => []WaitingHasCommand` |
| `StagesAreInOrder`, `LocalIssuerMintsOnce` | `Spec => []StagesInOrder`, `Spec => []LocalTokenIsOne` |
| `PipelineKeepsThePromise` | `Spec => ImplementsDelivery` |

**`PlatformProofs`.**  Three stores the other components stand on.

*Access.*  `ChallengeInv`: a challenge was exchanged once if it is consumed and never
otherwise, and a session's wallet has an organization.  `OrgInv`: an organization is as eligible as
the last decision says.  `CommandInv`: a command's list and the row it opened an account for are past
versions of investors without an account, so its conditional write meets either such an
investor or another version.

*Idempotency.*  The row without a response is the claim of at most one attempt that
is running or has left it behind (`ClaimInv`); effects are counted against the row and the spent
`unknown` commits (`EffectInv`).

*Outbox.*  What is to be shown is that a step of the dispatchers is a step of `Delivery` or none.
`QueueInv`: what is closed was done; a dispatcher's copies are of rows that exist, and one it
is about to close is of an event its handler returned nil for (`DispatcherInv`); a queue holds
an event once, so an event that leaves one is in no other place of it.  The lemmas on queues
say what appending, taking the head of and filtering such a sequence do to its members.

| Theorem | Statement |
|---|---|
| `AccessInvariant`, `TypeCorrect` | `Spec => []IInv`, `Spec => []TypeOK` of `Access` |
| `OneChallengeOneResult` | `Spec => []ChallengeBuysOnce` |
| `LastDecisionStands` | `Spec => []EligibilityIsAsDecided` |
| `FirstAccountStays` | `Spec => AccountIsForGood` |
| `ClaimInvariant`, `KeysAreTyped` | `KeySpec => []KeyIInv`, `KeySpec => []KeyTypeOK` |
| `WorkIsDoneOnce`, `AttemptsRunAlone` | `KeySpec => []OneEffectPerKey`, `KeySpec => []OneAttemptRuns` |
| `RepliesTellTheTruth` | `KeySpec => []RepliesAreTrue` |
| `OutboxInvariant`, `OutboxIsTyped` | `QueueSpec => []QueueInv`, `QueueSpec => []QueueTypeOK` |
| `OutboxKeepsItsPromise` | `QueueSpec => ImplementsDelivery` |

With `SagaKeepsThePromise` and `PipelineKeepsThePromise` above, all three implementations of
`Delivery` are proved.

**`AuctionProofs`.**  *The market.*  `LotsInv`: a receivable is in the lots of one batch at most, for ever,
because the rows are unique over all lots and never deleted.  `InvoiceInv`: its status is that
batch's: on sale while it is open, ALLOCATED exactly if the stored clearing allocates it.
`ClearingInv`: a stored clearing names lots and bids of its own batch.  `CopiesInv`: a batch whose
version has not moved since a request read it is in a status that request may act on, and such a
bid is still active; it is what makes a clearing that was computed outside the
write land only on the bids it was computed from.

| Theorem | Statement |
|---|---|
| `MarketInvariant`, `TypeCorrect` | `Spec => []IInv`, `Spec => []TypeOK` |
| `OnSaleOnce` | `Spec => []OnSaleInOneBatch` |
| `InvestorsAreToldTheSame` | `Spec => []OutcomesAgree` |
| `SoldOnce` | `Spec => []SoldByOneClearing` |

*The flow.*  `FlowInv` is a feasible flow with a search over it, of which `TreeInv` says that a node
with a distance has it over an open arc from another node with one.  When the walk back along
the predecessors meets the source it met no node twice, for a walk that comes by a node again goes
round for ever (`TrailIs`); so it is a path of open arcs, the bottleneck fits every one of them, and
what a node on it gets more of it hands on.  None of this needs the potentials to be right, and
they are not (Section 6).

*What an augmentation is worth.*  `PriceInv`: a node lies no nearer than the node before it and the
reduced cost between them say, since the node before may have come nearer after the arc was
priced and never farther.  Added up along the walk the potentials and the distances cancel out
(`WalkCosts`), but for those of source and sink: the walk costs no more than the `PathCost`
that `Pays` compares with zero, so that the surplus rises by the bottleneck times as much
(`PushEarns`).  `Base` takes the source at the nothing it began with, because an arc of negative reduced
cost may give even the source a new distance.

*The clearing.*  Eligibility compares the rounded yield of a lot with the exact minimum of a bid, as the
code does.  `SolverInv` says of each phase what the next one needs.  `PairsInv`: the pairs are
feasible, ordered and of the batch.  `NetworkInv`: the network is the one the node's constraints build.
`CashInv`: cash read off a feasible flow keeps supply, budgets and issuer limits, because each is the
capacity of an arc through which the cash of the pairs it limits has to pass: what enters a set of
nodes leaves it (`CutBalances`, `Gathered`).  `BestInv`: a candidate is recorded only when no repair is
left to do, so it keeps the other limits too.  `AnswerInv`: `materialize` divides cash by the unit
price rounding down, so the notional costs no more than the cash did (`WhatCashBuys`), and the caps
by the remaining supply only lower it (`SuppliesLast`).

| Theorem | Statement |
|---|---|
| `ClearingInvariant`, `PathsArePriced` | `ClearSpec => []SolverInv`, `ClearSpec => []PriceInv` |
| `FlowStaysFeasible` | `ClearSpec => []FlowIsFeasible` |
| `EveryPathIsWorthIt` | `ClearSpec => EveryAugmentationPays` |
| `CandidatesKeepTheRules` | `ClearSpec => []CandidateKeepsRules` |
| `NotionalKeepsTheLimits` | `ClearSpec => []MaterializedKeepsLimits` |

**`PaymentsProofs`.**  `RowInv` says of a row, *and of every copy of one*, that the transaction it
names is of that quote in the ledger.  `StepInv` follows a redemption: which states its copy is in
at each step, that its transaction was found in the ledger under this quote's nonce, and that
after `Process` its answer is the stored one.  `QuotesGrow`: a row changes only with its
version, and an answered row only by being settled.  Only `Reject` makes a row REJECTED
(`OnlyRejectRejects`), and it does so to the row its request read; the verdict on such a row with a
payment on record is a late hour, another question, or a ledger that no longer has the
transaction, since the request that names the nonce with another transaction gets a conflict,
which rejects nothing.

| Theorem | Statement |
|---|---|
| `QuoteInvariant`, `TypeCorrect` | `Spec => []IInv`, `Spec => []TypeOK` |
| `EveryAnswerIsPaid` | `Spec => []AnswersArePaid` |
| `RecordedPaymentStands` | `Spec => PaidQuoteIsKept` |
| `StoredAnswerStays` | `Spec => AnswerIsFinal` |

**`IntakeProofs`.**  The fingerprint that `Create` compares covers terms no row ever changes, and no
row leaves REJECTED; so a claim found free is free of those rows for ever, and the only rows
to compare later are those created after it.  `CallInv`: whoever works on a receivable that has
left DRAFT works on the document it will always have, since `Attach` demands a draft and
nothing becomes a draft again.  `AssessedInv` then says that an assessed receivable does not wait
again, that its assessment is of its document and that it names that one.  Up to here nothing
depends on how risk is measured.

`PricesInv` says that every answer under way and every assessment is what the model computes for the
document, the market and the receivable it names.  So the other two properties are about the
model.  `ScoreFollowsRisk`: each feature enters the log-odds with a coefficient that is not
negative, and every step from there to the price (rounding, `Sigmoid`, the clamps, the loss, the
premiums, the discount) keeps the order or reverses it.  `ThinIsIgnored`: a market with less than a
tenth of the weight does not fill the tails that winsorizing cuts, so the quantiles stay among the rates of the
others, and the volatility within what those differ by (`QuantilesOfOthers`, `VolatilityWithin`).

| Theorem | Statement |
|---|---|
| `IntakeInvariant` | `Spec => []IInv` |
| `NothingIsFinancedTwice` | `Spec => []NoDoubleFinancing` |
| `AssessedAsUploaded` | `Spec => []AssessmentIsOfTheDocument` |
| `NothingIsRewritten` | `Spec => [][RowsGrow]_vars`: terms, documents and rejections stay |
| `PricedByTheModel` | `Spec => []PricesInv` |
| `WorseEvidenceIsNotDearer` | `Spec => []PriceFollowsRisk` |
| `ThinMarketIsIgnored` | `Spec => []ThinMarketMovesNothing` |

**`CollectionsProofs`.**  `VersionTells`: a receivable has its first version exactly while it is
settled, in the row and in what a request has read of it, so the request whose version still
matches is the only one that closes it.  `RecordIsTrim`: the reference on record has no
spaces around it, which is why a retry with spaces never matches it.

`PaymentIsDivided` needs arithmetic instead of an invariant.  The shares of a payment `a` over a
face `f` are `a * n \div f` for a holder of `n`, and the units left over go one each to the holders
first in the order of their remainders.  If the notionals add up to the face, then
`a * f = f * (sum of quotients) + (sum of remainders)`; so the sum of remainders is a multiple of
`f`, and there are fewer units left over than holders with a remainder (`SumOfQuotients`,
`SumOfRests`), so each unit finds a holder (`FirstOnes`) and the shares add up to `a`
(`DistributeIsFair`).  That the notionals do add up is `HoldersHoldTheFace`: the parts of the buyers
are a partition of the accounted transfers (`SumOfParts`), and the issuer holds what is left of the
face.  `DividedInv` keeps it for the holders a request has read and still divides among, whatever is
accounted meanwhile.

| Theorem | Statement |
|---|---|
| `TypeIsInvariant` | `Spec => []TypeOK` |
| `ClosedAsPaidIsInvariant` | `Spec => []ClosedAsPaid` |
| `AnswersAreOnRecordIsInvariant` | `Spec => []AnswersAreOnRecord` |
| `ClosedIsForGood` | `Spec => ClosedIsFinal` |
| `PaymentIsDividedIsInvariant` | `Spec => []PaymentIsDivided` |

**`SumProofs`.**  What a fold over a finite set computes (`SumRecurs`, `SumSplit`) and from it the laws
of sums: of parts, of pairs of summands, of members under other names, of summands that do not
fall.  Each is shown by taking a smallest set for which it would fail (`SetInduction`, from the
well-foundedness of `<` on the naturals).  `RecursionExists` shows that a recursive function satisfies
its definition when each value depends on smaller arguments only, and `RankIs` that the
members of a finite set are numbered by how many come before them; with these the
recursive functions and the orders of `Flow` and `Clearing` can be reasoned about.

Proved without a run of their own, because the theorem says more than a run would: the type
invariants of these modules, `UnfinishedHasCommand`, `AccountedIsFinal`, `OneAttemptRuns`,
`WaitingHasCommand`, and that nothing of a receivable is rewritten.

Only model-checked are the liveness properties (`EveryPlanIsAccounted`, `EveryEventIsDelivered`,
`EveryStageEnds`, `EndsOrCircles`, `OldestIsAnswered`): they rest on fairness and on which actions are
enabled, which the proof system does not reason about.

## 6. Where the code and its documentation part

Each of these is what the code does, met while it was translated; the modules follow the code,
and their properties are stated so that they are true of it, but for `ClearingEnds`, which a run refutes.

Settlement, outbox and idempotency:

* **A receipt that comes back with an error is dropped.**  `SettlementWorker.submit` returns on
  the error before it looks at the transaction id that `ChainExecutor.Submit` carries out with
  it; the next delivery transfers again (`ExtraTransfersAreExplained` counts these).
* **Two instances leave a batch in SETTLING.**  `finishAuction` reads the other plans unlocked at
  READ COMMITTED; each of two last transfers sees the other as unfinished.  Hence
  `AccountedBatchIsSettled` is a property of one process.
* **A repayment leaves out a buyer who already holds.**  `holdersOf` counts accounted transfers;
  one that moved the asset and is not in the books yet loses its share, and can never be
  accounted afterwards.
* **A claim can outlive its request.**  The middleware's `finish` runs after the handler returns
  and with the request's context; a panic, a stop or a client that has left keeps the key "in
  progress" for good.
* `LocalExecutor` forgets its ledger with its process, so a stored transaction can no longer be
  looked up; `ports.go:72-74` says it can be afterwards.
* A claim of the outbox ends with its transaction, before the delivery it was made for, so two
  dispatchers may deliver one event; `outbox.go:76-78` expects delivery inside it.  The
  handlers bear it, as `settlement_race` and `pipeline_stages` show, but for a second transfer
  or a second token.
* Two dispatchers that fail one event can put an exhausted row back into backoff, and a replay
  between claim and failure parks a row that `ListParked` does not list (`dispatcher.go:197`
  decides from the claimed copy).
* A retry that meets another attempt's claim at its insert and no longer at its read is
  answered "not found".

Assessment and issuance:

* **A retried issuance mints again on the live network.**  `HederaIssuer.Issue` never uses the
  reference that "makes issuance repeatable" (`issuance/worker.go:144`); a receipt lost, a
  failed commit or a stop before the asset row is written, and the next attempt creates a
  second token.
* **A failed stage is not retried by the outbox.**  `recordFailure` returns the error so that it
  would be, but it has moved the invoice to FAILED, where the redelivery finds nothing to do
  and closes the command.  An operator's retry is the only one.
* A late failure of one delivery fails the round an operator has just restarted
  (`RecordFailure`), and an invoice whose token exists can be rejected (`Reject`).
* The commitment of an answer is checked for its form only, although `confidential/pending.go`
  says the platform recomputes it; the workflow's `commit()` and `risk.Commit` hash different
  material.
* `RequiresManualReview` "blocks auto-approval" (`risk/model.go:140-144`); it is stored, and
  nothing consults it.

Confidential queue and documents:

* The queue is "oldest first", since any other order "leaves the unlucky invoice waiting forever"
  (`confidential/service.go:91-92`); but the oldest twenty are chosen before their objects are
  read, so unreadable ones at the head hide all others, and older receivables asked for
  again while the market is down keep newer ones waiting.
* `AttachDocument` over JSON may name an object that was never stored; such a receivable waits in
  EXTRACTING.
* The workflow's `mentions` takes "without recourse" for a mention of recourse.

Marketplace and organizations:

* A released receivable cannot be listed again: `auction_lots.asset_key` is unique over all lots
  ever, while `00001_core_schema.sql:211-213` asks for one live auction.
* `commands.go:28-30` closes a batch to bids before it is cleared; `PlaceBid` compares nothing, so
  a bid can be inserted after the clearing, and stays active in a finished batch.
* `PlaceBid` asks the time once to let a bid in and again to date it (`auction/service.go:186`, `202`).
  A bid dated after `ClosesAt` is left out by the solver without a word (`solver.go:224`), and
  `recordBidOutcomes` marks it REJECTED: its investor finds no reason for it in the clearing.
* Standing bids of a rejected organization are still allocated (`onboarding/service.go:209-210`).
* Cancelling a CLEARED batch leaves its ALLOCATED receivables where they are, with no operation
  that takes them further.
* When the operator lists a receivable, its owner may bid on it: only the seller of the batch is
  refused.

Clearing:

* A zero share "is rejected" (`bid.go:132-137`); everywhere else zero means no cap.
* Forced lots "cannot quietly" be dropped again (`solver.go:330-331`), which
  `solver_search.go:109-112` does when a repair needs it.
* A minimum lot clipped to a smaller supply (`solver_search.go:456-467`) can make `Verify` refuse
  the solver's own answer, against `solver_search.go:52`; the batch then never clears.
* **The flow is searched with potentials that are not valid.**  The search stops when the sink is
  settled, but potentials are advanced by tentative distances too (`mincostflow.go:93-97`,
  182-186), while the comment says that "after that every residual arc has a non-negative reduced
  cost and Dijkstra is valid" (`mincostflow.go:70-71`).  The maximum surplus of
  `mincostflow.go:10-12` can be missed.  `FlowIsFeasible` and `EveryAugmentationPays` are what remains true.
* **A clearing may never return.**  Over an arc of negative reduced cost a settled node gets a new predecessor, and
  predecessors can close a circle that misses the source; the walk `for v := int32(sink); v !=
  int32(source);` (`mincostflow.go:100`) then goes round it for ever, although "both bounded
  searches stop on counts rather than on elapsed time" (`solver.go:73-74`).  `clearing_circle` ends in such
  a walk (`ClearingEnds`); `EndsOrCircles` says that nothing else keeps `Clear` from its answer.
  It takes a bid whose minimum yield lies between two millionths: `NUMERIC(24,12)` holds it and neither
  `ParseRate` nor `NewBid` rounds it, while the yields of lots are rounded (`domain.go:285`, `301`), so that half to even
  (`solver.go:294-297`) makes neighbouring surpluses equal for that bid alone.  At the code's own scale three lots with
  supply, reserve and tenor of 305919436, 300000000 and 90 days, 101973195, 100000000 and 90
  (another issuer), 202631025, 200000000 and 60 under a bid of 100000000 at 0.0800185 and one of
  300000000 at 0.080020 give the circle, and with 0.080019 for the first yield they do not.
* `g.limit * raw.cash / g.spent` is a product of two `int64` amounts and overflows when both
  exceed about 30 million dollars.
* A lot bought for its full reserve can come out one minor unit short of its supply.
* The certificate names neither `MaxRelaxedSolves`, `MaxEdgesPerBid` and the prune threshold nor
  the bids' `CreatedAt`, all of which decide the result it certifies.

Payments and collections:

* **A stranger can spoil a paid quote.**  `check` compares endpoint, body and expiry before it asks who
  has paid (`payments/service.go:257-262`), and each of these refusals is recorded as a rejection.  A request
  that names the nonce of a paid quote and asks something else moves that quote to REJECTED
  while its work is being done or awaited, against the comments at lines 199-204 and 283-286, by
  which a stranger must not "burn a quote somebody else has already paid for".
  `PaidQuoteIsKept` lists what can reject a paid quote and names this; a stranger's *payment* cannot.
* `PurgeExpiredQuotes` has no caller, so an expired quote is handed out for ever under its key; a
  customer who has paid and retries after the expiry is refused
  (`payments/service.go:212-217`, `262`).
* The answer to a paid quote is replayed by its nonce, whatever the endpoint and the payer.
* The local facilitator's ledger is lost at a restart.
* `redemption.New` trims the reference, `Record` compares the retry's untrimmed one
  (`collections/service.go:136`): the same request, sent twice, conflicts with itself.

`auction.Service.Create` and `Open`, `FailClearing`, `FailSettlement` and the `Retry...` functions of
the auction have no callers; they are not modelled.

## 7. Not modelled

What a next step would add:

* **Width.**  `Money` and `Backoff` at 64 bits: checked addition and multiplication, the jitter
  added after the cap.  Amounts in the models are small and do not overflow.
* **The certificate and the reasons** given to bids without an allocation.

Left out, and why:

* **Paid agent services**, **LLM client and narration**: text from one input; what is sold is a
  member of a small set in `Payments`.
* **Reporting, analytics**: reads without a decision.
* **Demo seeding**: calls the operations modelled here in one order.
* **HTTP routing, configuration, logging, audit, clock, errors, rendering**: no state whose order
  matters.
* **Encryption of documents**: an object is taken to open or not (`opens`).
* **The network, the mirror and the facilitator**: external; they appear as what they may answer.
* **Web application, schema, deployment**: the constraints of the schema are guards of the actions
  that meet them; the rest is presentation.
