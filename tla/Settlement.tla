------------------------------ MODULE Settlement ------------------------------
(***************************************************************************)
(* The settlement saga of one cleared batch: SettleAuction plans one        *)
(* transfer per allocation and queues a command for each; worker processes  *)
(* deliver the commands and walk each transfer to the chain, through two    *)
(* confirmations and into the books, moving the invoice and closing the     *)
(* auction on the way; an operator records what the debtor paid.            *)
(*                                                                          *)
(* One step of this module is one database transaction or one chain call of *)
(* the code.  A transaction that reads rows it does not lock is two steps,  *)
(* its reads and its commit, because the pool runs at READ COMMITTED.       *)
(***************************************************************************)
EXTENDS Naturals, FiniteSets

CONSTANTS
    Plans,          \* the allocations of the batch, each settled by one transfer
    Invoices,       \* the receivables they were cut from
    InvoiceOf,      \* the receivable an allocation belongs to
    OnChain,        \* the plans whose buyer has an account: RoutedExecutor sends them to the network
    Callers,        \* bound: repeated settle requests under way at once
    Workers,        \* processes running a dispatcher; each handles one command at a time
    Repayable,      \* the receivables whose debtor pays, or is declared in default, in this run
    Outcomes,       \* what the network may decide about a transfer
    NoCommand,
    MaxTxs,         \* bound: transactions one plan can put on the chain
    MaxCommands,    \* bound: commands published for one plan
    MaxDeliveries,  \* bound: times one command is claimed
    MaxFaults,      \* bound: refused submissions, failed reads, failed writes
    MaxEarly,       \* bound: lookups of a transaction the mirror does not show yet
    MaxLost,        \* bound: submissions whose transaction id never reaches the plan
    MaxCrashes      \* bound: processes that stop between two steps

Txs == 1..MaxTxs
NoTx == 0
Commands == Plans \X (1..MaxCommands)

ASSUME SettlementAssumption ==
    /\ MaxTxs \in Nat \ {0} /\ MaxCommands \in Nat \ {0} /\ MaxDeliveries \in Nat
    /\ MaxFaults \in Nat /\ MaxEarly \in Nat /\ MaxLost \in Nat /\ MaxCrashes \in Nat
    /\ InvoiceOf \in [Plans -> Invoices]
    /\ OnChain \subseteq Plans /\ Repayable \subseteq Invoices
    /\ Outcomes \subseteq {"credited", "uncredited", "rejected"}
    /\ NoCommand \notin Commands

VARIABLES
    plan,        \* settlements rows: [state, tx, version]
    auction,     \* status of the batch
    invoice,     \* status of each receivable
    repaid,      \* receivables with a repayment row
    holders,     \* the plans a repayment was divided over
    queued,      \* number of commands published for a plan
    delivered,   \* commands whose outbox row is marked delivered
    chain,       \* what became of each transaction a plan was submitted as
    ledger,      \* the in-memory LocalExecutor of each process
    pc,          \* what each worker is about to do
    holds,       \* the command it claimed
    seen,        \* the plan as it last read it
    receipt,     \* the transaction id it has been given and not yet stored
    decided,     \* what the accounting transaction decided to write
    existing,    \* the unfinished plans a repeated settle request has read
    reading,     \* receivables with a repayment being recorded
    counted,     \* the transfers that recording counted as holdings
    deliveries, faults, early, lost, crashes

rows     == <<plan, auction, invoice, repaid, holders>>
outbox   == <<queued, delivered, deliveries>>
network  == <<chain, ledger>>
memory   == <<pc, holds, seen, receipt, decided>>
requests == <<existing, reading, counted>>
trouble  == <<faults, early, lost, crashes>>
vars     == <<rows, outbox, network, memory, requests, trouble>>

-------------------------------------------------------------------------------
(* The rows *)

States == {"NONE", "PREPARED", "SUBMITTED", "CONSENSUS_CONFIRMED",
           "MIRROR_CONFIRMED", "ACCOUNTED", "FAILED"}

transitions(state) ==
    CASE state = "PREPARED"            -> {"SUBMITTED", "FAILED"}
      [] state = "SUBMITTED"           -> {"CONSENSUS_CONFIRMED", "FAILED"}
      [] state = "CONSENSUS_CONFIRMED" -> {"MIRROR_CONFIRMED", "FAILED"}
      [] state = "MIRROR_CONFIRMED"    -> {"ACCOUNTED", "FAILED"}
      [] state = "FAILED"              -> {"SUBMITTED", "CONSENSUS_CONFIRMED",
                                           "MIRROR_CONFIRMED", "ACCOUNTED"}
      [] OTHER                         -> {}

Rows == [state : States, tx : {NoTx} \cup Txs, version : Nat]
NoRow == [state |-> "NONE", tx |-> NoTx, version |-> 0]

NewPlan == [state |-> "PREPARED", tx |-> NoTx, version |-> 1]

IsSubmitted(row) == row.tx # NoTx
IsFinished(row) == row.state = "ACCOUNTED"

\* Work Handle answers nil to without advancing it.
\* Mutation: a plan that was submitted counts as done.
MutSubmittedIsDone(row) == IsSubmitted(row)
AlreadyDone(row) == IsFinished(row)

MayBecome(row, next) ==
    /\ next \in transitions(row.state)
    /\ row.state = "FAILED" /\ next # "SUBMITTED" => IsSubmitted(row)

Moved(row, next) == [state |-> next, tx |-> row.tx, version |-> row.version + 1]

\* Settlement.Submit: the transaction id and the state change are one write.
Submitted(row, tx) == [state |-> "SUBMITTED", tx |-> tx, version |-> row.version + 1]

Live(p) == {k \in Txs : chain[p][k] \notin {"none", "rejected"}}

Undecided == [settle |-> FALSE, close |-> FALSE]

Init ==
    /\ plan = [p \in Plans |-> NoRow]
    /\ auction = "CLEARED"
    /\ invoice = [i \in Invoices |-> "ALLOCATED"]
    /\ repaid = {} /\ holders = [i \in Invoices |-> {}]
    /\ queued = [p \in Plans |-> 0] /\ delivered = {}
    /\ deliveries = [c \in Commands |-> 0]
    /\ chain = [p \in Plans |-> [k \in Txs |-> "none"]]
    /\ ledger = [w \in Workers |-> {}]
    /\ pc = [w \in Workers |-> "idle"] /\ holds = [w \in Workers |-> NoCommand]
    /\ seen = [w \in Workers |-> NoRow] /\ receipt = [w \in Workers |-> NoTx]
    /\ decided = [w \in Workers |-> Undecided]
    /\ existing = [s \in Callers |-> {}]
    /\ reading = {} /\ counted = [i \in Invoices |-> {}]
    /\ faults = 0 /\ early = 0 /\ lost = 0 /\ crashes = 0

-------------------------------------------------------------------------------
(* SettleAuction *)

\* The first call: one plan per allocation, the batch in SETTLING and one command
\* per plan, in one transaction.  Of two first calls at once the second fails on the unique
\* allocation of a plan or on the auction's version and leaves nothing.
PlanTransfers ==
    /\ auction = "CLEARED"
    /\ Plans # {}
    /\ plan' = [p \in Plans |-> NewPlan]
    /\ auction' = "SETTLING"
    /\ queued' = [p \in Plans |-> 1]
    /\ UNCHANGED <<invoice, repaid, holders, delivered, deliveries, network, memory, requests, trouble>>

\* Every later call finds the plans, whatever the batch's status, and locks none of them.
ListExisting(s) ==
    LET open == {p \in Plans : ~IsFinished(plan[p])}
    IN  /\ auction # "CLEARED"
        /\ existing[s] = {} /\ open # {}
        /\ \A p \in open : queued[p] < MaxCommands
        /\ existing' = [existing EXCEPT ![s] = open]
        /\ UNCHANGED <<rows, outbox, network, memory, reading, counted, trouble>>

\* queueSettlements, at its commit: a further command for each plan that had not finished when
\* it was read.
QueueSettlements(s) ==
    /\ existing[s] # {}
    /\ \A p \in existing[s] : queued[p] < MaxCommands
    /\ queued' = [p \in Plans |-> IF p \in existing[s] THEN queued[p] + 1 ELSE queued[p]]
    /\ existing' = [existing EXCEPT ![s] = {}]
    /\ UNCHANGED <<rows, delivered, deliveries, network, memory, reading, counted, trouble>>

\* One command cannot be published: the call rolls back and leaves none.
SettleFails(s) ==
    /\ existing[s] # {}
    /\ existing' = [existing EXCEPT ![s] = {}]
    /\ UNCHANGED <<rows, outbox, network, memory, reading, counted, trouble>>

-------------------------------------------------------------------------------
(* A worker: the dispatcher's pass over one command, around SettlementWorker.Handle *)

Plan(w) == holds[w][1]

Goto(w, label) == pc' = [pc EXCEPT ![w] = label]

\* The handler returned, or its process stopped: nothing of the pass is left in memory.
Release(w) ==
    /\ Goto(w, "idle")
    /\ holds' = [holds EXCEPT ![w] = NoCommand]
    /\ seen' = [seen EXCEPT ![w] = NoRow]
    /\ receipt' = [receipt EXCEPT ![w] = NoTx]
    /\ decided' = [decided EXCEPT ![w] = Undecided]

\* FetchDue in a transaction that commits before delivery: an undelivered command can be
\* claimed by several workers.
Claim(w, c) ==
    /\ pc[w] = "idle"
    /\ c[2] <= queued[c[1]] /\ c \notin delivered
    /\ deliveries[c] < MaxDeliveries
    /\ deliveries' = [deliveries EXCEPT ![c] = @ + 1]
    /\ Goto(w, "claimed")
    /\ holds' = [holds EXCEPT ![w] = c]
    /\ UNCHANGED <<rows, queued, delivered, network, seen, receipt, decided, requests, trouble>>

\* Handle reads the plan outside any transaction.
Handle(w) ==
    /\ pc[w] = "claimed"
    /\ IF AlreadyDone(plan[Plan(w)])
       THEN Goto(w, "finished") /\ UNCHANGED seen
       ELSE Goto(w, "advance") /\ seen' = [seen EXCEPT ![w] = plan[Plan(w)]]
    /\ UNCHANGED <<rows, outbox, network, holds, receipt, decided, requests, trouble>>

\* advance picks the step from what the worker last read.
\* Mutation: a plan is sent again until consensus is stored, its transaction known.
MutResubmitUnconfirmed(w) == /\ pc[w] = "advance"
                             /\ seen[w].state \in {"PREPARED", "SUBMITTED", "FAILED"}
AtSubmit(w) == pc[w] = "advance" /\ ~IsSubmitted(seen[w])
AtConsensus(w) == /\ pc[w] = "advance" /\ IsSubmitted(seen[w])
                  /\ seen[w].state \in {"SUBMITTED", "FAILED"}
AtMirror(w) == /\ pc[w] = "advance" /\ IsSubmitted(seen[w])
               /\ seen[w].state = "CONSENSUS_CONFIRMED"
AtAccount(w) == /\ pc[w] = "advance" /\ IsSubmitted(seen[w])
                /\ seen[w].state = "MIRROR_CONFIRMED"

\* store: one transaction that writes the worker's own copy under the version it was
\* read at; a lost race is an error like any other.
\* Mutation: a write that does not compare versions.
MutBlindWrite(w) == TRUE
SameVersion(w) == plan[Plan(w)].version = seen[w].version

Store(w, next, row) ==
    IF MayBecome(seen[w], next) /\ SameVersion(w)
    THEN /\ plan' = [plan EXCEPT ![Plan(w)] = row]
         /\ seen' = [seen EXCEPT ![w] = row]
         /\ Goto(w, "advance")
    ELSE Goto(w, "failing") /\ UNCHANGED <<plan, seen>>

\* ChainExecutor.Submit: every call is a new transaction on the network, which answers
\* with its id or, when the receipt cannot be read, with an error that carries the id.
\* SettlementWorker.submit returns on that error before it looks at the receipt.
TransferOnChain(w) ==
    /\ AtSubmit(w) /\ Plan(w) \in OnChain
    /\ \E k \in Txs :
          /\ chain[Plan(w)][k] = "none"
          /\ \A j \in 1..(k - 1) : chain[Plan(w)][j] # "none"
          /\ chain' = [chain EXCEPT ![Plan(w)][k] = "unseen"]
          /\ \/ /\ Goto(w, "submitted")
                /\ receipt' = [receipt EXCEPT ![w] = k]
                /\ UNCHANGED lost
             \/ /\ lost < MaxLost
                /\ lost' = lost + 1
                /\ Goto(w, "failing")
                /\ UNCHANGED receipt
    /\ UNCHANGED <<rows, outbox, ledger, holds, seen, decided, requests, faults, early, crashes>>

\* LocalExecutor.Submit: the operation id names the transaction, so a repeated call
\* answers with the same one, and the ledger is this process's memory.
TransferInProcess(w) ==
    /\ AtSubmit(w) /\ Plan(w) \notin OnChain
    /\ chain' = [chain EXCEPT ![Plan(w)][1] = "credited"]
    /\ ledger' = [ledger EXCEPT ![w] = @ \cup {Plan(w)}]
    /\ Goto(w, "submitted")
    /\ receipt' = [receipt EXCEPT ![w] = 1]
    /\ UNCHANGED <<rows, outbox, holds, seen, decided, requests, trouble>>

StoreSubmission(w) ==
    /\ pc[w] = "submitted"
    /\ Store(w, "SUBMITTED", Submitted(seen[w], receipt[w]))
    /\ receipt' = [receipt EXCEPT ![w] = NoTx]
    /\ UNCHANGED <<auction, invoice, repaid, holders, outbox, network, holds, decided, requests, trouble>>

\* RoutedExecutor.Lookup: the shape of the id says which ledger to ask.
Verdict(w) == chain[Plan(w)][seen[w].tx]
Found(w) == IF Plan(w) \in OnChain THEN Verdict(w) # "unseen" ELSE Plan(w) \in ledger[w]
Succeeded(w) == Verdict(w) \in {"credited", "uncredited"}
\* Mutation: a transaction that succeeded is taken to have credited the buyer.
MutCreditAssumed(w) == TRUE
Credited(w) == Verdict(w) = "credited"

\* What the chain answers about a decided transaction never changes, so asking and
\* storing the answer are one step.
ConfirmConsensus(w) ==
    /\ AtConsensus(w) /\ Found(w)
    /\ IF Succeeded(w)
       THEN Store(w, "CONSENSUS_CONFIRMED", Moved(seen[w], "CONSENSUS_CONFIRMED"))
       ELSE Goto(w, "failing") /\ UNCHANGED <<plan, seen>>
    /\ UNCHANGED <<auction, invoice, repaid, holders, outbox, network, holds, receipt, decided, requests, trouble>>

ConfirmMirror(w) ==
    /\ AtMirror(w) /\ Found(w)
    /\ IF Succeeded(w) /\ Credited(w)
       THEN Store(w, "MIRROR_CONFIRMED", Moved(seen[w], "MIRROR_CONFIRMED"))
       ELSE Goto(w, "failing") /\ UNCHANGED <<plan, seen>>
    /\ UNCHANGED <<auction, invoice, repaid, holders, outbox, network, holds, receipt, decided, requests, trouble>>

\* The transaction is not visible: Unavailable, never a resubmission.
NotYetVisible(w) ==
    /\ AtConsensus(w) \/ AtMirror(w)
    /\ ~Found(w)
    /\ IF Plan(w) \in OnChain
       THEN early < MaxEarly /\ early' = early + 1
       ELSE UNCHANGED early
    /\ Goto(w, "failing")
    /\ UNCHANGED <<rows, outbox, network, holds, seen, receipt, decided, requests, faults, lost, crashes>>

\* account, up to its commit: the plan is read again, then the invoice, then every plan of
\* the batch as far as other transactions have committed it.
\* Mutations: a transfer on its way counts as done; the plan's own uncommitted row is not seen.
MutOthersSubmitted(p) == \A q \in Plans \ {p} : IsSubmitted(plan[q])
MutOwnRowMissed(p) == \A q \in Plans : IsFinished(plan[q])
OthersFinished(p) == \A q \in Plans \ {p} : IsFinished(plan[q])

ReadAccounts(w) ==
    LET p == Plan(w)
        i == InvoiceOf[p]
    IN  /\ AtAccount(w)
        /\ \/ /\ IsFinished(plan[p])
              /\ Goto(w, "finished")
              /\ UNCHANGED <<seen, decided>>
           \/ /\ ~IsFinished(plan[p])
              /\ MayBecome(plan[p], "ACCOUNTED")
              /\ invoice[i] \in {"ALLOCATED", "SETTLED"}
              /\ Goto(w, "accounting")
              /\ seen' = [seen EXCEPT ![w] = plan[p]]
              /\ decided' = [decided EXCEPT ![w] =
                    [settle |-> invoice[i] = "ALLOCATED",
                     close |-> OthersFinished(p) /\ auction # "SETTLED"]]
           \/ /\ ~IsFinished(plan[p])
              /\ ~ MayBecome(plan[p], "ACCOUNTED") \/ invoice[i] \notin {"ALLOCATED", "SETTLED"}
              /\ Goto(w, "failing")
              /\ UNCHANGED <<seen, decided>>
        /\ UNCHANGED <<rows, outbox, network, holds, receipt, requests, trouble>>

\* Every row is written under the version it was read at.  An invoice and an auction never
\* return to a status they left, so for them the status read stands for the version.
StillCurrent(w) ==
    /\ SameVersion(w)
    /\ decided[w].settle => invoice[InvoiceOf[Plan(w)]] = "ALLOCATED"
    /\ decided[w].close => auction = "SETTLING"

\* finishInvoice, once the invoice was read.
\* Mutation: the invoice waits for the last transfer of the batch.
MutSettledWithBatch(w) ==
    IF decided[w].close THEN [invoice EXCEPT ![InvoiceOf[Plan(w)]] = "SETTLED"] ELSE invoice
InvoiceAfter(w) ==
    IF decided[w].settle THEN [invoice EXCEPT ![InvoiceOf[Plan(w)]] = "SETTLED"] ELSE invoice

CommitAccounts(w) ==
    LET p == Plan(w)
    IN  /\ pc[w] = "accounting"
        /\ IF StillCurrent(w)
           THEN /\ plan' = [plan EXCEPT ![p] = Moved(seen[w], "ACCOUNTED")]
                /\ invoice' = InvoiceAfter(w)
                /\ auction' = IF decided[w].close THEN "SETTLED" ELSE auction
                /\ Goto(w, "finished")
           ELSE Goto(w, "failing") /\ UNCHANGED <<plan, invoice, auction>>
        /\ decided' = [decided EXCEPT ![w] = Undecided]
        /\ UNCHANGED <<repaid, holders, outbox, network, holds, seen, receipt, requests, trouble>>

\* Any step can fail before it takes effect: the asset or the plan cannot be read, the
\* network refuses the order, a lookup times out, a transaction does not commit.
StepFails(w) ==
    /\ pc[w] \in {"advance", "accounting"}
    /\ faults < MaxFaults /\ faults' = faults + 1
    /\ Goto(w, "failing")
    /\ decided' = [decided EXCEPT ![w] = Undecided]
    /\ UNCHANGED <<rows, outbox, network, holds, seen, receipt, requests, early, lost, crashes>>

\* So can the transaction that stores a submission, and then its id is lost.
StoreFails(w) ==
    /\ pc[w] = "submitted"
    /\ lost < MaxLost /\ lost' = lost + 1
    /\ Goto(w, "failing")
    /\ receipt' = [receipt EXCEPT ![w] = NoTx]
    /\ UNCHANGED <<rows, outbox, network, holds, seen, decided, requests, faults, early, crashes>>

\* recordFailure reads the plan again and stores FAILED; the handler returns the cause and
\* the dispatcher leaves the command due again.
Failed(row) == IF IsFinished(row) THEN row ELSE Moved(row, "FAILED")

RecordFailure(w) ==
    /\ pc[w] = "failing"
    /\ plan' = [plan EXCEPT ![Plan(w)] = Failed(@)]
    /\ Release(w)
    /\ UNCHANGED <<auction, invoice, repaid, holders, outbox, network, requests, trouble>>

\* Recording the failure can fail too, or lose a race for the plan's version; the cause is
\* returned all the same.
RecordingFails(w) ==
    /\ pc[w] = "failing"
    /\ Release(w)
    /\ UNCHANGED <<rows, outbox, network, requests, trouble>>

\* The handler returned nil.  Marking a command another worker marked first changes nothing.
MarkDelivered(w) ==
    /\ pc[w] = "finished"
    /\ delivered' = delivered \cup {holds[w]}
    /\ Release(w)
    /\ UNCHANGED <<rows, queued, deliveries, network, requests, trouble>>

\* A process stops between two steps and starts again with empty memory.
Crash(w) ==
    /\ pc[w] # "idle" \/ ledger[w] # {}
    /\ crashes < MaxCrashes /\ crashes' = crashes + 1
    /\ ledger' = [ledger EXCEPT ![w] = {}]
    /\ Release(w)
    /\ UNCHANGED <<rows, outbox, chain, requests, faults, early, lost>>

-------------------------------------------------------------------------------
(* The network and the collections desk *)

Decide(p, k) ==
    /\ chain[p][k] = "unseen"
    /\ \E verdict \in Outcomes : chain' = [chain EXCEPT ![p][k] = verdict]
    /\ UNCHANGED <<rows, outbox, ledger, memory, requests, trouble>>

Accounted(i) == {p \in Plans : InvoiceOf[p] = i /\ IsFinished(plan[p])}

\* Mutation: a transfer still in flight makes its buyer a holder.
MutHoldersInFlight(i) == {p \in Plans : InvoiceOf[p] = i /\ IsSubmitted(plan[p])}
HoldersOf(i) == Accounted(i)

\* Record, up to its commit: holdersOf counts the transfers accounted so far.
ReadHolders(i) ==
    /\ i \in Repayable /\ i \notin repaid /\ i \notin reading
    /\ invoice[i] = "SETTLED"
    /\ reading' = reading \cup {i}
    /\ counted' = [counted EXCEPT ![i] = HoldersOf(i)]
    /\ UNCHANGED <<rows, outbox, network, memory, existing, trouble>>

\* A face paid in full matures the receivable, a shorter payment defaults it.
CommitRepayment(i) ==
    /\ i \in reading
    /\ IF invoice[i] = "SETTLED"
       THEN /\ \E status \in {"MATURED", "DEFAULTED"} :
                  invoice' = [invoice EXCEPT ![i] = status]
            /\ repaid' = repaid \cup {i}
            /\ holders' = [holders EXCEPT ![i] = counted[i]]
       ELSE UNCHANGED <<invoice, repaid, holders>>
    /\ reading' = reading \ {i}
    /\ counted' = [counted EXCEPT ![i] = {}]
    /\ UNCHANGED <<plan, auction, outbox, network, memory, existing, trouble>>

\* Default: the receivable is overdue and no payment arrived.
Default(i) ==
    /\ i \in Repayable
    /\ invoice[i] = "SETTLED"
    /\ invoice' = [invoice EXCEPT ![i] = "DEFAULTED"]
    /\ UNCHANGED <<plan, auction, repaid, holders, outbox, network, memory, requests, trouble>>

-------------------------------------------------------------------------------

Step(w) ==
    \/ Handle(w)
    \/ TransferOnChain(w) \/ TransferInProcess(w) \/ StoreSubmission(w)
    \/ ConfirmConsensus(w) \/ ConfirmMirror(w) \/ NotYetVisible(w)
    \/ ReadAccounts(w) \/ CommitAccounts(w)
    \/ RecordFailure(w) \/ MarkDelivered(w)

SettleAgain ==
    \E s \in Callers : ListExisting(s) \/ QueueSettlements(s) \/ SettleFails(s)

Next ==
    \/ PlanTransfers \/ SettleAgain
    \/ \E w \in Workers :
          \/ \E c \in Commands : Claim(w, c)
          \/ Step(w)
          \/ StepFails(w) \/ StoreFails(w) \/ RecordingFails(w) \/ Crash(w)
    \/ \E p \in Plans, k \in Txs : Decide(p, k)
    \/ \E i \in Invoices : ReadHolders(i) \/ CommitRepayment(i) \/ Default(i)

Spec == Init /\ [][Next]_vars

\* Run polls on a ticker and RunOnce walks its batch to the end, so a worker that can take
\* a step takes it and a due command is claimed; the network decides what it accepted.
\* Nobody has to settle a batch, once or again, or repay a receivable.
Fairness ==
    /\ \A w \in Workers : WF_vars(Step(w))
    /\ \A w \in Workers, c \in Commands : WF_vars(Claim(w, c))
    /\ \A p \in Plans, k \in Txs : WF_vars(Decide(p, k))

FairSpec == Spec /\ Fairness

-------------------------------------------------------------------------------
(* Properties *)

Labels == {"idle", "claimed", "advance", "submitted", "accounting", "failing", "finished"}

\* Types of the rows, of the chain and of what workers hold in memory.
TypeOK ==
    /\ plan \in [Plans -> Rows]
    /\ auction \in {"CLEARED", "SETTLING", "SETTLED"}
    /\ invoice \in [Invoices -> {"ALLOCATED", "SETTLED", "MATURED", "DEFAULTED"}]
    /\ repaid \subseteq Invoices /\ holders \in [Invoices -> SUBSET Plans]
    /\ queued \in [Plans -> 0..MaxCommands] /\ delivered \subseteq Commands
    /\ deliveries \in [Commands -> 0..MaxDeliveries]
    /\ chain \in [Plans -> [Txs -> {"none", "unseen", "credited", "uncredited", "rejected"}]]
    /\ ledger \in [Workers -> SUBSET Plans]
    /\ pc \in [Workers -> Labels] /\ holds \in [Workers -> Commands \cup {NoCommand}]
    /\ seen \in [Workers -> Rows] /\ receipt \in [Workers -> {NoTx} \cup Txs]
    /\ decided \in [Workers -> [settle : BOOLEAN, close : BOOLEAN]]
    /\ existing \in [Callers -> SUBSET Plans]
    /\ reading \subseteq Invoices /\ counted \in [Invoices -> SUBSET Plans]
    /\ faults \in 0..MaxFaults /\ early \in 0..MaxEarly /\ lost \in 0..MaxLost /\ crashes \in 0..MaxCrashes

\* The books never run ahead of the chain: whatever workers race, fail or restart, a
\* transfer is ACCOUNTED only when the transaction the plan names credited its buyer.
AccountedWasCredited ==
    \A p \in Plans : IsFinished(plan[p]) =>
        IsSubmitted(plan[p]) /\ chain[p][plan[p].tx] = "credited"

\* A transaction id, once stored, is never lost or replaced, by whichever worker: a second
\* worker that submitted the same plan must lose the race instead of overwriting it.
SubmissionIsRemembered ==
    [][\A p \in Plans : IsSubmitted(plan[p]) => plan'[p].tx = plan[p].tx]_vars

\* What is accounted stays accounted, even when a late worker still holds an older copy.
AccountedIsFinal ==
    [][\A p \in Plans : IsFinished(plan[p]) => plan'[p] = plan[p]]_vars

\* The auction closes only over a batch all of whose transfers are in the books.
SettledBatchIsAccounted ==
    auction = "SETTLED" => \A p \in Plans : IsFinished(plan[p])

\* The settlement and its invoice move in one transaction: no accounted transfer has an
\* invoice still on sale, and no invoice leaves ALLOCATED without an accounted transfer.
InvoiceFollowsTransfers ==
    \A i \in Invoices : invoice[i] # "ALLOCATED" <=> Accounted(i) # {}

\* A batch is never left in SETTLING with nothing on its way to move it: a planned transfer
\* that has not finished has a command the outbox still delivers.
UnfinishedHasCommand ==
    \A p \in Plans : plan[p].state # "NONE" /\ ~IsFinished(plan[p]) =>
        \E k \in 1..queued[p] : <<p, k>> \notin delivered

\* Nobody is paid for a transfer that is not in the books.
RepaidHoldersAreAccounted ==
    \A i \in Invoices : holders[i] \subseteq Accounted(i)

\* With one process, every transfer beyond the first of a plan is the price of a submission
\* whose id was lost or of a crash: redelivery and retries alone never move the asset twice.
ExtraTransfersAreExplained ==
    \A p \in Plans : Cardinality(Live(p)) <= 1 + lost + crashes

\* The batch closes with its last transfer.
AccountedBatchIsSettled ==
    (\A p \in Plans : IsFinished(plan[p])) => auction = "SETTLED"

\* The saga keeps the outbox's promise for its commands: the handler only says a command is
\* done when the plan it names is in the books, whichever of its copies got it there, and also
\* when it was published by a settle request that read the plan before it got there.
Published == {c \in Commands : c[2] <= queued[c[1]]}
Promise == INSTANCE Delivery WITH
    Events <- Commands,
    Works <- Plans,
    WorkOf <- [c \in Commands |-> c[1]],
    published <- Published,
    done <- {p \in Plans : IsFinished(plan[p])},
    closed <- delivered
ImplementsDelivery == Promise!Spec

\* Every planned transfer is eventually in the books, and its batch closed, however often the
\* receipts were lost and the worker failed (SettlementWorker.Handle, redelivered); but for what
\* no redelivery helps: a transaction the network rejected, and one in process after a restart,
\* which forgets the ledger it is looked up in (LocalExecutor).
Stranded(p) == /\ ~IsFinished(plan[p])
               /\ \/ \E k \in Txs : chain[p][k] = "rejected"
                  \/ p \notin OnChain /\ crashes > 0
EveryPlanIsAccounted ==
    /\ \A p \in Plans : plan[p].state # "NONE" ~> IsFinished(plan[p]) \/ Stranded(p)
    /\ auction = "SETTLING" ~> auction = "SETTLED" \/ \E p \in Plans : Stranded(p)
===============================================================================
