--------------------------- MODULE SettlementProofs ---------------------------
(***************************************************************************)
(* Theorems about the settlement saga, for any number of plans, receivables *)
(* and workers, any bounds and any interleaving.                            *)
(*                                                                          *)
(* The argument is optimistic locking.  A worker decides from a copy of a   *)
(* plan, and may write only under the version it read; so what has to be    *)
(* shown is what an older copy can still say about the row: once a copy     *)
(* names a transaction, the row names the same one for ever, and a verdict  *)
(* of the chain about it never changes.                                     *)
(***************************************************************************)
EXTENDS Settlement, FiniteSetTheorems, TLAPS

-------------------------------------------------------------------------------
(* The inductive invariant *)

\* The states a submission leads to.
Confirmed(row) == row.state \in {"SUBMITTED", "CONSENSUS_CONFIRMED",
                                 "MIRROR_CONFIRMED", "ACCOUNTED"}

\* The transaction the row names credited the buyer.
CreditedOnChain(p, row) == IsSubmitted(row) /\ chain[p][row.tx] = "credited"

\* What every stored row satisfies.
RowInv(p) ==
    /\ Confirmed(plan[p]) => IsSubmitted(plan[p])
    /\ plan[p].state \in {"MIRROR_CONFIRMED", "ACCOUNTED"} => CreditedOnChain(p, plan[p])

\* What a worker's copy of the row of the plan it works on says about that row.
CopyInv(w, p) ==
    /\ seen[w].version <= plan[p].version
    /\ plan[p].version = seen[w].version => seen[w] = plan[p]
    /\ IsSubmitted(seen[w]) => plan[p].tx = seen[w].tx
    /\ Confirmed(seen[w]) => IsSubmitted(seen[w])
    /\ seen[w].state \in {"MIRROR_CONFIRMED", "ACCOUNTED"} => CreditedOnChain(p, seen[w])

\* What the accounting transaction decided still holds when it commits.
BooksInv(w, p) ==
    /\ CreditedOnChain(p, seen[w]) /\ ~ IsFinished(seen[w])
    /\ ~ decided[w].settle => invoice[InvoiceOf[p]] # "ALLOCATED"
    /\ decided[w].close => OthersFinished(p)

\* Where a worker is tells what it knows.
WorkerInv(w) ==
    /\ pc[w] # "idle" => holds[w] \in Published
    /\ pc[w] \in {"advance", "submitted", "accounting"} => CopyInv(w, Plan(w))
    /\ pc[w] = "submitted" => receipt[w] \in Txs /\ ~IsSubmitted(seen[w])
    /\ pc[w] = "accounting" => BooksInv(w, Plan(w))
    /\ pc[w] = "finished" => IsFinished(plan[Plan(w)])

\* Nothing runs before the batch is planned, and planning gives every plan a command.
PlannedInv ==
    /\ auction = "CLEARED" =>
        /\ \A p \in Plans : plan[p] = NoRow /\ queued[p] = 0
        /\ \A w \in Workers : pc[w] = "idle"
        /\ \A s \in Callers : existing[s] = {}
    /\ auction # "CLEARED" => \A p \in Plans : queued[p] > 0

\* The outbox closes a command only over a plan that is in the books.
ClosedInv == \A c \in delivered : c \in Published /\ IsFinished(plan[c[1]])

\* The desk has counted, and paid, transfers in the books.
DeskInv == \A i \in Invoices : counted[i] \subseteq Accounted(i) /\ holders[i] \subseteq Accounted(i)

IInv ==
    /\ TypeOK
    /\ \A p \in Plans : RowInv(p)
    /\ \A w \in Workers : WorkerInv(w)
    /\ PlannedInv
    /\ ClosedInv
    /\ DeskInv
    /\ InvoiceFollowsTransfers
    /\ SettledBatchIsAccounted

-------------------------------------------------------------------------------
(* Types *)

\* The writes of the saga keep a row a row: its version grows by one, its state is one of the
\* table of transitions, its transaction the one submitted.
LEMMA MovedIsARow ==
    ASSUME NEW row \in Rows, NEW next \in States
    PROVE  /\ Moved(row, next) \in Rows
           /\ Moved(row, next).state = next
           /\ Moved(row, next).tx = row.tx
           /\ Moved(row, next).version = row.version + 1
  BY DEF Moved, Rows, States

\* So does the write of a submission, which is a step of the table out of PREPARED or FAILED.
LEMMA SubmittedIsARow ==
    ASSUME NEW row \in Rows, NEW k \in Txs
    PROVE  /\ Submitted(row, k) \in Rows
           /\ Submitted(row, k).state = "SUBMITTED"
           /\ Submitted(row, k).tx = k
           /\ Submitted(row, k).version = row.version + 1
  BY DEF Submitted, Rows, States

\* Every initial state has the types of the tables and of the workers' memory.
LEMMA TypeInit == Init => TypeOK
  BY SettlementAssumption
  DEF Init, TypeOK, Rows, NoRow, States, Undecided, Labels, NoTx, Txs, Commands

\* Every step of the saga, the network, the desk and the processes keeps them.
LEMMA TypeStep == IInv /\ [Next]_vars => TypeOK'
  <1> SUFFICES ASSUME IInv, [Next]_vars PROVE TypeOK'
    OBVIOUS
  <1> USE DEF rows, outbox, network, memory, requests, trouble
  <1> TypeOK
    BY DEF IInv
  <1> NoRow \in Rows /\ NewPlan \in Rows
    BY DEF NoRow, NewPlan, Rows, States
  <1>w. ASSUME NEW w \in Workers, pc[w] # "idle"
        PROVE  holds[w] \in Commands /\ Plan(w) \in Plans /\ plan[Plan(w)] \in Rows
    BY <1>w DEF IInv, WorkerInv, Published, Plan, Commands, TypeOK
  <1>r. ASSUME NEW w \in Workers, Release(w), pc[w] # "idle"
        PROVE  /\ pc' \in [Workers -> Labels] /\ holds' \in [Workers -> Commands \cup {NoCommand}]
               /\ seen' \in [Workers -> Rows] /\ receipt' \in [Workers -> {NoTx} \cup Txs]
               /\ decided' \in [Workers -> [settle : BOOLEAN, close : BOOLEAN]]
    BY <1>r DEF Release, Goto, TypeOK, Labels, Undecided
  <1>s. ASSUME NEW w \in Workers, NEW next \in States, NEW row \in Rows, Store(w, next, row)
        PROVE  /\ pc' \in [Workers -> Labels] /\ seen' \in [Workers -> Rows]
               /\ plan' \in [Plans -> Rows]
    <2>1. \/ /\ plan' = [plan EXCEPT ![Plan(w)] = row]
             /\ seen' = [seen EXCEPT ![w] = row]
             /\ pc' = [pc EXCEPT ![w] = "advance"]
          \/ /\ plan' = plan /\ seen' = seen
             /\ pc' = [pc EXCEPT ![w] = "failing"]
      BY <1>s DEF Store, Goto
    <2>2. pc' \in [Workers -> Labels]
      BY <2>1 DEF TypeOK, Labels
    <2>3. seen' \in [Workers -> Rows]
      BY <2>1 DEF TypeOK
    <2>4. plan' \in [Plans -> Rows]
      BY <2>1 DEF TypeOK
    <2> QED
      BY <2>2, <2>3, <2>4
  <1>1. CASE PlanTransfers
    BY <1>1, SettlementAssumption DEF PlanTransfers, TypeOK, Labels
  <1>2. CASE SettleAgain
    <2>1. PICK s \in Callers : ListExisting(s) \/ QueueSettlements(s) \/ SettleFails(s)
      BY <1>2 DEF SettleAgain
    <2>2. existing' \in [Callers -> SUBSET Plans]
      BY <2>1 DEF ListExisting, QueueSettlements, SettleFails, TypeOK
    <2>3. queued' \in [Plans -> 0..MaxCommands]
      BY <2>1, SettlementAssumption DEF ListExisting, QueueSettlements, SettleFails, TypeOK
    <2> QED
      BY <2>1, <2>2, <2>3 DEF ListExisting, QueueSettlements, SettleFails, TypeOK
  <1>3. ASSUME NEW w \in Workers, NEW c \in Commands, Claim(w, c) PROVE TypeOK'
    BY <1>3, SettlementAssumption DEF Claim, Goto, TypeOK, Labels
  <1>4. ASSUME NEW w \in Workers, Handle(w) PROVE TypeOK'
    BY <1>4, <1>w DEF Handle, Goto, TypeOK, Labels
  <1>5. ASSUME NEW w \in Workers, TransferOnChain(w) PROVE TypeOK'
    <2>1. PICK k \in Txs :
            /\ chain' = [chain EXCEPT ![Plan(w)][k] = "unseen"]
            /\ \/ Goto(w, "submitted") /\ receipt' = [receipt EXCEPT ![w] = k] /\ UNCHANGED lost
               \/ lost < MaxLost /\ lost' = lost + 1 /\ Goto(w, "failing") /\ UNCHANGED receipt
      BY <1>5 DEF TransferOnChain
    <2>2. chain' \in [Plans -> [Txs -> {"none", "unseen", "credited", "uncredited", "rejected"}]]
      BY <2>1 DEF TypeOK
    <2>3. pc' \in [Workers -> Labels] /\ lost' \in 0..MaxLost
      <3>1. \/ Goto(w, "submitted") /\ lost' = lost
            \/ lost < MaxLost /\ lost' = lost + 1 /\ Goto(w, "failing")
        BY <2>1
      <3>2. pc' \in [Workers -> Labels]
        BY <3>1 DEF Goto, TypeOK, Labels
      <3>3. lost' \in 0..MaxLost
        BY <3>1, SettlementAssumption DEF TypeOK
      <3> QED
        BY <3>2, <3>3
    <2>4. receipt' \in [Workers -> {NoTx} \cup Txs]
      BY <2>1 DEF TypeOK
    <2> QED
      BY <1>5, <2>2, <2>3, <2>4 DEF TransferOnChain, TypeOK
  <1>6. ASSUME NEW w \in Workers, TransferInProcess(w) PROVE TypeOK'
    BY <1>6, <1>w, SettlementAssumption DEF TransferInProcess, AtSubmit, Goto, TypeOK, Labels, Txs
  <1>7. ASSUME NEW w \in Workers, StoreSubmission(w) PROVE TypeOK'
    BY <1>7, <1>s, SubmittedIsARow DEF StoreSubmission, TypeOK, States, IInv, WorkerInv
  <1>8. ASSUME NEW w \in Workers, ConfirmConsensus(w) PROVE TypeOK'
    BY <1>8, <1>s, MovedIsARow DEF ConfirmConsensus, Goto, TypeOK, States, Labels
  <1>9. ASSUME NEW w \in Workers, ConfirmMirror(w) PROVE TypeOK'
    BY <1>9, <1>s, MovedIsARow DEF ConfirmMirror, Goto, TypeOK, States, Labels
  <1>10. ASSUME NEW w \in Workers, NotYetVisible(w) PROVE TypeOK'
    BY <1>10, SettlementAssumption DEF NotYetVisible, Goto, TypeOK, Labels
  <1>11. ASSUME NEW w \in Workers, ReadAccounts(w) PROVE TypeOK'
    <2>1. pc[w] # "idle" /\ pc' \in [Workers -> Labels]
      BY <1>11 DEF ReadAccounts, AtAccount, Goto, TypeOK, Labels
    <2>2. seen' \in [Workers -> Rows]
      BY <1>11, <1>w, <2>1 DEF ReadAccounts, TypeOK
    <2>3. decided' \in [Workers -> [settle : BOOLEAN, close : BOOLEAN]]
      <3> DEFINE settle == invoice[InvoiceOf[Plan(w)]] = "ALLOCATED"
                 close == OthersFinished(Plan(w)) /\ auction # "SETTLED"
      <3>1. settle \in BOOLEAN /\ close \in BOOLEAN
        BY DEF OthersFinished
      <3>2. \/ decided' = decided
            \/ decided' = [decided EXCEPT ![w] = [settle |-> settle, close |-> close]]
        BY <1>11 DEF ReadAccounts
      <3>3. decided \in [Workers -> [settle : BOOLEAN, close : BOOLEAN]]
        BY DEF TypeOK
      <3> HIDE DEF settle, close
      <3> QED
        BY <3>1, <3>2, <3>3
    <2> QED
      BY <1>11, <2>1, <2>2, <2>3 DEF ReadAccounts, TypeOK
  <1>12. ASSUME NEW w \in Workers, CommitAccounts(w) PROVE TypeOK'
    <2>1. /\ auction' \in {"CLEARED", "SETTLING", "SETTLED"}
          /\ pc' \in [Workers -> Labels]
      BY <1>12 DEF CommitAccounts, Goto, TypeOK, Labels
    <2>4. Moved(seen[w], "ACCOUNTED") \in Rows
      BY MovedIsARow DEF TypeOK, States
    <2>5. plan' \in [Plans -> Rows]
      BY <1>12, <2>4 DEF CommitAccounts, TypeOK
    <2>2. invoice' \in [Invoices -> {"ALLOCATED", "SETTLED", "MATURED", "DEFAULTED"}]
      BY <1>12 DEF CommitAccounts, InvoiceAfter, TypeOK
    <2>3. decided' \in [Workers -> [settle : BOOLEAN, close : BOOLEAN]]
      BY <1>12 DEF CommitAccounts, Undecided, TypeOK
    <2> QED
      BY <1>12, <2>1, <2>2, <2>3, <2>5 DEF CommitAccounts, TypeOK
  <1>13. ASSUME NEW w \in Workers, RecordFailure(w) PROVE TypeOK'
    BY <1>13, <1>w, <1>r, MovedIsARow DEF RecordFailure, Failed, TypeOK, States
  <1>14. ASSUME NEW w \in Workers, MarkDelivered(w) PROVE TypeOK'
    BY <1>14, <1>w, <1>r DEF MarkDelivered, TypeOK
  <1>15. ASSUME NEW w \in Workers, StepFails(w) PROVE TypeOK'
    BY <1>15, SettlementAssumption DEF StepFails, Undecided, Goto, TypeOK, Labels
  <1>16. ASSUME NEW w \in Workers, StoreFails(w) PROVE TypeOK'
    BY <1>16, SettlementAssumption DEF StoreFails, Goto, TypeOK, Labels
  <1>17. ASSUME NEW w \in Workers, RecordingFails(w) PROVE TypeOK'
    BY <1>17, <1>r, SettlementAssumption DEF RecordingFails, TypeOK
  <1>18. ASSUME NEW w \in Workers, Crash(w) PROVE TypeOK'
    BY <1>18, SettlementAssumption DEF Crash, Release, Goto, Undecided, TypeOK, Labels
  <1>19. ASSUME NEW p \in Plans, NEW k \in Txs, Decide(p, k) PROVE TypeOK'
    BY <1>19, SettlementAssumption DEF Decide, TypeOK
  <1>20. ASSUME NEW i \in Invoices, ReadHolders(i) PROVE TypeOK'
    BY <1>20 DEF ReadHolders, HoldersOf, Accounted, TypeOK
  <1>21. ASSUME NEW i \in Invoices, CommitRepayment(i) PROVE TypeOK'
    <2>1. /\ invoice' \in [Invoices -> {"ALLOCATED", "SETTLED", "MATURED", "DEFAULTED"}]
          /\ repaid' \subseteq Invoices /\ holders' \in [Invoices -> SUBSET Plans]
      <3>1. CASE invoice[i] = "SETTLED"
        <4>1. PICK status \in {"MATURED", "DEFAULTED"} : invoice' = [invoice EXCEPT ![i] = status]
          BY <1>21, <3>1 DEF CommitRepayment
        <4>2. repaid' = repaid \cup {i} /\ holders' = [holders EXCEPT ![i] = counted[i]]
          BY <1>21, <3>1 DEF CommitRepayment
        <4> QED
          BY <4>1, <4>2 DEF TypeOK
      <3>2. CASE invoice[i] # "SETTLED"
        BY <1>21, <3>2 DEF CommitRepayment, TypeOK
      <3> QED
        BY <3>1, <3>2
    <2>2. reading' \subseteq Invoices /\ counted' \in [Invoices -> SUBSET Plans]
      BY <1>21 DEF CommitRepayment, TypeOK
    <2> QED
      BY <1>21, <2>1, <2>2 DEF CommitRepayment, TypeOK, outbox, network, memory, trouble
  <1>22. ASSUME NEW i \in Invoices, Default(i) PROVE TypeOK'
    BY <1>22 DEF Default, TypeOK
  <1>23. CASE UNCHANGED vars
    BY <1>23 DEF vars, TypeOK
  <1> QED
    BY <1>1, <1>2, <1>3, <1>4, <1>5, <1>6, <1>7, <1>8, <1>9, <1>10, <1>11, <1>12, <1>13,
       <1>14, <1>15, <1>16, <1>17, <1>18, <1>19, <1>20, <1>21, <1>22, <1>23
    DEF Next, Step

-------------------------------------------------------------------------------
(* What never goes back *)

\* Stored rows only move forward: under a new version, and never away from a transaction
\* or out of the books.
RowsAdvance ==
    \A p \in Plans :
        /\ plan[p].version <= plan'[p].version
        /\ plan'[p].version = plan[p].version => plan'[p] = plan[p]
        /\ IsSubmitted(plan[p]) => plan'[p].tx = plan[p].tx
        /\ IsFinished(plan[p]) => plan'[p] = plan[p]

\* One row written under the version it had, by somebody who did not forget its transaction.
RowAdvances(p, row) ==
    /\ plan' = [plan EXCEPT ![p] = row]
    /\ ~ IsFinished(plan[p])
    /\ row.version = plan[p].version + 1
    /\ IsSubmitted(plan[p]) => row.tx = plan[p].tx

\* No step of the table of transitions leaves ACCOUNTED.
LEMMA FinishedStays ==
    ASSUME NEW row \in Rows, NEW next, MayBecome(row, next)
    PROVE  ~ IsFinished(row)
  BY DEF MayBecome, transitions, IsFinished, Rows, States

\* An active worker holds a published command, so it works on a plan there is.
LEMMA WorkersPlan ==
    ASSUME IInv, NEW w \in Workers, pc[w] # "idle"
    PROVE  /\ holds[w] \in Published /\ Plan(w) \in Plans
           /\ plan[Plan(w)] \in Rows /\ seen[w] \in Rows
  BY DEF IInv, WorkerInv, TypeOK, Published, Plan, Commands

\* One advanced row is an advance of all of them.
LEMMA OneRowAdvances ==
    ASSUME TypeOK, NEW p \in Plans, NEW row \in Rows, RowAdvances(p, row)
    PROVE  RowsAdvance
  BY DEF RowAdvances, RowsAdvance, TypeOK, Rows, IsFinished

\* store writes the worker's copy only over the row it is a copy of.
LEMMA StoreAdvances ==
    ASSUME IInv, NEW w \in Workers, pc[w] \in {"advance", "submitted"},
           NEW next, NEW row \in Rows, Store(w, next, row),
           row.version = seen[w].version + 1,
           IsSubmitted(seen[w]) => row.tx = seen[w].tx
    PROVE  \/ /\ SameVersion(w) /\ seen[w] = plan[Plan(w)] /\ ~ IsFinished(seen[w])
              /\ RowAdvances(Plan(w), row)
              /\ pc' = [pc EXCEPT ![w] = "advance"]
              /\ seen' = [seen EXCEPT ![w] = row]
           \/ /\ UNCHANGED <<plan, seen>>
              /\ pc' = [pc EXCEPT ![w] = "failing"]
  <1>1. CopyInv(w, Plan(w)) /\ seen[w] \in Rows
    BY WorkersPlan DEF IInv, WorkerInv
  <1>2. CASE MayBecome(seen[w], next) /\ SameVersion(w)
    <2>1. seen[w] = plan[Plan(w)] /\ ~ IsFinished(seen[w])
      BY <1>1, <1>2, FinishedStays DEF CopyInv, SameVersion
    <2> QED
      BY <1>2, <2>1 DEF Store, RowAdvances, Goto
  <1>3. CASE ~ (MayBecome(seen[w], next) /\ SameVersion(w))
    BY <1>3 DEF Store, Goto
  <1> QED
    BY <1>2, <1>3

\* Every step of the system leaves the rows alone or advances them.
LEMMA PlanStep == IInv /\ [Next]_vars => RowsAdvance
  <1> SUFFICES ASSUME IInv, [Next]_vars PROVE RowsAdvance
    OBVIOUS
  <1> USE DEF rows
  <1>t. TypeOK
    BY DEF IInv
  <1>u. ASSUME UNCHANGED plan PROVE RowsAdvance
    BY <1>t, <1>u DEF RowsAdvance, TypeOK, Rows
  <1>1. CASE PlanTransfers
    <2>1. \A p \in Plans : plan[p] = NoRow
      BY <1>1 DEF PlanTransfers, IInv, PlannedInv
    <2> QED
      BY <1>1, <2>1 DEF PlanTransfers, NoRow, NewPlan, RowsAdvance, IsSubmitted, IsFinished
  <1>2. ASSUME NEW w \in Workers, StoreSubmission(w) PROVE RowsAdvance
    <2>1. pc[w] = "submitted" /\ receipt[w] \in Txs /\ ~ IsSubmitted(seen[w])
      BY <1>2 DEF StoreSubmission, IInv, WorkerInv
    <2>2. Plan(w) \in Plans /\ seen[w] \in Rows
      BY <2>1, WorkersPlan
    <2> QED
      BY <1>2, <1>t, <1>u, <2>1, <2>2, SubmittedIsARow, StoreAdvances, OneRowAdvances
      DEF StoreSubmission
  <1>3. ASSUME NEW w \in Workers, ConfirmConsensus(w) PROVE RowsAdvance
    <2>1. pc[w] = "advance" /\ Plan(w) \in Plans /\ seen[w] \in Rows
      BY <1>3, WorkersPlan DEF ConfirmConsensus, AtConsensus
    <2>2. CASE Succeeded(w)
      BY <1>3, <1>t, <1>u, <2>1, <2>2, MovedIsARow, StoreAdvances, OneRowAdvances
      DEF ConfirmConsensus, States
    <2> QED
      BY <1>3, <1>u, <2>2 DEF ConfirmConsensus
  <1>4. ASSUME NEW w \in Workers, ConfirmMirror(w) PROVE RowsAdvance
    <2>1. pc[w] = "advance" /\ Plan(w) \in Plans /\ seen[w] \in Rows
      BY <1>4, WorkersPlan DEF ConfirmMirror, AtMirror
    <2>2. CASE Succeeded(w) /\ Credited(w)
      BY <1>4, <1>t, <1>u, <2>1, <2>2, MovedIsARow, StoreAdvances, OneRowAdvances
      DEF ConfirmMirror, States
    <2> QED
      BY <1>4, <1>u, <2>2 DEF ConfirmMirror
  <1>5. ASSUME NEW w \in Workers, CommitAccounts(w) PROVE RowsAdvance
    <2>1. /\ pc[w] = "accounting" /\ Plan(w) \in Plans /\ seen[w] \in Rows
          /\ CopyInv(w, Plan(w)) /\ BooksInv(w, Plan(w))
      BY <1>5, WorkersPlan DEF CommitAccounts, IInv, WorkerInv
    <2>2. CASE StillCurrent(w)
      <3>1. seen[w] = plan[Plan(w)]
        BY <2>1, <2>2 DEF StillCurrent, SameVersion, CopyInv
      <3> QED
        BY <1>5, <1>t, <2>1, <2>2, <3>1, MovedIsARow, OneRowAdvances
        DEF CommitAccounts, RowAdvances, BooksInv, States
    <2>3. CASE ~ StillCurrent(w)
      BY <1>5, <1>u, <2>3 DEF CommitAccounts
    <2> QED
      BY <2>2, <2>3
  <1>6. ASSUME NEW w \in Workers, RecordFailure(w) PROVE RowsAdvance
    <2>1. Plan(w) \in Plans /\ plan[Plan(w)] \in Rows
      BY <1>6, WorkersPlan DEF RecordFailure
    <2>2. CASE IsFinished(plan[Plan(w)])
      BY <1>6, <1>t, <1>u, <2>1, <2>2 DEF RecordFailure, Failed, TypeOK
    <2>3. CASE ~ IsFinished(plan[Plan(w)])
      BY <1>6, <1>t, <2>1, <2>3, MovedIsARow, OneRowAdvances
      DEF RecordFailure, Failed, RowAdvances, States
    <2> QED
      BY <2>2, <2>3
  <1>7. ASSUME ~ PlanTransfers,
               \A w \in Workers : /\ ~ StoreSubmission(w) /\ ~ ConfirmConsensus(w)
                                  /\ ~ ConfirmMirror(w) /\ ~ CommitAccounts(w)
                                  /\ ~ RecordFailure(w)
        PROVE  UNCHANGED plan
    BY <1>7 DEF Next, Step, vars, SettleAgain, ListExisting, QueueSettlements, SettleFails,
       Claim, Handle, TransferOnChain, TransferInProcess,
       NotYetVisible, ReadAccounts, MarkDelivered, StepFails, StoreFails, RecordingFails,
       Crash, Decide, ReadHolders, CommitRepayment, Default
  <1> QED
    BY <1>u, <1>1, <1>2, <1>3, <1>4, <1>5, <1>6, <1>7

\* What else never goes back: a credit on the chain, a published command, a receivable that
\* left the market.
CreditStays == \A p \in Plans, k \in Txs : chain[p][k] = "credited" => chain'[p][k] = "credited"
QueueGrows == \A p \in Plans : queued[p] <= queued'[p]
SalesEnd == \A i \in Invoices : invoice[i] # "ALLOCATED" => invoice'[i] # "ALLOCATED"

\* The chain only decides what it had not decided.
LEMMA CreditStep == IInv /\ [Next]_vars => CreditStays
  <1> SUFFICES ASSUME IInv, [Next]_vars PROVE CreditStays
    OBVIOUS
  <1> USE DEF network
  <1>t. TypeOK
    BY DEF IInv
  <1>1. ASSUME NEW w \in Workers, TransferOnChain(w) PROVE CreditStays
    <2>1. PICK k \in Txs : /\ chain[Plan(w)][k] = "none"
                           /\ chain' = [chain EXCEPT ![Plan(w)][k] = "unseen"]
      BY <1>1 DEF TransferOnChain
    <2> QED
      BY <1>t, <2>1 DEF CreditStays, TypeOK
  <1>2. ASSUME NEW w \in Workers, TransferInProcess(w) PROVE CreditStays
    BY <1>2, <1>t DEF TransferInProcess, CreditStays, TypeOK
  <1>3. ASSUME NEW p \in Plans, NEW k \in Txs, Decide(p, k) PROVE CreditStays
    <2>1. PICK verdict \in Outcomes : chain' = [chain EXCEPT ![p][k] = verdict]
      BY <1>3 DEF Decide
    <2> QED
      BY <1>t, <1>3, <2>1 DEF Decide, CreditStays, TypeOK
  <1>4. ASSUME \A w \in Workers : ~ TransferOnChain(w) /\ ~ TransferInProcess(w),
               \A p \in Plans, k \in Txs : ~ Decide(p, k)
        PROVE  UNCHANGED chain
    BY <1>4 DEF Next, Step, vars, PlanTransfers, SettleAgain, ListExisting, QueueSettlements,
       SettleFails, Claim, Handle, StoreSubmission,
       ConfirmConsensus, ConfirmMirror, NotYetVisible, ReadAccounts, CommitAccounts,
       RecordFailure, MarkDelivered, StepFails, StoreFails, RecordingFails, Crash,
       ReadHolders, CommitRepayment, Default
  <1> QED
    BY <1>1, <1>2, <1>3, <1>4 DEF CreditStays

\* Commands are published for plans that have none or fewer.
LEMMA QueueStep == IInv /\ [Next]_vars => QueueGrows
  <1> SUFFICES ASSUME IInv, [Next]_vars PROVE QueueGrows
    OBVIOUS
  <1> USE DEF outbox
  <1>t. queued \in [Plans -> 0..MaxCommands] /\ \A p \in Plans : queued[p] \in Nat
    BY SettlementAssumption DEF IInv, TypeOK
  <1>1. CASE PlanTransfers
    BY <1>1 DEF PlanTransfers, IInv, PlannedInv, QueueGrows
  <1>2. CASE SettleAgain
    BY <1>2, <1>t DEF SettleAgain, ListExisting, QueueSettlements, SettleFails, QueueGrows
  <1>3. ASSUME ~ PlanTransfers, ~ SettleAgain PROVE UNCHANGED queued
    BY <1>3 DEF Next, Step, vars, Claim, Handle, TransferOnChain, TransferInProcess,
       StoreSubmission, ConfirmConsensus, ConfirmMirror, NotYetVisible, ReadAccounts,
       CommitAccounts, RecordFailure, MarkDelivered, StepFails, StoreFails, RecordingFails,
       Crash, Decide, ReadHolders, CommitRepayment, Default
  <1> QED
    BY <1>t, <1>1, <1>2, <1>3 DEF QueueGrows

\* No step puts a receivable back on sale.
LEMMA SaleStep == IInv /\ [Next]_vars => SalesEnd
  <1> SUFFICES ASSUME IInv, [Next]_vars PROVE SalesEnd
    OBVIOUS
  <1> USE DEF rows
  <1>t. TypeOK
    BY DEF IInv
  <1>1. ASSUME NEW w \in Workers, CommitAccounts(w) PROVE SalesEnd
    BY <1>1, <1>t DEF CommitAccounts, InvoiceAfter, SalesEnd, TypeOK
  <1>2. ASSUME NEW i \in Invoices, CommitRepayment(i) PROVE SalesEnd
    BY <1>2, <1>t DEF CommitRepayment, SalesEnd, TypeOK
  <1>3. ASSUME NEW i \in Invoices, Default(i) PROVE SalesEnd
    BY <1>3, <1>t DEF Default, SalesEnd, TypeOK
  <1>4. ASSUME \A w \in Workers : ~ CommitAccounts(w),
               \A i \in Invoices : ~ CommitRepayment(i) /\ ~ Default(i)
        PROVE  UNCHANGED invoice
    BY <1>4 DEF Next, Step, vars, PlanTransfers, SettleAgain, ListExisting, QueueSettlements,
       SettleFails, Claim, Handle, TransferOnChain,
       TransferInProcess, StoreSubmission, ConfirmConsensus, ConfirmMirror, NotYetVisible,
       ReadAccounts, RecordFailure, MarkDelivered, StepFails, StoreFails, RecordingFails,
       Crash, Decide, ReadHolders
  <1> QED
    BY <1>1, <1>2, <1>3, <1>4 DEF SalesEnd

-------------------------------------------------------------------------------
(* Rows and copies *)

\* A row nobody wrote keeps what its state says about the chain.
LEMMA UnwrittenRow ==
    ASSUME IInv, CreditStays, NEW p \in Plans, plan'[p] = plan[p]
    PROVE  RowInv(p)'
  <1>1. RowInv(p) /\ plan[p] \in Rows
    BY DEF IInv, TypeOK
  <1> QED
    BY <1>1 DEF RowInv, CreditedOnChain, CreditStays, Confirmed, IsSubmitted, Rows, Txs, NoTx

\* Nor does it lose it when the write keeps the transaction and does not claim a credit.
LEMMA WrittenRow ==
    ASSUME IInv, CreditStays, NEW p \in Plans, NEW row \in Rows, plan' = [plan EXCEPT ![p] = row],
           Confirmed(row) => IsSubmitted(row),
           row.state \in {"MIRROR_CONFIRMED", "ACCOUNTED"} => CreditedOnChain(p, row),
           NEW q \in Plans
    PROVE  RowInv(q)'
  <1>1. CASE q = p
    <2>1. plan'[q] = row
      BY <1>1 DEF IInv, TypeOK
    <2> QED
      BY <1>1, <2>1 DEF RowInv, CreditedOnChain, CreditStays, Confirmed, IsSubmitted, Rows, Txs, NoTx
  <1>2. CASE q # p
    BY <1>2, UnwrittenRow DEF IInv, TypeOK
  <1> QED
    BY <1>1, <1>2

\* A stored state never says more about the chain than the chain does.
LEMMA RowStep == IInv /\ [Next]_vars => \A q \in Plans : RowInv(q)'
  <1> SUFFICES ASSUME IInv, [Next]_vars, NEW q \in Plans PROVE RowInv(q)'
    OBVIOUS
  <1> USE DEF rows
  <1>c. CreditStays
    BY CreditStep
  <1>u. ASSUME UNCHANGED plan PROVE RowInv(q)'
    BY <1>c, <1>u, UnwrittenRow
  <1>1. CASE PlanTransfers
    BY <1>1 DEF PlanTransfers, NewPlan, RowInv, Confirmed, IsSubmitted
  <1>2. ASSUME NEW w \in Workers, StoreSubmission(w) PROVE RowInv(q)'
    <2>1. pc[w] = "submitted" /\ receipt[w] \in Txs /\ ~ IsSubmitted(seen[w])
      BY <1>2 DEF StoreSubmission, IInv, WorkerInv
    <2> DEFINE row == Submitted(seen[w], receipt[w])
    <2>2. /\ Plan(w) \in Plans /\ row \in Rows
          /\ row.version = seen[w].version + 1 /\ row.state = "SUBMITTED"
          /\ IsSubmitted(row)
      BY <2>1, WorkersPlan, SubmittedIsARow DEF IsSubmitted, Txs, NoTx
    <2>3. Store(w, "SUBMITTED", row)
      BY <1>2 DEF StoreSubmission
    <2> HIDE DEF row
    <2>4. UNCHANGED plan \/ RowAdvances(Plan(w), row)
      BY <2>1, <2>2, <2>3, StoreAdvances
    <2> QED
      BY <1>c, <1>u, <2>2, <2>4, WrittenRow DEF RowAdvances, Confirmed
  <1>3. ASSUME NEW w \in Workers, ConfirmConsensus(w) PROVE RowInv(q)'
    <2>1. pc[w] = "advance" /\ IsSubmitted(seen[w])
      BY <1>3 DEF ConfirmConsensus, AtConsensus
    <2> DEFINE row == Moved(seen[w], "CONSENSUS_CONFIRMED")
    <2>2. /\ Plan(w) \in Plans /\ row \in Rows
          /\ row.version = seen[w].version + 1 /\ row.state = "CONSENSUS_CONFIRMED"
          /\ row.tx = seen[w].tx /\ IsSubmitted(row)
      BY <2>1, WorkersPlan, MovedIsARow DEF IsSubmitted, States
    <2>3. UNCHANGED plan \/ Store(w, "CONSENSUS_CONFIRMED", row)
      BY <1>3 DEF ConfirmConsensus
    <2> HIDE DEF row
    <2>4. UNCHANGED plan \/ RowAdvances(Plan(w), row)
      BY <2>1, <2>2, <2>3, StoreAdvances
    <2> QED
      BY <1>c, <1>u, <2>2, <2>4, WrittenRow DEF RowAdvances, Confirmed
  <1>4. ASSUME NEW w \in Workers, ConfirmMirror(w) PROVE RowInv(q)'
    <2>1. pc[w] = "advance" /\ IsSubmitted(seen[w])
      BY <1>4 DEF ConfirmMirror, AtMirror
    <2> DEFINE row == Moved(seen[w], "MIRROR_CONFIRMED")
    <2>2. /\ Plan(w) \in Plans /\ row \in Rows
          /\ row.version = seen[w].version + 1 /\ row.state = "MIRROR_CONFIRMED"
          /\ row.tx = seen[w].tx /\ IsSubmitted(row)
      BY <2>1, WorkersPlan, MovedIsARow DEF IsSubmitted, States
    <2>3. \/ UNCHANGED plan
          \/ Store(w, "MIRROR_CONFIRMED", row) /\ CreditedOnChain(Plan(w), row)
      BY <1>4, <2>2 DEF ConfirmMirror, Credited, Verdict, CreditedOnChain
    <2> HIDE DEF row
    <2>4. \/ UNCHANGED plan
          \/ RowAdvances(Plan(w), row) /\ CreditedOnChain(Plan(w), row)
      BY <2>1, <2>2, <2>3, StoreAdvances
    <2> QED
      BY <1>c, <1>u, <2>2, <2>4, WrittenRow DEF RowAdvances, Confirmed
  <1>5. ASSUME NEW w \in Workers, CommitAccounts(w) PROVE RowInv(q)'
    <2>1. pc[w] = "accounting" /\ CreditedOnChain(Plan(w), seen[w])
      BY <1>5 DEF CommitAccounts, IInv, WorkerInv, BooksInv
    <2> DEFINE row == Moved(seen[w], "ACCOUNTED")
    <2>2. /\ Plan(w) \in Plans /\ row \in Rows
          /\ IsSubmitted(row) /\ CreditedOnChain(Plan(w), row)
      BY <2>1, WorkersPlan, MovedIsARow DEF IsSubmitted, CreditedOnChain, States
    <2>3. UNCHANGED plan \/ plan' = [plan EXCEPT ![Plan(w)] = row]
      BY <1>5 DEF CommitAccounts
    <2> HIDE DEF row
    <2> QED
      BY <1>c, <1>u, <2>2, <2>3, WrittenRow
  <1>6. ASSUME NEW w \in Workers, RecordFailure(w) PROVE RowInv(q)'
    <2>1. Plan(w) \in Plans /\ plan[Plan(w)] \in Rows
      BY <1>6, WorkersPlan DEF RecordFailure
    <2>2. CASE IsFinished(plan[Plan(w)])
      BY <1>6, <1>u, <2>1, <2>2 DEF RecordFailure, Failed, IInv, TypeOK
    <2>3. CASE ~ IsFinished(plan[Plan(w)])
      <3> DEFINE row == Moved(plan[Plan(w)], "FAILED")
      <3>1. row \in Rows /\ row.state = "FAILED"
        BY <2>1, MovedIsARow DEF States
      <3>2. plan' = [plan EXCEPT ![Plan(w)] = row]
        BY <1>6, <2>1, <2>3 DEF RecordFailure, Failed
      <3> HIDE DEF row
      <3> QED
        BY <1>c, <2>1, <3>1, <3>2, WrittenRow DEF Confirmed
    <2> QED
      BY <2>2, <2>3
  <1>7. ASSUME ~ PlanTransfers,
               \A w \in Workers : /\ ~ StoreSubmission(w) /\ ~ ConfirmConsensus(w)
                                  /\ ~ ConfirmMirror(w) /\ ~ CommitAccounts(w)
                                  /\ ~ RecordFailure(w)
        PROVE  UNCHANGED plan
    BY <1>7 DEF Next, Step, vars, SettleAgain, ListExisting, QueueSettlements, SettleFails,
       Claim, Handle, TransferOnChain, TransferInProcess,
       NotYetVisible, ReadAccounts, MarkDelivered, StepFails, StoreFails, RecordingFails,
       Crash, Decide, ReadHolders, CommitRepayment, Default
  <1> QED
    BY <1>u, <1>1, <1>2, <1>3, <1>4, <1>5, <1>6, <1>7

\* A copy nobody refreshed still says of the row what it said.
LEMMA OldCopy ==
    ASSUME IInv, RowsAdvance, CreditStays, NEW w \in Workers, NEW p \in Plans,
           CopyInv(w, p), seen'[w] = seen[w], plan'[p] \in Rows
    PROVE  CopyInv(w, p)'
  <1>1. plan[p] \in Rows /\ seen[w] \in Rows
    BY DEF IInv, TypeOK
  <1>2. /\ plan[p].version <= plan'[p].version
        /\ plan'[p].version = plan[p].version => plan'[p] = plan[p]
        /\ IsSubmitted(plan[p]) => plan'[p].tx = plan[p].tx
    BY DEF RowsAdvance
  <1>3. /\ seen[w].version <= plan[p].version
        /\ plan[p].version = seen[w].version => seen[w] = plan[p]
    BY <1>1 DEF CopyInv, Rows
  <1> QED
    BY <1>1, <1>2, <1>3
    DEF CopyInv, CreditedOnChain, CreditStays, Confirmed, IsSubmitted, Rows, Txs, NoTx

\* A copy just taken, or just written, says what the row says.
LEMMA FreshCopy ==
    ASSUME NEW w \in Workers, NEW p \in Plans, RowInv(p)', plan'[p] \in Rows,
           seen'[w] = plan'[p]
    PROVE  CopyInv(w, p)'
  BY DEF RowInv, CopyInv, CreditedOnChain, Confirmed, IsSubmitted, Rows

\* A published command stays published.
LEMMA StillPublished ==
    ASSUME IInv, TypeOK', QueueGrows, NEW c \in Published
    PROVE  c \in Published'
  <1>1. c \in Commands /\ c[1] \in Plans /\ c[2] <= queued[c[1]] /\ c[2] \in Nat
    BY DEF Published, Commands
  <1>2. queued[c[1]] \in Nat /\ queued'[c[1]] \in Nat
    BY <1>1, SettlementAssumption DEF IInv, TypeOK
  <1> QED
    BY <1>1, <1>2 DEF QueueGrows, Published

\* What another worker does leaves a worker's knowledge true.
LEMMA Bystander ==
    ASSUME IInv, TypeOK', RowsAdvance, CreditStays, QueueGrows, SalesEnd, NEW w \in Workers,
           pc'[w] = pc[w], holds'[w] = holds[w], seen'[w] = seen[w],
           receipt'[w] = receipt[w], decided'[w] = decided[w]
    PROVE  WorkerInv(w)'
  <1>0. WorkerInv(w)
    BY DEF IInv
  <1>1. CASE pc[w] = "idle"
    BY <1>1 DEF WorkerInv
  <1>2. CASE pc[w] # "idle"
    <2>1. /\ holds[w] \in Published /\ Plan(w) \in Plans
          /\ plan[Plan(w)] \in Rows /\ seen[w] \in Rows
      BY <1>2, WorkersPlan
    <2>2. Plan(w)' = Plan(w) /\ plan'[Plan(w)] \in Rows
      BY <2>1 DEF Plan, TypeOK
    <2>3. holds'[w] \in Published'
      BY <2>1, StillPublished
    <2>4. ASSUME pc[w] \in {"advance", "submitted", "accounting"} PROVE CopyInv(w, Plan(w))'
      <3>1. CopyInv(w, Plan(w))
        BY <1>0, <2>4 DEF WorkerInv
      <3>2. ASSUME NEW p \in Plans, p = Plan(w) PROVE CopyInv(w, p)'
        BY <2>2, <3>1, <3>2, OldCopy
      <3> QED
        BY <2>1, <2>2, <3>2
    <2>5. ASSUME pc[w] = "accounting" PROVE BooksInv(w, Plan(w))'
      <3>1. BooksInv(w, Plan(w))
        BY <1>0, <2>5 DEF WorkerInv
      <3>2. CreditedOnChain(Plan(w), seen[w])' /\ ~ IsFinished(seen'[w])
        BY <2>1, <2>2, <3>1 DEF BooksInv, CreditedOnChain, CreditStays, IsSubmitted, Rows, Txs, NoTx
      <3>3. OthersFinished(Plan(w)) => OthersFinished(Plan(w))'
        BY <2>2 DEF OthersFinished, RowsAdvance
      <3>4. InvoiceOf[Plan(w)] \in Invoices
        BY <2>1, SettlementAssumption
      <3> QED
        BY <2>2, <3>1, <3>2, <3>3, <3>4 DEF BooksInv, SalesEnd
    <2>6. ASSUME pc[w] = "finished" PROVE IsFinished(plan[Plan(w)])'
      BY <1>0, <2>1, <2>2, <2>6 DEF WorkerInv, RowsAdvance
    <2>7. pc[w] = "submitted" => receipt'[w] \in Txs /\ ~ IsSubmitted(seen'[w])
      BY <1>0 DEF WorkerInv
    <2> QED
      BY <2>3, <2>4, <2>5, <2>6, <2>7 DEF WorkerInv
  <1> QED
    BY <1>1, <1>2

\* The memory of the other workers is left alone.
OnlyActs(w) ==
    \A v \in Workers \ {w} :
        /\ pc'[v] = pc[v] /\ holds'[v] = holds[v] /\ seen'[v] = seen[v]
        /\ receipt'[v] = receipt[v] /\ decided'[v] = decided[v]

\* Whatever one worker does, its knowledge is still true afterwards.
LEMMA ActorStep ==
    ASSUME IInv, [Next]_vars, NEW w \in Workers,
           \/ \E c \in Commands : Claim(w, c)
           \/ Step(w)
           \/ StepFails(w) \/ StoreFails(w) \/ RecordingFails(w) \/ Crash(w)
    PROVE  OnlyActs(w) /\ WorkerInv(w)'
  <1> USE DEF rows, memory
  <1>t. TypeOK /\ TypeOK' /\ WorkerInv(w) /\ RowsAdvance /\ CreditStays /\ QueueGrows
    BY TypeStep, PlanStep, CreditStep, QueueStep DEF IInv
  <1>r. \A p \in Plans : RowInv(p)'
    BY RowStep
  <1>w. ASSUME pc[w] # "idle"
        PROVE  /\ holds[w] \in Published /\ holds[w] \in Published' /\ Plan(w) \in Plans
               /\ plan[Plan(w)] \in Rows /\ plan'[Plan(w)] \in Rows /\ seen[w] \in Rows
    BY <1>w, <1>t, WorkersPlan, StillPublished DEF TypeOK
  <1>a. ASSUME Release(w) PROVE OnlyActs(w) /\ WorkerInv(w)'
    BY <1>a, <1>t DEF Release, Goto, OnlyActs, WorkerInv, TypeOK
  <1>f. ASSUME pc[w] # "idle", Goto(w, "failing"), UNCHANGED holds PROVE WorkerInv(w)'
    BY <1>f, <1>t, <1>w DEF Goto, WorkerInv, TypeOK
  <1>s. ASSUME pc[w] \in {"advance", "submitted"}, UNCHANGED holds,
               NEW next, NEW row \in Rows, Store(w, next, row),
               row.version = seen[w].version + 1,
               IsSubmitted(seen[w]) => row.tx = seen[w].tx
        PROVE  WorkerInv(w)'
    <2>1. CASE /\ RowAdvances(Plan(w), row) /\ pc' = [pc EXCEPT ![w] = "advance"]
               /\ seen' = [seen EXCEPT ![w] = row]
      <3>1. plan'[Plan(w)] = row /\ pc'[w] = "advance" /\ seen'[w] = row
        BY <1>s, <1>t, <1>w, <2>1 DEF RowAdvances, TypeOK
      <3>2. \A p \in Plans : p = Plan(w) => CopyInv(w, p)'
        BY <1>r, <3>1, FreshCopy
      <3> QED
        BY <1>s, <1>w, <3>1, <3>2 DEF WorkerInv, Plan
    <2>2. CASE Goto(w, "failing")
      BY <1>f, <1>s, <2>2
    <2> QED
      BY <1>s, <2>1, <2>2, StoreAdvances DEF Goto
  <1>o. ASSUME NEW label, Goto(w, label), UNCHANGED <<holds, decided>>,
               seen' = seen \/ \E row \in Rows : seen' = [seen EXCEPT ![w] = row],
               receipt' = receipt \/ receipt' = [receipt EXCEPT ![w] = NoTx]
        PROVE  OnlyActs(w)
    BY <1>o, <1>t DEF Goto, OnlyActs, TypeOK
  <1>1. ASSUME NEW c \in Commands, Claim(w, c) PROVE OnlyActs(w) /\ WorkerInv(w)'
    <2>1. c \in Published /\ c \in Published'
      BY <1>1, <1>t, StillPublished DEF Claim, Published
    <2> QED
      BY <1>1, <1>t, <2>1 DEF Claim, Goto, OnlyActs, WorkerInv, TypeOK
  <1>2. CASE Handle(w)
    <2>1. OnlyActs(w) /\ pc[w] # "idle" /\ holds' = holds /\ plan' = plan
      BY <1>2, <1>t DEF Handle, Goto, OnlyActs, TypeOK
    <2>2. CASE AlreadyDone(plan[Plan(w)])
      BY <1>2, <1>t, <1>w, <2>1, <2>2 DEF Handle, AlreadyDone, Goto, WorkerInv, Plan, TypeOK
    <2>3. CASE ~ AlreadyDone(plan[Plan(w)])
      <3>1. pc'[w] = "advance" /\ seen'[w] = plan'[Plan(w)]
        BY <1>2, <1>t, <2>1, <2>3 DEF Handle, Goto, TypeOK
      <3>2. \A p \in Plans : p = Plan(w) => CopyInv(w, p)'
        BY <1>r, <1>w, <2>1, <3>1, FreshCopy
      <3> QED
        BY <1>w, <2>1, <3>1, <3>2 DEF WorkerInv, Plan
    <2> QED
      BY <2>2, <2>3
  <1>3. CASE TransferOnChain(w) \/ TransferInProcess(w)
    <2>1. /\ pc[w] = "advance" /\ ~ IsSubmitted(seen[w]) /\ OnlyActs(w)
          /\ UNCHANGED <<plan, holds, seen, decided>>
      BY <1>3, <1>t DEF TransferOnChain, TransferInProcess, AtSubmit, Goto, OnlyActs, TypeOK
    <2>2. \/ Goto(w, "failing")
          \/ pc'[w] = "submitted" /\ receipt'[w] \in Txs
      BY <1>3, <1>t, SettlementAssumption DEF TransferOnChain, TransferInProcess, Goto, TypeOK, Txs
    <2>3. \A p \in Plans : p = Plan(w) => CopyInv(w, p)'
      BY <1>t, <1>w, <2>1, OldCopy DEF WorkerInv
    <2>4. CASE pc'[w] = "submitted" /\ receipt'[w] \in Txs
      BY <1>w, <2>1, <2>3, <2>4 DEF WorkerInv, Plan
    <2> QED
      BY <1>f, <2>1, <2>2, <2>4
  <1>4. CASE StoreSubmission(w)
    <2>1. pc[w] = "submitted" /\ receipt[w] \in Txs /\ ~ IsSubmitted(seen[w])
      BY <1>4, <1>t DEF StoreSubmission, WorkerInv
    <2> DEFINE row == Submitted(seen[w], receipt[w])
    <2>2. row \in Rows /\ row.version = seen[w].version + 1
      BY <1>w, <2>1, SubmittedIsARow
    <2>3. Store(w, "SUBMITTED", row) /\ UNCHANGED <<holds, decided>>
          /\ receipt' = [receipt EXCEPT ![w] = NoTx]
      BY <1>4 DEF StoreSubmission
    <2> HIDE DEF row
    <2>4. WorkerInv(w)'
      BY <1>s, <2>1, <2>2, <2>3
    <2>5. OnlyActs(w)
      BY <1>o, <2>2, <2>3 DEF Store
    <2> QED
      BY <2>4, <2>5
  <1>5. CASE ConfirmConsensus(w)
    <2> DEFINE row == Moved(seen[w], "CONSENSUS_CONFIRMED")
    <2>1. pc[w] = "advance" /\ UNCHANGED <<holds, decided, receipt>>
          /\ \/ Store(w, "CONSENSUS_CONFIRMED", row)
             \/ Goto(w, "failing") /\ UNCHANGED <<plan, seen>>
      BY <1>5 DEF ConfirmConsensus, AtConsensus
    <2>2. row \in Rows /\ row.version = seen[w].version + 1 /\ row.tx = seen[w].tx
      BY <1>w, <2>1, MovedIsARow DEF States
    <2> HIDE DEF row
    <2>3. WorkerInv(w)'
      BY <1>f, <1>s, <2>1, <2>2
    <2>4. OnlyActs(w)
      BY <1>o, <2>1, <2>2 DEF Store
    <2> QED
      BY <2>3, <2>4
  <1>6. CASE ConfirmMirror(w)
    <2> DEFINE row == Moved(seen[w], "MIRROR_CONFIRMED")
    <2>1. pc[w] = "advance" /\ UNCHANGED <<holds, decided, receipt>>
          /\ \/ Store(w, "MIRROR_CONFIRMED", row)
             \/ Goto(w, "failing") /\ UNCHANGED <<plan, seen>>
      BY <1>6 DEF ConfirmMirror, AtMirror
    <2>2. row \in Rows /\ row.version = seen[w].version + 1 /\ row.tx = seen[w].tx
      BY <1>w, <2>1, MovedIsARow DEF States
    <2> HIDE DEF row
    <2>3. WorkerInv(w)'
      BY <1>f, <1>s, <2>1, <2>2
    <2>4. OnlyActs(w)
      BY <1>o, <2>1, <2>2 DEF Store
    <2> QED
      BY <2>3, <2>4
  <1>7. CASE NotYetVisible(w)
    <2>1. pc[w] # "idle" /\ Goto(w, "failing") /\ UNCHANGED <<holds, seen, receipt, decided>>
      BY <1>7 DEF NotYetVisible, AtConsensus, AtMirror
    <2> QED
      BY <1>f, <1>o, <2>1
  <1>8. CASE ReadAccounts(w)
    <2>1. /\ pc[w] = "advance" /\ IsSubmitted(seen[w]) /\ seen[w].state = "MIRROR_CONFIRMED"
          /\ UNCHANGED <<plan, invoice, chain, holds, receipt>>
          /\ CopyInv(w, Plan(w))
      BY <1>8, <1>t DEF ReadAccounts, AtAccount, network, WorkerInv
    <2>2. CASE Goto(w, "finished") /\ IsFinished(plan[Plan(w)]) /\ UNCHANGED <<seen, decided>>
      <3>1. OnlyActs(w)
        BY <1>o, <2>1, <2>2
      <3> QED
        BY <1>t, <1>w, <2>1, <2>2, <3>1 DEF Goto, WorkerInv, Plan, TypeOK
    <2>3. CASE Goto(w, "failing") /\ UNCHANGED <<seen, decided>>
      BY <1>f, <1>o, <2>1, <2>3
    <2> DEFINE settle == invoice[InvoiceOf[Plan(w)]] = "ALLOCATED"
               close == OthersFinished(Plan(w)) /\ auction # "SETTLED"
    <2>4. CASE /\ Goto(w, "accounting") /\ ~ IsFinished(plan[Plan(w)])
               /\ seen' = [seen EXCEPT ![w] = plan[Plan(w)]]
               /\ decided' = [decided EXCEPT ![w] = [settle |-> settle, close |-> close]]
      <3>1. /\ OnlyActs(w) /\ pc'[w] = "accounting" /\ seen'[w] = plan'[Plan(w)]
            /\ decided'[w].settle = settle /\ decided'[w].close = close
        BY <1>t, <2>1, <2>4 DEF Goto, OnlyActs, TypeOK
      <3>2. \A p \in Plans : p = Plan(w) => CopyInv(w, p)'
        BY <1>r, <1>w, <2>1, <3>1, FreshCopy
      <3>3. CreditedOnChain(Plan(w), seen[w])' /\ ~ IsFinished(seen'[w])
        <4>1. seen'[w].tx = seen[w].tx
          BY <2>1, <3>1 DEF CopyInv
        <4>2. CreditedOnChain(Plan(w), seen[w])
          BY <2>1 DEF CopyInv
        <4> QED
          BY <2>1, <2>4, <3>1, <4>1, <4>2 DEF CreditedOnChain, IsSubmitted, Plan
      <3>4. OthersFinished(Plan(w)) => OthersFinished(Plan(w))'
        BY <2>1 DEF OthersFinished, Plan
      <3>5. BooksInv(w, Plan(w))'
        BY <2>1, <3>1, <3>3, <3>4 DEF BooksInv, Plan
      <3> QED
        BY <1>w, <2>1, <3>1, <3>2, <3>5 DEF WorkerInv, Plan
    <2> QED
      BY <1>8, <2>2, <2>3, <2>4 DEF ReadAccounts
  <1>9. CASE CommitAccounts(w)
    <2>1. pc[w] = "accounting" /\ UNCHANGED <<holds, seen, receipt>>
      BY <1>9 DEF CommitAccounts
    <2>2. \E label \in Labels : pc' = [pc EXCEPT ![w] = label]
      BY <1>9 DEF CommitAccounts, Goto, Labels
    <2>3. OnlyActs(w)
      BY <1>9, <1>t, <2>1, <2>2 DEF CommitAccounts, OnlyActs, TypeOK
    <2>4. CASE StillCurrent(w)
      <3>1. plan'[Plan(w)] = Moved(seen[w], "ACCOUNTED") /\ pc'[w] = "finished"
        BY <1>9, <1>t, <1>w, <2>1, <2>4 DEF CommitAccounts, Goto, TypeOK
      <3>2. IsFinished(plan'[Plan(w)])
        BY <1>w, <2>1, <3>1, MovedIsARow DEF IsFinished, States
      <3> QED
        BY <1>w, <2>1, <2>3, <3>1, <3>2 DEF WorkerInv, Plan
    <2>5. CASE ~ StillCurrent(w)
      BY <1>9, <1>f, <2>1, <2>3, <2>5 DEF CommitAccounts
    <2> QED
      BY <2>4, <2>5
  <1>10. CASE RecordFailure(w) \/ RecordingFails(w) \/ MarkDelivered(w) \/ Crash(w)
    BY <1>a, <1>10 DEF RecordFailure, RecordingFails, MarkDelivered, Crash
  <1>11. CASE StepFails(w) \/ StoreFails(w)
    <2>1. /\ pc[w] # "idle" /\ Goto(w, "failing") /\ UNCHANGED <<holds, seen>>
          /\ decided' = decided \/ decided' = [decided EXCEPT ![w] = Undecided]
          /\ receipt' = receipt \/ receipt' = [receipt EXCEPT ![w] = NoTx]
      BY <1>11 DEF StepFails, StoreFails
    <2>2. OnlyActs(w)
      BY <1>t, <2>1 DEF Goto, OnlyActs, TypeOK
    <2> QED
      BY <1>f, <2>1, <2>2
  <1> QED
    BY <1>1, <1>2, <1>3, <1>4, <1>5, <1>6, <1>7, <1>8, <1>9, <1>10, <1>11 DEF Step

\* What workers know stays true whoever acts.
LEMMA WorkerStep == IInv /\ [Next]_vars => \A w \in Workers : WorkerInv(w)'
  <1> SUFFICES ASSUME IInv, [Next]_vars, NEW w \in Workers PROVE WorkerInv(w)'
    OBVIOUS
  <1>1. ASSUME pc'[w] = pc[w], holds'[w] = holds[w], seen'[w] = seen[w],
               receipt'[w] = receipt[w], decided'[w] = decided[w]
        PROVE  WorkerInv(w)'
    BY <1>1, TypeStep, PlanStep, CreditStep, QueueStep, SaleStep, Bystander
  <1>2. ASSUME NEW u \in Workers,
               \/ \E c \in Commands : Claim(u, c)
               \/ Step(u)
               \/ StepFails(u) \/ StoreFails(u) \/ RecordingFails(u) \/ Crash(u)
        PROVE  WorkerInv(w)'
    <2>1. OnlyActs(u) /\ WorkerInv(u)'
      BY <1>2, ActorStep
    <2> QED
      BY <1>1, <2>1 DEF OnlyActs
  <1>3. ASSUME \A u \in Workers :
                 ~ (\/ \E c \in Commands : Claim(u, c)
                    \/ Step(u)
                    \/ StepFails(u) \/ StoreFails(u) \/ RecordingFails(u) \/ Crash(u))
        PROVE  UNCHANGED <<pc, holds, seen, receipt, decided>>
    BY <1>3 DEF Next, vars, memory, PlanTransfers, SettleAgain, ListExisting, QueueSettlements,
       SettleFails, Decide, ReadHolders,
       CommitRepayment, Default
  <1> QED
    BY <1>1, <1>2, <1>3

-------------------------------------------------------------------------------
(* The books *)

\* Only the accounting transaction finishes a transfer.
LEMMA OnlyAccountsFinish ==
    ASSUME IInv, [Next]_vars, \A w \in Workers : ~ CommitAccounts(w),
           NEW p \in Plans, ~ IsFinished(plan[p])
    PROVE  ~ IsFinished(plan'[p])
  <1> USE DEF rows
  <1>t. plan \in [Plans -> Rows]
    BY DEF IInv, TypeOK
  <1>s. ASSUME NEW w \in Workers, pc[w] # "idle", NEW next \in States \ {"ACCOUNTED"},
               NEW row \in Rows, row.state = next, Store(w, next, row)
        PROVE  ~ IsFinished(plan'[p])
    BY <1>t, <1>s DEF Store, IsFinished
  <1>1. CASE PlanTransfers
    BY <1>1 DEF PlanTransfers, NewPlan, IsFinished
  <1>2. ASSUME NEW w \in Workers, StoreSubmission(w) PROVE ~ IsFinished(plan'[p])
    <2>1. pc[w] # "idle" /\ receipt[w] \in Txs
      BY <1>2 DEF StoreSubmission, IInv, WorkerInv
    <2> QED
      BY <1>2, <1>s, <2>1, WorkersPlan, SubmittedIsARow DEF StoreSubmission, States
  <1>3. ASSUME NEW w \in Workers, ConfirmConsensus(w) PROVE ~ IsFinished(plan'[p])
    <2>1. pc[w] # "idle" /\ seen[w] \in Rows
      BY <1>3, WorkersPlan DEF ConfirmConsensus, AtConsensus
    <2> QED
      BY <1>3, <1>s, <2>1, MovedIsARow DEF ConfirmConsensus, States
  <1>4. ASSUME NEW w \in Workers, ConfirmMirror(w) PROVE ~ IsFinished(plan'[p])
    <2>1. pc[w] # "idle" /\ seen[w] \in Rows
      BY <1>4, WorkersPlan DEF ConfirmMirror, AtMirror
    <2> QED
      BY <1>4, <1>s, <2>1, MovedIsARow DEF ConfirmMirror, States
  <1>5. ASSUME NEW w \in Workers, RecordFailure(w) PROVE ~ IsFinished(plan'[p])
    <2>1. Plan(w) \in Plans /\ plan[Plan(w)] \in Rows
      BY <1>5, WorkersPlan DEF RecordFailure
    <2> QED
      BY <1>5, <1>t, <2>1, MovedIsARow DEF RecordFailure, Failed, IsFinished, States
  <1>6. ASSUME ~ PlanTransfers,
               \A w \in Workers : /\ ~ StoreSubmission(w) /\ ~ ConfirmConsensus(w)
                                  /\ ~ ConfirmMirror(w) /\ ~ RecordFailure(w)
        PROVE  UNCHANGED plan
    BY <1>6 DEF Next, Step, vars, SettleAgain, ListExisting, QueueSettlements, SettleFails,
       Claim, Handle, TransferOnChain, TransferInProcess,
       NotYetVisible, ReadAccounts, MarkDelivered, StepFails, StoreFails, RecordingFails,
       Crash, Decide, ReadHolders, CommitRepayment, Default
  <1> QED
    BY <1>1, <1>2, <1>3, <1>4, <1>5, <1>6

\* A receivable and the batch move with the transfer that moves them, and never ahead of it.
LEMMA BooksStep ==
    ASSUME IInv, [Next]_vars
    PROVE  InvoiceFollowsTransfers' /\ SettledBatchIsAccounted'
  <1> USE DEF rows
  <1>t. TypeOK /\ RowsAdvance /\ InvoiceFollowsTransfers /\ SettledBatchIsAccounted
    BY PlanStep DEF IInv
  <1>g. \A i \in Invoices : Accounted(i) \subseteq Accounted(i)'
    BY <1>t DEF RowsAdvance, Accounted
  <1>1. ASSUME NEW w \in Workers, CommitAccounts(w), StillCurrent(w)
        PROVE  InvoiceFollowsTransfers' /\ SettledBatchIsAccounted'
    <2> DEFINE p == Plan(w)
    <2>1. /\ p \in Plans /\ seen[w] \in Rows /\ pc[w] = "accounting" /\ BooksInv(w, p)
          /\ InvoiceOf[p] \in Invoices
      BY <1>1, WorkersPlan, SettlementAssumption DEF CommitAccounts, IInv, WorkerInv
    <2>2. /\ plan' = [plan EXCEPT ![p] = Moved(seen[w], "ACCOUNTED")]
          /\ invoice' = InvoiceAfter(w)
          /\ auction' = IF decided[w].close THEN "SETTLED" ELSE auction
      BY <1>1 DEF CommitAccounts
    <2>3. IsFinished(plan'[p]) /\ \A q \in Plans \ {p} : plan'[q] = plan[q]
      BY <1>t, <2>1, <2>2, MovedIsARow DEF IsFinished, TypeOK, States
    <2> HIDE DEF p
    <2>4. ASSUME NEW i \in Invoices PROVE invoice'[i] # "ALLOCATED" <=> Accounted(i)' # {}
      <3>1. CASE i = InvoiceOf[p]
        <4>1. p \in Accounted(i)'
          BY <2>1, <2>3, <3>1 DEF Accounted
        <4>2. invoice'[i] # "ALLOCATED"
          BY <1>t, <2>1, <2>2, <3>1 DEF p, BooksInv, InvoiceAfter, TypeOK
        <4> QED
          BY <4>1, <4>2
      <3>2. CASE i # InvoiceOf[p]
        <4>1. Accounted(i)' = Accounted(i)
          BY <2>1, <2>3, <3>2 DEF Accounted
        <4>2. invoice'[i] = invoice[i]
          BY <1>t, <2>2, <3>2 DEF p, InvoiceAfter, TypeOK
        <4> QED
          BY <1>t, <4>1, <4>2 DEF InvoiceFollowsTransfers
      <3> QED
        BY <3>1, <3>2
    <2>5. SettledBatchIsAccounted'
      <3>1. CASE decided[w].close
        BY <2>1, <2>3, <3>1 DEF p, BooksInv, OthersFinished, SettledBatchIsAccounted
      <3>2. CASE ~ decided[w].close
        BY <1>t, <2>2, <3>2 DEF SettledBatchIsAccounted, RowsAdvance
      <3> QED
        BY <3>1, <3>2
    <2> QED
      BY <2>4, <2>5 DEF InvoiceFollowsTransfers
  <1>2. ASSUME \A i \in Invoices : Accounted(i)' = Accounted(i),
               \A i \in Invoices : invoice'[i] # "ALLOCATED" <=> invoice[i] # "ALLOCATED",
               auction' = "SETTLED" => auction = "SETTLED"
        PROVE  InvoiceFollowsTransfers' /\ SettledBatchIsAccounted'
    BY <1>2, <1>t DEF InvoiceFollowsTransfers, SettledBatchIsAccounted, RowsAdvance
  <1>3. ASSUME NEW w \in Workers, CommitAccounts(w), ~ StillCurrent(w)
        PROVE  InvoiceFollowsTransfers' /\ SettledBatchIsAccounted'
    BY <1>2, <1>3 DEF CommitAccounts, Accounted
  <1>4. ASSUME \A w \in Workers : ~ CommitAccounts(w)
        PROVE  InvoiceFollowsTransfers' /\ SettledBatchIsAccounted'
    <2>1. \A i \in Invoices : Accounted(i)' = Accounted(i)
      BY <1>4, <1>g, OnlyAccountsFinish DEF Accounted
    <2>2. auction' = "SETTLED" => auction = "SETTLED"
      BY <1>4 DEF Next, Step, vars, PlanTransfers, SettleAgain, ListExisting, QueueSettlements,
         SettleFails, Claim, Handle, TransferOnChain,
         TransferInProcess, StoreSubmission, ConfirmConsensus, ConfirmMirror, NotYetVisible,
         ReadAccounts, RecordFailure, MarkDelivered, StepFails, StoreFails, RecordingFails,
         Crash, Decide, ReadHolders, CommitRepayment, Default
    <2>3. ASSUME NEW i \in Invoices PROVE invoice'[i] # "ALLOCATED" <=> invoice[i] # "ALLOCATED"
      <3>1. ASSUME NEW j \in Invoices, CommitRepayment(j) \/ Default(j)
            PROVE  invoice'[i] # "ALLOCATED" <=> invoice[i] # "ALLOCATED"
        BY <1>t, <3>1 DEF CommitRepayment, Default, TypeOK
      <3>2. ASSUME \A j \in Invoices : ~ CommitRepayment(j) /\ ~ Default(j)
            PROVE  UNCHANGED invoice
        BY <1>4, <3>2 DEF Next, Step, vars, PlanTransfers, SettleAgain, ListExisting,
           QueueSettlements, SettleFails, Claim, Handle,
           TransferOnChain, TransferInProcess, StoreSubmission, ConfirmConsensus,
           ConfirmMirror, NotYetVisible, ReadAccounts, RecordFailure, MarkDelivered,
           StepFails, StoreFails, RecordingFails, Crash, Decide, ReadHolders
      <3> QED
        BY <3>1, <3>2
    <2> QED
      BY <1>2, <2>1, <2>2, <2>3
  <1> QED
    BY <1>1, <1>3, <1>4

\* The batch is planned once, before anything else happens to it.
LEMMA PlannedStep == IInv /\ [Next]_vars => PlannedInv'
  <1> SUFFICES ASSUME IInv, [Next]_vars PROVE PlannedInv'
    OBVIOUS
  <1> USE DEF rows, outbox, memory
  <1>t. TypeOK /\ PlannedInv /\ QueueGrows
    BY QueueStep DEF IInv
  <1>q. \A p \in Plans : queued[p] \in Nat /\ queued'[p] \in Nat
    BY TypeStep, SettlementAssumption DEF IInv, TypeOK
  <1>1. CASE PlanTransfers
    BY <1>1 DEF PlanTransfers, PlannedInv
  <1>2. CASE auction # "CLEARED"
    <2>1. auction' # "CLEARED"
      BY <1>2 DEF Next, Step, vars, PlanTransfers, SettleAgain, ListExisting, QueueSettlements,
         SettleFails, Claim, Handle, TransferOnChain,
         TransferInProcess, StoreSubmission, ConfirmConsensus, ConfirmMirror, NotYetVisible,
         ReadAccounts, CommitAccounts, RecordFailure, MarkDelivered, StepFails, StoreFails,
         RecordingFails, Crash, Decide, ReadHolders, CommitRepayment, Default
    <2> QED
      BY <1>2, <1>t, <1>q, <2>1 DEF PlannedInv, QueueGrows
  <1>3. CASE auction = "CLEARED" /\ ~ PlanTransfers
    <2>1. /\ \A p \in Plans : plan[p] = NoRow /\ queued[p] = 0
          /\ \A w \in Workers : pc[w] = "idle"
      BY <1>3, <1>t DEF PlannedInv
    <2>2. ASSUME NEW w \in Workers, NEW c \in Commands PROVE ~ Claim(w, c)
      <3>1. c[1] \in Plans /\ c[2] \in Nat \ {0}
        BY DEF Commands
      <3> QED
        BY <2>1, <3>1 DEF Claim
    <2>3. ASSUME NEW w \in Workers PROVE ~ Step(w)
      BY <2>1 DEF Step, Handle, TransferOnChain, TransferInProcess, StoreSubmission,
         ConfirmConsensus, ConfirmMirror, NotYetVisible, ReadAccounts, CommitAccounts,
         RecordFailure, MarkDelivered, AtSubmit, AtConsensus, AtMirror, AtAccount
    <2>4. ASSUME NEW w \in Workers
          PROVE  ~ StepFails(w) /\ ~ StoreFails(w) /\ ~ RecordingFails(w)
      BY <2>1 DEF StepFails, StoreFails, RecordingFails
    <2>5. ASSUME NEW w \in Workers, Crash(w) PROVE pc' = pc /\ UNCHANGED <<plan, auction, queued>>
      <3>1. pc' = pc
        BY <1>t, <2>1, <2>5 DEF Crash, Release, Goto, TypeOK
      <3> QED
        BY <2>5, <3>1 DEF Crash
    <2>6. ~ SettleAgain
      BY <1>3, <1>t DEF PlannedInv, SettleAgain, ListExisting, QueueSettlements, SettleFails
    <2>7. UNCHANGED <<plan, auction, queued, pc, existing>>
      BY <1>3, <2>2, <2>3, <2>4, <2>5, <2>6
      DEF Next, vars, requests, Decide, ReadHolders, CommitRepayment, Default, Crash
    <2> QED
      BY <1>3, <1>t, <2>1, <2>7 DEF PlannedInv
  <1> QED
    BY <1>1, <1>2, <1>3

\* A command is closed by a worker that saw its plan in the books.
LEMMA ClosedStep == IInv /\ [Next]_vars => ClosedInv'
  <1> SUFFICES ASSUME IInv, [Next]_vars PROVE ClosedInv'
    OBVIOUS
  <1> USE DEF outbox
  <1>t. TypeOK /\ TypeOK' /\ ClosedInv /\ QueueGrows /\ RowsAdvance
    BY TypeStep, QueueStep, PlanStep DEF IInv
  <1>1. ASSUME NEW c \in Published, IsFinished(plan[c[1]])
        PROVE  c \in Published' /\ IsFinished(plan'[c[1]])
    BY <1>1, <1>t, StillPublished DEF Published, Commands, RowsAdvance
  <1>2. ASSUME NEW w \in Workers, MarkDelivered(w)
        PROVE  /\ delivered' = delivered \cup {holds[w]}
               /\ holds[w] \in Published /\ IsFinished(plan[holds[w][1]])
    BY <1>2, WorkersPlan DEF MarkDelivered, IInv, WorkerInv, Plan
  <1>3. ASSUME \A w \in Workers : ~ MarkDelivered(w) PROVE delivered' = delivered
    BY <1>3 DEF Next, Step, vars, PlanTransfers, SettleAgain, ListExisting, QueueSettlements,
       SettleFails, Claim, Handle, TransferOnChain,
       TransferInProcess, StoreSubmission, ConfirmConsensus, ConfirmMirror, NotYetVisible,
       ReadAccounts, CommitAccounts, RecordFailure, StepFails, StoreFails, RecordingFails,
       Crash, Decide, ReadHolders, CommitRepayment, Default
  <1> QED
    BY <1>t, <1>1, <1>2, <1>3 DEF ClosedInv

\* The desk counts what is in the books, which stays there.
LEMMA DeskStep == IInv /\ [Next]_vars => DeskInv'
  <1> SUFFICES ASSUME IInv, [Next]_vars PROVE DeskInv'
    OBVIOUS
  <1> USE DEF rows, requests
  <1>t. TypeOK /\ DeskInv /\ RowsAdvance
    BY PlanStep DEF IInv
  <1>g. \A i \in Invoices : Accounted(i) \subseteq Accounted(i)'
    BY <1>t DEF RowsAdvance, Accounted
  <1>1. ASSUME NEW i \in Invoices, ReadHolders(i) PROVE DeskInv'
    BY <1>1, <1>t, <1>g DEF ReadHolders, HoldersOf, DeskInv, TypeOK
  <1>2. ASSUME NEW i \in Invoices, CommitRepayment(i) PROVE DeskInv'
    BY <1>2, <1>t, <1>g DEF CommitRepayment, DeskInv, TypeOK
  <1>3. ASSUME \A i \in Invoices : ~ ReadHolders(i) /\ ~ CommitRepayment(i)
        PROVE  UNCHANGED <<counted, holders>>
    BY <1>3 DEF Next, Step, vars, PlanTransfers, SettleAgain, ListExisting, QueueSettlements,
       SettleFails, Claim, Handle, TransferOnChain,
       TransferInProcess, StoreSubmission, ConfirmConsensus, ConfirmMirror, NotYetVisible,
       ReadAccounts, CommitAccounts, RecordFailure, MarkDelivered, StepFails, StoreFails,
       RecordingFails, Crash, Decide, Default
  <1> QED
    BY <1>t, <1>g, <1>1, <1>2, <1>3 DEF DeskInv

-------------------------------------------------------------------------------
(* The theorems *)

\* Before the batch is settled no plan, copy, command or repayment says anything.
LEMMA InvInit == Init => IInv
  <1> SUFFICES ASSUME Init PROVE IInv
    OBVIOUS
  <1>1. TypeOK
    BY TypeInit
  <1>2. \A p \in Plans : RowInv(p)
    BY DEF Init, RowInv, Confirmed, NoRow
  <1>3. \A w \in Workers : WorkerInv(w)
    BY DEF Init, WorkerInv
  <1>4. PlannedInv /\ ClosedInv /\ DeskInv /\ SettledBatchIsAccounted
    BY DEF Init, PlannedInv, ClosedInv, DeskInv, SettledBatchIsAccounted
  <1>5. InvoiceFollowsTransfers
    BY DEF Init, InvoiceFollowsTransfers, Accounted, IsFinished, NoRow
  <1> QED
    BY <1>1, <1>2, <1>3, <1>4, <1>5 DEF IInv

\* The invariant every other theorem rests on: it holds of every reachable state of the saga.
THEOREM SagaInvariant == Spec => []IInv
  <1>1. IInv /\ [Next]_vars => IInv'
    BY TypeStep, RowStep, WorkerStep, BooksStep, PlannedStep, ClosedStep, DeskStep DEF IInv
  <1> QED
    BY InvInit, <1>1, PTL DEF Spec

\* Rows, the chain and workers' memory keep their types.
THEOREM TypeCorrect == Spec => []TypeOK
  <1>1. IInv => TypeOK
    BY DEF IInv
  <1> QED
    BY SagaInvariant, <1>1, PTL

\* The books never run ahead of the chain (SettlementWorker.account).
THEOREM BooksFollowTheChain == Spec => []AccountedWasCredited
  <1>1. IInv => AccountedWasCredited
    BY DEF IInv, RowInv, CreditedOnChain, AccountedWasCredited, IsFinished
  <1> QED
    BY SagaInvariant, <1>1, PTL

\* A receivable moves with the transfers of its allocations (finishInvoice).
THEOREM BooksAgree == Spec => []InvoiceFollowsTransfers
  <1>1. IInv => InvoiceFollowsTransfers
    BY DEF IInv
  <1> QED
    BY SagaInvariant, <1>1, PTL

\* finishAuction closes the auction over a batch all of whose transfers are in the books.
THEOREM ClosedBatchIsAccounted == Spec => []SettledBatchIsAccounted
  <1>1. IInv => SettledBatchIsAccounted
    BY DEF IInv
  <1> QED
    BY SagaInvariant, <1>1, PTL

\* A repayment is divided over transfers in the books only (holdersOf).
THEOREM HoldersAreAccounted == Spec => []RepaidHoldersAreAccounted
  <1>1. IInv => RepaidHoldersAreAccounted
    BY DEF IInv, DeskInv, RepaidHoldersAreAccounted
  <1> QED
    BY SagaInvariant, <1>1, PTL

\* A transfer that has not finished has a command the outbox still delivers (queueSettlements,
\* Handle).
THEOREM NothingIsStranded == Spec => []UnfinishedHasCommand
  <1>1. ASSUME IInv, NEW p \in Plans, plan[p].state # "NONE", ~ IsFinished(plan[p])
        PROVE  \E k \in 1..queued[p] : <<p, k>> \notin delivered
    <2>1. queued[p] > 0 /\ queued[p] \in 0..MaxCommands
      <3>1. auction # "CLEARED"
        BY <1>1 DEF IInv, PlannedInv, NoRow
      <3> QED
        BY <1>1, <3>1 DEF IInv, PlannedInv, TypeOK
    <2>2. <<p, 1>> \notin delivered
      BY <1>1 DEF IInv, ClosedInv
    <2> QED
      BY <2>1, <2>2, SettlementAssumption
  <1>2. IInv => UnfinishedHasCommand
    BY <1>1 DEF UnfinishedHasCommand
  <1> QED
    BY SagaInvariant, <1>2, PTL

\* No worker forgets or replaces a stored transaction (store, recordFailure, account).
THEOREM TransactionsAreRemembered == Spec => SubmissionIsRemembered
  <1>1. IInv /\ [Next]_vars => [\A p \in Plans : IsSubmitted(plan[p]) => plan'[p].tx = plan[p].tx]_vars
    BY PlanStep DEF RowsAdvance
  <1> QED
    BY SagaInvariant, <1>1, PTL DEF Spec, SubmissionIsRemembered

\* No worker reopens a transfer that is in the books (recordFailure, store).
THEOREM BooksAreFinal == Spec => AccountedIsFinal
  <1>1. IInv /\ [Next]_vars => [\A p \in Plans : IsFinished(plan[p]) => plan'[p] = plan[p]]_vars
    BY PlanStep DEF RowsAdvance
  <1> QED
    BY SagaInvariant, <1>1, PTL DEF Spec, AccountedIsFinal

-------------------------------------------------------------------------------
(* The saga keeps the promise of Delivery *)

\* The transfers in the books.
Performed == {p \in Plans : IsFinished(plan[p])}

\* The step that moves neither the queue, nor a plan into the books, nor the closed commands
\* is no step of Delivery.
LEMMA SilentStep ==
    ASSUME IInv, [Next]_vars, UNCHANGED <<queued, delivered>>,
           \A p \in Plans : ~ IsFinished(plan[p]) => ~ IsFinished(plan'[p])
    PROVE  UNCHANGED Promise!vars
  <1>1. RowsAdvance
    BY PlanStep
  <1>2. Published' = Published
    BY DEF Published
  <1>3. Performed' = Performed
    BY <1>1 DEF Performed, RowsAdvance
  <1> QED
    BY <1>2, <1>3 DEF Promise!vars, Performed

\* Every step of the saga is a step of Delivery or changes nothing Delivery sees.
LEMMA SagaStep == IInv /\ [Next]_vars => [Promise!Next]_(Promise!vars)
  <1> SUFFICES ASSUME IInv, [Next]_vars PROVE Promise!Next \/ UNCHANGED Promise!vars
    OBVIOUS
  <1> USE DEF rows, outbox
  <1>t. TypeOK /\ RowsAdvance /\ queued \in [Plans -> 0..MaxCommands]
    BY PlanStep DEF IInv, TypeOK
  <1>p. Published \subseteq Commands /\ \A c \in Commands : c[1] \in Plans /\ c[2] \in Nat \ {0}
    BY DEF Published, Commands
  <1>q. \A p \in Plans : queued[p] \in Nat
    BY <1>t
  <1>1. CASE PlanTransfers
    <2>1. Published = {} /\ auction = "CLEARED"
      BY <1>1, <1>p DEF PlanTransfers, IInv, PlannedInv, Published
    <2>2. Performed' = {} /\ Performed = {}
      BY <1>1, <2>1, <1>p
      DEF PlanTransfers, IInv, PlannedInv, Performed, NewPlan, NoRow, IsFinished
    <2>3. Published' \in SUBSET Commands /\ Promise!Publish(Published')
      BY <1>1, <2>1, <2>2 DEF PlanTransfers, Promise!Publish, Published, Performed
    <2> QED
      BY <2>3 DEF Promise!Next
  <1>2. CASE SettleAgain
    <2> DEFINE new == {c \in Commands : c \in Published' /\ c \notin Published}
    <2>1. plan' = plan /\ delivered' = delivered
      BY <1>2 DEF SettleAgain, ListExisting, QueueSettlements, SettleFails
    <2>2. Published' = Published \cup new
      BY <1>p, <1>q, <2>1, QueueStep, StillPublished, TypeStep DEF Published
    <2>3. Performed' = Performed
      BY <2>1 DEF Performed
    <2>4. Promise!Publish(new)
      BY <2>1, <2>2, <2>3 DEF Promise!Publish, Performed
    <2> QED
      BY <2>4 DEF Promise!Next
  <1>3. ASSUME NEW w \in Workers, CommitAccounts(w)
        PROVE  Promise!Next \/ UNCHANGED Promise!vars
    <2>1. UNCHANGED <<queued, delivered>>
      BY <1>3 DEF CommitAccounts
    <2>2. CASE StillCurrent(w)
      <3>1. Plan(w) \in Plans /\ seen[w] \in Rows /\ holds[w] \in Published
        BY <1>3, WorkersPlan DEF CommitAccounts
      <3>2. plan' = [plan EXCEPT ![Plan(w)] = Moved(seen[w], "ACCOUNTED")]
        BY <1>3, <2>2 DEF CommitAccounts
      <3>3. /\ IsFinished(plan'[Plan(w)])
            /\ \A p \in Plans \ {Plan(w)} : plan'[p] = plan[p]
        BY <1>t, <3>1, <3>2, MovedIsARow DEF IsFinished, TypeOK, States
      <3>4. Published' = Published
        BY <2>1 DEF Published
      <3>5. Performed' = Performed \cup {Plan(w)}
        BY <3>1, <3>3 DEF Performed
      <3>6. {Plan(w)} \subseteq {[c \in Commands |-> c[1]][e] : e \in Published}
        BY <1>p, <3>1 DEF Plan
      <3>7. {Plan(w)} \in SUBSET Plans /\ Promise!Perform({Plan(w)})
        BY <2>1, <3>1, <3>4, <3>5, <3>6 DEF Promise!Perform, Performed
      <3> QED
        BY <3>7 DEF Promise!Next
    <2>3. CASE ~ StillCurrent(w)
      BY <1>3, <2>1, <2>3, SilentStep DEF CommitAccounts
    <2> QED
      BY <2>2, <2>3
  <1>4. ASSUME NEW w \in Workers, MarkDelivered(w)
        PROVE  Promise!Next \/ UNCHANGED Promise!vars
    <2>1. /\ delivered' = delivered \cup {holds[w]} /\ plan' = plan /\ queued' = queued
          /\ holds[w] \in Published /\ IsFinished(plan[holds[w][1]])
      BY <1>4, WorkersPlan DEF MarkDelivered, IInv, WorkerInv, Plan
    <2>2. Published' = Published /\ Performed' = Performed /\ holds[w][1] \in Performed
      BY <1>p, <2>1 DEF Published, Performed
    <2>3. CASE holds[w] \in delivered
      BY <2>1, <2>2, <2>3 DEF Promise!vars, Performed
    <2>4. CASE holds[w] \notin delivered
      <3>1. [c \in Commands |-> c[1]][holds[w]] \in Performed
        BY <1>p, <2>1, <2>2
      <3>2. Promise!Close(holds[w])
        BY <2>1, <2>2, <2>4, <3>1 DEF Promise!Close, Performed
      <3> QED
        BY <1>p, <2>1, <3>2 DEF Promise!Next
    <2> QED
      BY <2>3, <2>4
  <1>5. ASSUME ~ PlanTransfers, ~ SettleAgain,
               \A w \in Workers : ~ CommitAccounts(w) /\ ~ MarkDelivered(w)
        PROVE  UNCHANGED Promise!vars
    <2>1. UNCHANGED <<queued, delivered>>
      BY <1>5 DEF Next, Step, vars, Claim, Handle, TransferOnChain, TransferInProcess,
         StoreSubmission, ConfirmConsensus, ConfirmMirror, NotYetVisible, ReadAccounts,
         RecordFailure, StepFails, StoreFails, RecordingFails, Crash, Decide, ReadHolders,
         CommitRepayment, Default
    <2> QED
      BY <1>5, <2>1, OnlyAccountsFinish, SilentStep
  <1> QED
    BY <1>1, <1>2, <1>3, <1>4, <1>5

\* A settlement command is closed only over the transfer it asked for (Handle): the saga
\* implements what the outbox promises.
THEOREM SagaKeepsThePromise == Spec => ImplementsDelivery
  <1>1. Init => Promise!Init
    <2> SUFFICES ASSUME Init PROVE Promise!Init
      OBVIOUS
    <2>1. Published = {} /\ Performed = {}
      BY DEF Init, Published, Performed, Commands, NoRow, IsFinished
    <2> QED
      BY <2>1 DEF Init, Promise!Init, Performed
  <1> QED
    BY <1>1, SagaStep, SagaInvariant, PTL DEF Spec, ImplementsDelivery, Promise!Spec

-------------------------------------------------------------------------------
(* One process *)

\* The saga is deployed as one process, and two of its promises need that: of two processes that
\* finish the last two transfers at once neither may see the other's, and both may submit a plan.
OneProcess == \A v, w \in Workers : v = w

\* A planned batch has its plans.
PlansExist == auction # "CLEARED" => \A p \in Plans : plan[p].state # "NONE"

\* Nobody writes a row behind the back of the only worker.
CopyIsCurrent ==
    \A w \in Workers : pc[w] \in {"advance", "submitted", "accounting"} => seen[w] = plan[Plan(w)]

\* It closes the batch when only its own transfer is missing.
LastCloses ==
    \A w \in Workers : pc[w] = "accounting" =>
        (OthersFinished(Plan(w)) /\ auction # "SETTLED" => decided[w].close)

\* The transfer a plan knows of, or is about to.
Known(p) == IsSubmitted(plan[p]) \/ \E w \in Workers : pc[w] = "submitted" /\ Plan(w) = p

\* Every other one was lost, or forgotten in a crash.
TransfersAreExplained ==
    \A p \in Plans : Cardinality(Live(p)) <= (IF Known(p) THEN 1 ELSE 0) + lost + crashes

OneInv ==
    /\ PlansExist /\ CopyIsCurrent /\ LastCloses
    /\ AccountedBatchIsSettled /\ TransfersAreExplained

\* What the only worker writes into a row is a state of the table.
LEMMA RowsStayRows == ASSUME IInv, [Next]_vars, PlansExist PROVE PlansExist'
  <1> USE DEF rows
  <1>t. plan \in [Plans -> Rows]
    BY DEF IInv, TypeOK
  <1>s. ASSUME NEW w \in Workers, pc[w] # "idle", NEW next \in States \ {"NONE"},
               NEW row \in Rows, row.state = next, Store(w, next, row), auction' = auction
        PROVE  PlansExist'
    BY <1>t, <1>s DEF Store, PlansExist
  <1>1. CASE PlanTransfers
    BY <1>1 DEF PlanTransfers, NewPlan, PlansExist
  <1>2. ASSUME NEW w \in Workers, StoreSubmission(w) PROVE PlansExist'
    <2>1. pc[w] # "idle" /\ receipt[w] \in Txs
      BY <1>2 DEF StoreSubmission, IInv, WorkerInv
    <2> QED
      BY <1>2, <1>s, <2>1, WorkersPlan, SubmittedIsARow DEF StoreSubmission, States
  <1>3. ASSUME NEW w \in Workers, ConfirmConsensus(w) PROVE PlansExist'
    <2>1. pc[w] # "idle" /\ seen[w] \in Rows
      BY <1>3, WorkersPlan DEF ConfirmConsensus, AtConsensus
    <2>2. CASE Succeeded(w)
      BY <1>3, <1>s, <2>1, <2>2, MovedIsARow DEF ConfirmConsensus, States
    <2>3. CASE ~ Succeeded(w)
      BY <1>3, <2>3 DEF ConfirmConsensus, PlansExist
    <2> QED
      BY <2>2, <2>3
  <1>4. ASSUME NEW w \in Workers, ConfirmMirror(w) PROVE PlansExist'
    <2>1. pc[w] # "idle" /\ seen[w] \in Rows
      BY <1>4, WorkersPlan DEF ConfirmMirror, AtMirror
    <2>2. CASE Succeeded(w) /\ Credited(w)
      BY <1>4, <1>s, <2>1, <2>2, MovedIsARow DEF ConfirmMirror, States
    <2>3. CASE ~ (Succeeded(w) /\ Credited(w))
      BY <1>4, <2>3 DEF ConfirmMirror, PlansExist
    <2> QED
      BY <2>2, <2>3
  <1>5. ASSUME NEW w \in Workers, RecordFailure(w) PROVE PlansExist'
    <2>1. Plan(w) \in Plans /\ plan[Plan(w)] \in Rows
      BY <1>5, WorkersPlan DEF RecordFailure
    <2>2. Failed(plan[Plan(w)]).state # "NONE"
      BY <2>1, MovedIsARow DEF Failed, IsFinished, States
    <2> QED
      BY <1>5, <1>t, <2>1, <2>2 DEF RecordFailure, PlansExist
  <1>6. ASSUME NEW w \in Workers, CommitAccounts(w) PROVE PlansExist'
    <2>1. Plan(w) \in Plans /\ seen[w] \in Rows /\ auction # "CLEARED"
      BY <1>6, WorkersPlan DEF CommitAccounts, IInv, PlannedInv
    <2>2. Moved(seen[w], "ACCOUNTED").state # "NONE"
      BY DEF Moved
    <2> QED
      BY <1>6, <1>t, <2>1, <2>2 DEF CommitAccounts, PlansExist
  <1>7. ASSUME ~ PlanTransfers,
               \A w \in Workers : /\ ~ StoreSubmission(w) /\ ~ ConfirmConsensus(w)
                                  /\ ~ ConfirmMirror(w) /\ ~ RecordFailure(w) /\ ~ CommitAccounts(w)
        PROVE  UNCHANGED <<plan, auction>>
    BY <1>7 DEF Next, Step, vars, SettleAgain, ListExisting, QueueSettlements, SettleFails,
       Claim, Handle, TransferOnChain, TransferInProcess,
       NotYetVisible, ReadAccounts, MarkDelivered, StepFails, StoreFails, RecordingFails,
       Crash, Decide, ReadHolders, CommitRepayment, Default
  <1> QED
    BY <1>1, <1>2, <1>3, <1>4, <1>5, <1>6, <1>7 DEF PlansExist

\* Steps that are nobody's: the memory of the worker and the rows of the batch stay.
LEMMA OutsideStep ==
    ASSUME IInv, [Next]_vars,
           \A w \in Workers : /\ \A c \in Commands : ~ Claim(w, c)
                              /\ ~ Step(w) /\ ~ StepFails(w) /\ ~ StoreFails(w)
                              /\ ~ RecordingFails(w) /\ ~ Crash(w)
    PROVE  /\ UNCHANGED memory /\ UNCHANGED <<lost, crashes>>
           /\ \/ PlanTransfers /\ \A w \in Workers : pc[w] = "idle"
              \/ UNCHANGED <<plan, auction>>
  <1>1. CASE PlanTransfers
    BY <1>1 DEF PlanTransfers, IInv, PlannedInv, memory, trouble
  <1>2. CASE ~ PlanTransfers
    BY <1>2 DEF Next, vars, rows, memory, trouble, SettleAgain, ListExisting, QueueSettlements,
       SettleFails, Decide, ReadHolders, CommitRepayment, Default
  <1> QED
    BY <1>1, <1>2

\* Whatever the worker writes it goes on with, and nobody else writes.
LEMMA CurrentStep ==
    ASSUME IInv, [Next]_vars, OneProcess, CopyIsCurrent
    PROVE  CopyIsCurrent'
  <1> USE DEF rows, memory
  <1> SUFFICES ASSUME NEW w \in Workers, pc'[w] \in {"advance", "submitted", "accounting"}
               PROVE  (seen[w] = plan[Plan(w)])'
    BY DEF CopyIsCurrent
  <1>t. /\ pc \in [Workers -> Labels] /\ seen \in [Workers -> Rows]
        /\ holds \in [Workers -> Commands \cup {NoCommand}] /\ plan \in [Plans -> Rows]
    BY DEF IInv, TypeOK
  <1>v. \A v \in Workers : v = w
    BY DEF OneProcess
  <1>s. ASSUME NEW next, NEW row \in Rows, Store(w, next, row), pc[w] # "idle", UNCHANGED holds
        PROVE  seen'[w] = plan'[holds'[w][1]]
    <2>1. Plan(w) \in Plans
      BY <1>s, WorkersPlan
    <2> QED
      BY <1>s, <1>t, <2>1 DEF Store, Plan, Goto
  <1>1. CASE Handle(w)
    BY <1>1, <1>t DEF Handle, Goto, Plan
  <1>2. CASE TransferOnChain(w) \/ TransferInProcess(w)
    BY <1>2, <1>t DEF TransferOnChain, TransferInProcess, AtSubmit, CopyIsCurrent, Plan
  <1>3. CASE StoreSubmission(w)
    <2>1. pc[w] # "idle" /\ receipt[w] \in Txs
      BY <1>3 DEF StoreSubmission, IInv, WorkerInv
    <2> QED
      BY <1>3, <1>s, <2>1, WorkersPlan, SubmittedIsARow DEF StoreSubmission, Plan
  <1>4. CASE ConfirmConsensus(w)
    <2>1. pc[w] # "idle" /\ seen[w] \in Rows
      BY <1>4, WorkersPlan DEF ConfirmConsensus, AtConsensus
    <2>2. CASE Succeeded(w)
      BY <1>4, <1>s, <2>1, <2>2, MovedIsARow DEF ConfirmConsensus, Plan, States
    <2>3. CASE ~ Succeeded(w)
      BY <1>4, <1>t, <2>3 DEF ConfirmConsensus, Goto
    <2> QED
      BY <2>2, <2>3
  <1>5. CASE ConfirmMirror(w)
    <2>1. pc[w] # "idle" /\ seen[w] \in Rows
      BY <1>5, WorkersPlan DEF ConfirmMirror, AtMirror
    <2>2. CASE Succeeded(w) /\ Credited(w)
      BY <1>5, <1>s, <2>1, <2>2, MovedIsARow DEF ConfirmMirror, Plan, States
    <2>3. CASE ~ (Succeeded(w) /\ Credited(w))
      BY <1>5, <1>t, <2>3 DEF ConfirmMirror, Goto
    <2> QED
      BY <2>2, <2>3
  <1>6. CASE ReadAccounts(w)
    BY <1>6, <1>t DEF ReadAccounts, Goto, Plan
  <1>7. CASE \/ \E c \in Commands : Claim(w, c)
             \/ NotYetVisible(w) \/ CommitAccounts(w) \/ RecordFailure(w) \/ MarkDelivered(w)
             \/ StepFails(w) \/ StoreFails(w) \/ RecordingFails(w) \/ Crash(w)
    BY <1>7, <1>t DEF Claim, NotYetVisible, CommitAccounts, RecordFailure, MarkDelivered,
       StepFails, StoreFails, RecordingFails, Crash, Release, Goto
  <1>8. CASE \A v \in Workers : /\ \A c \in Commands : ~ Claim(v, c)
                                /\ ~ Step(v) /\ ~ StepFails(v) /\ ~ StoreFails(v)
                                /\ ~ RecordingFails(v) /\ ~ Crash(v)
    BY <1>8, OutsideStep DEF CopyIsCurrent, Plan
  <1> QED
    BY <1>1, <1>2, <1>3, <1>4, <1>5, <1>6, <1>7, <1>8, <1>v DEF Step

\* What the only worker found of the other transfers stays so until it commits.
LEMMA CloseStep ==
    ASSUME IInv, [Next]_vars, OneProcess, LastCloses
    PROVE  LastCloses'
  <1> USE DEF rows, memory
  <1> SUFFICES ASSUME NEW w \in Workers, pc'[w] = "accounting"
               PROVE  (OthersFinished(Plan(w)) /\ auction # "SETTLED" => decided[w].close)'
    BY DEF LastCloses
  <1>t. /\ pc \in [Workers -> Labels] /\ seen \in [Workers -> Rows]
        /\ holds \in [Workers -> Commands \cup {NoCommand}]
        /\ decided \in [Workers -> [settle : BOOLEAN, close : BOOLEAN]]
    BY DEF IInv, TypeOK
  <1>v. \A v \in Workers : v = w
    BY DEF OneProcess
  <1>1. CASE ReadAccounts(w)
    <2>1. /\ UNCHANGED <<plan, auction, holds>>
          /\ decided'[w].close = (OthersFinished(Plan(w)) /\ auction # "SETTLED")
      BY <1>1, <1>t DEF ReadAccounts, Goto
    <2> QED
      BY <2>1 DEF OthersFinished, Plan
  <1>2. CASE Step(w) /\ ~ ReadAccounts(w)
    BY <1>2, <1>t DEF Step, Handle, TransferOnChain, TransferInProcess, StoreSubmission, ConfirmConsensus,
       ConfirmMirror, NotYetVisible, CommitAccounts, RecordFailure, MarkDelivered, Release, Goto, Store
  <1>3. CASE \/ \E c \in Commands : Claim(w, c)
             \/ StepFails(w) \/ StoreFails(w) \/ RecordingFails(w) \/ Crash(w)
    BY <1>3, <1>t DEF Claim, StepFails, StoreFails, RecordingFails, Crash, Release, Goto
  <1>4. CASE \A v \in Workers : /\ \A c \in Commands : ~ Claim(v, c)
                                /\ ~ Step(v) /\ ~ StepFails(v) /\ ~ StoreFails(v)
                                /\ ~ RecordingFails(v) /\ ~ Crash(v)
    BY <1>4, OutsideStep DEF LastCloses, OthersFinished, Plan
  <1> QED
    BY <1>1, <1>2, <1>3, <1>4, <1>v

\* The last transfer of the batch takes the batch with it.
LEMMA BatchStep ==
    ASSUME IInv, [Next]_vars, OneProcess, LastCloses, AccountedBatchIsSettled
    PROVE  AccountedBatchIsSettled'
  <1> USE DEF rows
  <1> SUFFICES ASSUME \A p \in Plans : IsFinished(plan'[p]) PROVE auction' = "SETTLED"
    BY DEF AccountedBatchIsSettled
  <1>1. ASSUME NEW w \in Workers, CommitAccounts(w)
        PROVE  auction' = "SETTLED"
    <2>1. Plan(w) \in Plans /\ plan \in [Plans -> Rows]
      BY <1>1, WorkersPlan DEF CommitAccounts, IInv, TypeOK
    <2>2. CASE StillCurrent(w)
      <3>1. OthersFinished(Plan(w))
        BY <1>1, <2>1, <2>2 DEF CommitAccounts, OthersFinished
      <3>2. auction # "SETTLED" => decided[w].close
        BY <1>1, <3>1 DEF LastCloses, CommitAccounts
      <3> QED
        BY <1>1, <2>2, <3>2 DEF CommitAccounts
    <2>3. CASE ~ StillCurrent(w)
      BY <1>1, <2>3 DEF CommitAccounts, AccountedBatchIsSettled
    <2> QED
      BY <2>2, <2>3
  <1>2. CASE \A w \in Workers : ~ CommitAccounts(w)
    <2>1. auction = "SETTLED"
      BY <1>2, OnlyAccountsFinish DEF AccountedBatchIsSettled
    <2> QED
      BY <1>2, <2>1 DEF Next, Step, vars, PlanTransfers, SettleAgain, ListExisting,
         QueueSettlements, SettleFails, Claim, Handle, TransferOnChain,
         TransferInProcess, StoreSubmission, ConfirmConsensus, ConfirmMirror, NotYetVisible,
         ReadAccounts, RecordFailure, MarkDelivered, StepFails, StoreFails, RecordingFails,
         Crash, Decide, ReadHolders, CommitRepayment, Default
  <1> QED
    BY <1>1, <1>2

\* The transfers of a plan can be counted, and counting fewer gives no more.
LEMMA LiveCount ==
    ASSUME NEW p \in Plans
    PROVE  /\ IsFiniteSet(Live(p)) /\ Cardinality(Live(p)) \in Nat
           /\ IsFiniteSet(Live(p)') /\ Cardinality(Live(p)') \in Nat
           /\ Live(p)' \subseteq Live(p) => Cardinality(Live(p)') <= Cardinality(Live(p))
  <1>1. IsFiniteSet(Txs)
    BY FS_Interval, SettlementAssumption DEF Txs
  <1>2. Live(p) \subseteq Txs /\ Live(p)' \subseteq Txs
    BY DEF Live
  <1>3. IsFiniteSet(Live(p)) /\ IsFiniteSet(Live(p)')
    BY <1>1, <1>2, FS_Subset
  <1> QED
    BY <1>3, FS_Subset, FS_CardinalityType

\* One transaction more is one transfer more at most.
LEMMA OneMore ==
    ASSUME TypeOK, NEW p \in Plans, NEW q \in Plans, NEW k \in Txs, NEW fate,
           chain' = [chain EXCEPT ![q][k] = fate]
    PROVE  /\ Cardinality(Live(p)') <= Cardinality(Live(p)) + 1
           /\ p # q => Live(p)' = Live(p)
  <1>1. chain \in [Plans -> [Txs -> {"none", "unseen", "credited", "uncredited", "rejected"}]]
    BY DEF TypeOK
  <1>2. \A j \in Txs : j # k => chain'[p][j] = chain[p][j]
    BY <1>1
  <1>3. Live(p)' \subseteq Live(p) \cup {k}
    BY <1>2 DEF Live
  <1>4. /\ IsFiniteSet(Live(p) \cup {k})
        /\ Cardinality(Live(p) \cup {k}) <= Cardinality(Live(p)) + 1
    <2>1. IsFiniteSet(Live(p)) /\ Cardinality(Live(p)) \in Nat
      BY LiveCount
    <2>2. /\ IsFiniteSet(Live(p) \cup {k})
          /\ Cardinality(Live(p) \cup {k})
               = IF k \in Live(p) THEN Cardinality(Live(p)) ELSE Cardinality(Live(p)) + 1
      BY <2>1, FS_AddElement
    <2> QED
      BY <2>1, <2>2
  <1>5. Cardinality(Live(p)') <= Cardinality(Live(p) \cup {k}) /\ Cardinality(Live(p) \cup {k}) \in Nat
    BY <1>3, <1>4, FS_Subset, FS_CardinalityType
  <1>6. p # q => chain'[p] = chain[p]
    BY <1>1
  <1>7. p # q => Live(p)' = Live(p)
    BY <1>6 DEF Live
  <1>8. /\ Cardinality(Live(p)') \in Nat /\ Cardinality(Live(p)) \in Nat
        /\ Cardinality(Live(p) \cup {k}) <= Cardinality(Live(p)) + 1
    BY <1>4, LiveCount
  <1> QED
    BY <1>5, <1>7, <1>8

LEMMA OneLostMore ==
    ASSUME NEW n \in Nat, NEW a \in Nat, NEW b \in Nat, NEW c \in Nat, NEW d \in Nat,
           n <= 1 + a + b, a + b < c + d, NEW yes
    PROVE  n <= (IF yes THEN 1 ELSE 0) + c + d
  <1>1. n <= 0 + c + d /\ n <= 1 + c + d
    OBVIOUS
  <1>2. CASE yes
    BY <1>1, <1>2
  <1>3. CASE ~ yes
    BY <1>1, <1>3
  <1> QED
    BY <1>2, <1>3

\* A submission is known from the answer to the row, unless it is lost.
LEMMA TransfersStep ==
    ASSUME IInv, [Next]_vars, OneProcess, PlansExist, CopyIsCurrent, TransfersAreExplained
    PROVE  TransfersAreExplained'
  <1> USE DEF rows, memory, network, trouble
  <1> SUFFICES ASSUME NEW p \in Plans
               PROVE  Cardinality(Live(p)') <= (IF Known(p)' THEN 1 ELSE 0) + lost' + crashes'
    BY DEF TransfersAreExplained
  <1>t. /\ TypeOK /\ pc \in [Workers -> Labels] /\ holds \in [Workers -> Commands \cup {NoCommand}]
        /\ plan \in [Plans -> Rows] /\ lost \in Nat /\ crashes \in Nat /\ plan' \in [Plans -> Rows]
    BY TypeStep, SettlementAssumption DEF IInv, TypeOK
  <1>n. Cardinality(Live(p)) <= (IF Known(p) THEN 1 ELSE 0) + lost + crashes
    BY DEF TransfersAreExplained
  <1>c. Cardinality(Live(p)) \in Nat /\ Cardinality(Live(p)') \in Nat
    BY LiveCount
  <1>k. IsSubmitted(plan[p]) => IsSubmitted(plan'[p])
    BY PlanStep DEF RowsAdvance, IsSubmitted
  <1>q. ASSUME chain' = chain, Known(p) => Known(p)', lost' \in Nat, crashes' \in Nat,
               lost <= lost', crashes <= crashes'
        PROVE  Cardinality(Live(p)') <= (IF Known(p)' THEN 1 ELSE 0) + lost' + crashes'
    BY <1>q, <1>n, <1>c, <1>t DEF Live
  <1>l. ASSUME chain' = chain, lost' \in Nat, crashes' \in Nat, lost + crashes < lost' + crashes'
        PROVE  Cardinality(Live(p)') <= (IF Known(p)' THEN 1 ELSE 0) + lost' + crashes'
    <2>1. Cardinality(Live(p)') = Cardinality(Live(p))
      BY <1>l DEF Live
    <2>2. Cardinality(Live(p)') <= 1 + lost + crashes
      BY <1>n, <1>c, <1>t, <2>1
    <2> QED
      BY <1>l, <1>c, <1>t, <2>2, OneLostMore
  <1>s. ASSUME NEW w \in Workers, AtSubmit(w), NEW k \in Txs, NEW fate,
               chain' = [chain EXCEPT ![Plan(w)][k] = fate], UNCHANGED <<plan, holds, crashes>>,
               \/ pc' = [pc EXCEPT ![w] = "submitted"] /\ lost' = lost
               \/ pc' = [pc EXCEPT ![w] = "failing"] /\ lost' = lost + 1
        PROVE  Cardinality(Live(p)') <= (IF Known(p)' THEN 1 ELSE 0) + lost' + crashes'
    <2>1. /\ Plan(w) \in Plans /\ pc[w] = "advance" /\ ~ IsSubmitted(plan[Plan(w)])
          /\ \A v \in Workers : v = w
      BY <1>s, WorkersPlan DEF AtSubmit, CopyIsCurrent, OneProcess
    <2>2. CASE p = Plan(w)
      <3>1. ~ Known(p)
        BY <2>1, <2>2 DEF Known
      <3>2. Cardinality(Live(p)') <= Cardinality(Live(p)) + 1
        BY <1>s, <1>t, <2>1, OneMore
      <3>3. Known(p)' \/ lost' = lost + 1
        BY <1>s, <1>t, <2>2 DEF Known, Plan
      <3>4. lost' = lost \/ lost' = lost + 1
        BY <1>s
      <3> HIDE DEF Known
      <3> QED
        BY <1>n, <1>c, <1>t, <1>s, <3>1, <3>2, <3>3, <3>4
    <2>3. CASE p # Plan(w)
      <3>1. Live(p)' = Live(p)
        BY <1>s, <1>t, <2>1, <2>3, OneMore
      <3>2. Known(p) => Known(p)'
        BY <1>s, <2>1, <2>3 DEF Known
      <3>3. lost' = lost \/ lost' = lost + 1
        BY <1>s
      <3> QED
        BY <1>n, <1>c, <1>t, <1>s, <3>1, <3>2, <3>3
    <2> QED
      BY <2>2, <2>3
  <1>1. ASSUME NEW w \in Workers, TransferOnChain(w)
        PROVE  Cardinality(Live(p)') <= (IF Known(p)' THEN 1 ELSE 0) + lost' + crashes'
    <2>1. PICK k \in Txs : chain' = [chain EXCEPT ![Plan(w)][k] = "unseen"]
      BY <1>1 DEF TransferOnChain
    <2>2. /\ AtSubmit(w) /\ UNCHANGED <<plan, holds, crashes>>
          /\ \/ pc' = [pc EXCEPT ![w] = "submitted"] /\ lost' = lost
             \/ pc' = [pc EXCEPT ![w] = "failing"] /\ lost' = lost + 1
      BY <1>1 DEF TransferOnChain, Goto
    <2> QED
      BY <1>s, <2>1, <2>2
  <1>2. ASSUME NEW w \in Workers, TransferInProcess(w)
        PROVE  Cardinality(Live(p)') <= (IF Known(p)' THEN 1 ELSE 0) + lost' + crashes'
    <2>1. 1 \in Txs /\ chain' = [chain EXCEPT ![Plan(w)][1] = "credited"]
      BY <1>2, SettlementAssumption DEF TransferInProcess, Txs
    <2>2. /\ AtSubmit(w) /\ UNCHANGED <<plan, holds, crashes>>
          /\ pc' = [pc EXCEPT ![w] = "submitted"] /\ lost' = lost
      BY <1>2 DEF TransferInProcess, Goto
    <2> QED
      BY <1>s, <2>1, <2>2
  <1>3. ASSUME NEW w \in Workers, StoreSubmission(w)
        PROVE  Cardinality(Live(p)') <= (IF Known(p)' THEN 1 ELSE 0) + lost' + crashes'
    <2>1. /\ pc[w] = "submitted" /\ receipt[w] \in Txs /\ ~ IsSubmitted(seen[w]) /\ holds' = holds
          /\ seen[w] = plan[Plan(w)] /\ \A v \in Workers : v = w
      BY <1>3 DEF StoreSubmission, IInv, WorkerInv, CopyIsCurrent, OneProcess
    <2>2. Plan(w) \in Plans /\ seen[w] \in Rows /\ auction # "CLEARED"
      BY <2>1, WorkersPlan DEF IInv, PlannedInv
    <2>3. MayBecome(seen[w], "SUBMITTED") /\ SameVersion(w)
      <3>1. seen[w].state \in {"PREPARED", "FAILED"}
        BY <2>1, <2>2 DEF PlansExist, IInv, RowInv, Confirmed, Rows, States
      <3> QED
        BY <2>1, <3>1 DEF MayBecome, transitions, SameVersion
    <2>4. plan' = [plan EXCEPT ![Plan(w)] = Submitted(seen[w], receipt[w])]
      BY <1>3, <2>3 DEF StoreSubmission, Store
    <2>5. IsSubmitted(plan'[Plan(w)])
      BY <1>t, <2>1, <2>2, <2>4, SubmittedIsARow DEF IsSubmitted, Txs, NoTx
    <2>6. Known(p) => Known(p)'
      BY <1>k, <2>1, <2>5 DEF Known
    <2>7. chain' = chain /\ lost' = lost /\ crashes' = crashes
      BY <1>3 DEF StoreSubmission
    <2> QED
      BY <1>q, <1>t, <2>6, <2>7
  <1>4. ASSUME NEW w \in Workers, StoreFails(w) \/ Crash(w)
        PROVE  Cardinality(Live(p)') <= (IF Known(p)' THEN 1 ELSE 0) + lost' + crashes'
    BY <1>4, <1>l, <1>t DEF StoreFails, Crash
  <1>5. ASSUME NEW q \in Plans, NEW k \in Txs, Decide(q, k)
        PROVE  Cardinality(Live(p)') <= (IF Known(p)' THEN 1 ELSE 0) + lost' + crashes'
    <2>1. PICK verdict : chain' = [chain EXCEPT ![q][k] = verdict]
      BY <1>5 DEF Decide
    <2>2. \A j \in Txs : chain'[p][j] = IF p = q /\ j = k THEN verdict ELSE chain[p][j]
      BY <1>t, <2>1 DEF TypeOK
    <2>3. Live(p)' \subseteq Live(p)
      BY <1>5, <2>2 DEF Live, Decide
    <2>4. /\ Cardinality(Live(p)') <= Cardinality(Live(p)) /\ Known(p)' = Known(p)
          /\ lost' = lost /\ crashes' = crashes
      BY <1>5, <2>3, LiveCount DEF Decide, Known, Plan
    <2> QED
      BY <1>n, <1>c, <1>t, <2>4
  <1>6. ASSUME \A w \in Workers : /\ ~ TransferOnChain(w) /\ ~ TransferInProcess(w)
                                  /\ ~ StoreSubmission(w) /\ ~ StoreFails(w) /\ ~ Crash(w),
               \A q \in Plans, k \in Txs : ~ Decide(q, k)
        PROVE  Cardinality(Live(p)') <= (IF Known(p)' THEN 1 ELSE 0) + lost' + crashes'
    <2>1. chain' = chain /\ lost' = lost /\ crashes' = crashes
      BY <1>6 DEF Next, Step, vars, PlanTransfers, SettleAgain, ListExisting, QueueSettlements,
         SettleFails, Claim, Handle, ConfirmConsensus, ConfirmMirror,
         NotYetVisible, ReadAccounts, CommitAccounts, RecordFailure, MarkDelivered, StepFails,
         RecordingFails, ReadHolders, CommitRepayment, Default
    <2>2. \A w \in Workers : pc[w] = "submitted" => pc'[w] = "submitted" /\ holds'[w] = holds[w]
      <3> DEFINE Keeps == \A w \in Workers :
                            pc[w] = "submitted" => pc'[w] = "submitted" /\ holds'[w] = holds[w]
      <3>t. pc \in [Workers -> Labels] /\ DOMAIN holds = Workers
        BY <1>t DEF TypeOK
      <3>1. ASSUME NEW w \in Workers, ConfirmConsensus(w) \/ ConfirmMirror(w) \/ NotYetVisible(w)
            PROVE  Keeps
        <4>1. pc[w] = "advance" /\ holds' = holds
          BY <3>1 DEF ConfirmConsensus, ConfirmMirror, NotYetVisible, AtConsensus, AtMirror
        <4>2. \E l \in Labels : pc' = [pc EXCEPT ![w] = l]
          BY <3>1 DEF ConfirmConsensus, ConfirmMirror, NotYetVisible, Store, Goto, Labels
        <4> QED
          BY <3>t, <4>1, <4>2
      <3>2. ASSUME NEW w \in Workers, Handle(w) \/ ReadAccounts(w) \/ CommitAccounts(w) \/ StepFails(w)
            PROVE  Keeps
        <4>1. pc[w] # "submitted" /\ holds' = holds
          BY <3>2 DEF Handle, ReadAccounts, CommitAccounts, StepFails, AtAccount
        <4>2. \E l \in Labels : pc' = [pc EXCEPT ![w] = l]
          BY <3>2 DEF Handle, ReadAccounts, CommitAccounts, StepFails, Goto, Labels
        <4> QED
          BY <3>t, <4>1, <4>2
      <3>3. ASSUME NEW w \in Workers, RecordFailure(w) \/ RecordingFails(w) \/ MarkDelivered(w)
            PROVE  Keeps
        BY <3>3, <3>t DEF RecordFailure, RecordingFails, MarkDelivered, Release, Goto
      <3>4. ASSUME NEW w \in Workers, NEW c \in Commands, Claim(w, c)
            PROVE  Keeps
        BY <3>4, <3>t DEF Claim, Goto
      <3>5. ASSUME \/ PlanTransfers \/ SettleAgain \/ UNCHANGED vars
                   \/ \E i \in Invoices : ReadHolders(i) \/ CommitRepayment(i) \/ Default(i)
            PROVE  Keeps
        BY <3>5 DEF PlanTransfers, SettleAgain, ListExisting, QueueSettlements, SettleFails,
           vars, ReadHolders, CommitRepayment, Default, memory
      <3> QED
        BY <1>6, <3>1, <3>2, <3>3, <3>4, <3>5 DEF Next, Step
    <2>3. Known(p) => Known(p)'
      BY <1>k, <2>2 DEF Known, Plan
    <2> QED
      BY <1>q, <1>t, <2>1, <2>3
  <1> QED
    BY <1>1, <1>2, <1>3, <1>4, <1>5, <1>6

LEMMA OneInit == ASSUME OneProcess, Plans # {}, Init PROVE OneInv
  <1>1. PlansExist /\ CopyIsCurrent /\ LastCloses
    BY DEF Init, PlansExist, CopyIsCurrent, LastCloses
  <1>2. AccountedBatchIsSettled
    BY DEF Init, AccountedBatchIsSettled, IsFinished, NoRow
  <1>3. \A p \in Plans : Live(p) = {} /\ lost + crashes = 0 /\ lost \in Nat /\ crashes \in Nat
    BY DEF Init, Live
  <1>4. TransfersAreExplained
    BY <1>3, FS_EmptySet DEF TransfersAreExplained
  <1> QED
    BY <1>1, <1>2, <1>4 DEF OneInv

LEMMA OneStep == ASSUME OneProcess, IInv, OneInv, [Next]_vars PROVE OneInv'
  BY RowsStayRows, CurrentStep, CloseStep, BatchStep, TransfersStep DEF OneInv

\* With one process what the runs of one process check holds of every batch and any number of faults.
THEOREM OneProcessInvariant ==
    ASSUME OneProcess, Plans # {}
    PROVE  Spec => []OneInv
  <1>1. Init => OneInv
    BY OneInit
  <1>2. IInv /\ OneInv /\ [Next]_vars => OneInv'
    BY OneStep
  <1> QED
    BY <1>1, <1>2, SagaInvariant, PTL DEF Spec

\* finishAuction: the process that accounts the last transfer of a batch closes the batch with it.
THEOREM LastTransferClosesBatch ==
    ASSUME OneProcess, Plans # {}
    PROVE  Spec => []AccountedBatchIsSettled
  <1>1. OneInv => AccountedBatchIsSettled
    BY DEF OneInv
  <1> QED
    BY <1>1, OneProcessInvariant, PTL

\* Redelivery, retries and repeated settle requests never submit a transfer again: each one
\* beyond the first is paid for by an id that was lost or by a crash.
THEOREM NoTransferIsRepeated ==
    ASSUME OneProcess, Plans # {}
    PROVE  Spec => []ExtraTransfersAreExplained
  <1>1. IInv /\ OneInv => ExtraTransfersAreExplained
    <2> SUFFICES ASSUME IInv, TransfersAreExplained, NEW p \in Plans
                 PROVE  Cardinality(Live(p)) <= 1 + lost + crashes
      BY DEF OneInv, ExtraTransfersAreExplained
    <2>1. lost \in Nat /\ crashes \in Nat
      BY SettlementAssumption DEF IInv, TypeOK
    <2> QED
      BY <2>1, LiveCount DEF TransfersAreExplained
  <1> QED
    BY <1>1, OneProcessInvariant, SagaInvariant, PTL
===============================================================================
