CONSTANTS
    a = a  b = b  x = x  y = y
    Plans = {a, b}
    Invoices = {x, y}
    InvoiceOf <- TwoInvoices
    OnChain = {a}
    Callers = {s1}
    Workers = {w1}
    Repayable = {}
    Outcomes = {"credited"}
    NoCommand = NoCommand
    MaxTxs = 3
    MaxCommands = 2
    MaxDeliveries = 4
    MaxFaults = 0
    MaxEarly = 1
    MaxLost = 1
    MaxCrashes = 1
SPECIFICATION FairSpec
CHECK_DEADLOCK FALSE
INVARIANTS AccountedBatchIsSettled ExtraTransfersAreExplained
PROPERTIES ImplementsDelivery EveryPlanIsAccounted
