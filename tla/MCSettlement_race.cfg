CONSTANTS
    a = a  b = b  x = x  y = y
    Plans = {a, b}
    Invoices = {x}
    InvoiceOf <- OneInvoice
    OnChain = {a, b}
    Callers = {}
    Workers = {w1, w2}
    Repayable = {x}
    Outcomes = {"credited", "uncredited", "rejected"}
    NoCommand = NoCommand
    MaxTxs = 2
    MaxCommands = 1
    MaxDeliveries = 2
    MaxFaults = 1
    MaxEarly = 1
    MaxLost = 1
    MaxCrashes = 0
SYMMETRY Interchangeable
SPECIFICATION Spec
CHECK_DEADLOCK FALSE
INVARIANTS AccountedWasCredited SettledBatchIsAccounted InvoiceFollowsTransfers RepaidHoldersAreAccounted
PROPERTY SubmissionIsRemembered
