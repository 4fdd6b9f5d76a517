CONSTANTS
    Parties = {1, 2, 3}
    Issuer = 3
    Books <- MCBooks
    References = {"exact", "exact "}
    Trimmed <- Spelling
    Requests = {r1, r2}
SPECIFICATION Spec
SYMMETRY Interchangeable
INVARIANTS PaymentIsDivided ClosedAsPaid AnswersAreOnRecord
PROPERTY ClosedIsFinal
