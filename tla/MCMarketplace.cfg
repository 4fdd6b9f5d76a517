CONSTANTS
    issuer1 = issuer1  investor1 = investor1  investor2 = investor2  operator = operator
    b1 = b1  b2 = b2
    Invoices = {i1, i2}
    OwnerOf <- OneIssuer
    Auctions = {a1, a2}
    Bids = {b1, b2}
    BidderOf <- TwoInvestors
    Organizations = {issuer1, investor1, investor2, operator}
    Operators = {operator}
    Requests = {r1, r2}
    Nobody = Nobody
SYMMETRY Interchangeable
SPECIFICATION Spec
CHECK_DEADLOCK FALSE
INVARIANTS OnSaleInOneBatch OutcomesAgree SoldByOneClearing
