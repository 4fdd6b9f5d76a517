CONSTANTS
    Wallets = {w1, w2, w3}
    Challenges = {c1, c2}
    Accounts = {a1, a2}
    Requests = {r1, r2}
    Commands = {p1, p2}
    MaxVersion = 3
    AutoApprove = FALSE
    Nobody = Nobody
SPECIFICATION Spec
SYMMETRY Interchangeable
CHECK_DEADLOCK FALSE
INVARIANTS ChallengeBuysOnce EligibilityIsAsDecided
PROPERTY AccountIsForGood
