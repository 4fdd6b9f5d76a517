CONSTANTS
    Offers <- MCOffers
    Lower <- LowerSpelling
    Trimmed <- TrimmedSpelling
    Documents <- MCDocuments
    Claimed <- MCClaimed
    Markets <- MCMarkets
    NoAnswer = NoAnswer
    LiquidityConstant = 95
    Sigmoid <- MCSigmoid
    Window = 1
    Callers = {1, 2}
    MaxInvoices = 2
    MaxRequested = 6
    Today = {0, 60}
SPECIFICATION Spec
CHECK_DEADLOCK FALSE
INVARIANTS NoDoubleFinancing AssessmentIsOfTheDocument PriceFollowsRisk ThinMarketMovesNothing
PROPERTY OldestIsAnswered
