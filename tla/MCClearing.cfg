SPECIFICATION ClearSpec
CONSTANTS
    Unreachable = 1000000
    Scale = 1000
    Points = 100
    Fine = 2
    Batches <- AllBatches
INVARIANTS FlowIsFeasible CandidateKeepsRules MaterializedKeepsLimits
PROPERTIES EveryAugmentationPays EndsOrCircles
CHECK_DEADLOCK FALSE
