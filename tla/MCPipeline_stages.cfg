CONSTANTS
    Workers = {w1, w2}
    Workflows = {"inline", "elsewhere"}
    Issuers = {"local", "live"}
    NoCommand = NoCommand
    MaxCommands = 3
    MaxDeliveries = 3
    MaxMints = 2
    MaxFaults = 2
SPECIFICATION FairSpec
CHECK_DEADLOCK FALSE
INVARIANTS StagesInOrder LocalTokenIsOne
PROPERTIES ImplementsDelivery EveryStageEnds
