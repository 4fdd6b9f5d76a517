CONSTANTS
    Events = {e1, e2, bad}
    Workers = {w1, w2}
    Poisoned = {bad}
    BatchSize = 2
    MaxAttempts = 2
    MaxFailures = 1
    MaxRetries = 1
SPECIFICATION FairQueueSpec
CHECK_DEADLOCK FALSE
PROPERTIES ImplementsDelivery EveryEventIsDelivered
