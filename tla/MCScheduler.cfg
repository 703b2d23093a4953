SPECIFICATION FairSpec
CONSTANTS
    Job = {j1, j2}
    Request <- MCRequest
    MaxDepth = 1
    MaxWait = 1
    AgingStep = 1
    MaxBoost = 2
    Concurrency = 1
    Backoff = {1}
    Chunks = 2
    MaxSlip = 1
    Capacity = 1
CHECK_DEADLOCK FALSE
INVARIANTS NoLostWakeup StreamEndHonest
PROPERTIES StarvationBounded EveryCallerAnswered
