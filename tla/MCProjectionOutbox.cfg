SPECIFICATION FairOutboxSpec
CONSTANTS
    x1 = x1
    gateA = gateA
    gateB = gateB
    NoOne = NoOne
    Executions <- MCExecutions
    Gateways <- MCGateways
    PlainOutcomes <- MCOutcomes
    LinkedOutcomes <- NoOutcomes
    MaxRevision = 2
    MaxGeneration = 2
    MaxFaults = 2
    MaxDenials = 1
    NoticeClaims = 3
INVARIANTS
    OutboxTypeOK
    DeliveredOnce
    AcknowledgedInOrder
PROPERTIES
    StaleWorkersHarmless
    Converges
CHECK_DEADLOCK FALSE
