SPECIFICATION OutboxSpec
CONSTANTS
    x1 = x1
    gateA = gateA
    gateB = gateB
    NoOne = NoOne
    Executions <- MCExecutions
    Gateways <- MCOneGateway
    PlainOutcomes <- MCOutcomes
    LinkedOutcomes <- NoOutcomes
    MaxRevision = 2
    MaxGeneration = 2
    MaxFaults = 0
    MaxDenials = 1
    NoticeClaims = 2
INVARIANTS
    NoResolvedReceiptStranded
CHECK_DEADLOCK FALSE
