SPECIFICATION JournalSpec
CONSTANTS
    x1 = x1
    x2 = x2
    ownerA = ownerA
    ownerB = ownerB
    timer = timer
    signal = signal
    body = body
    wokenA = wokenA
    wokenB = wokenB
    None = None
    Executions <- MCExecutions
    Owners <- MCOwners
    Conditions <- MCConditions
    Timers <- MCTimers
    Payloads <- MCPayloads
    Bodies <- MCBodies
    MaxFence = 3
    MaxRevision = 2
SYMMETRY JournalSymmetry
INVARIANTS
    JournalConsistent
    PendingWakesDeliverable
    OperationsFold
    ContinuationLineage
PROPERTIES
    FencingHolds
    OutcomesSealed
    ImplementsContract
CHECK_DEADLOCK FALSE
