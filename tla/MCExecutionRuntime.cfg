SPECIFICATION RuntimeSpec
CONSTANTS
    x1 = x1
    workerA = workerA
    workerB = workerB
    timer = timer
    signal = signal
    approval = approval
    woken = woken
    None = None
    Own = Own
    Retry = Retry
    Executions <- MCExecutions
    Owners <- MCOwners
    Conditions <- MCConditions
    Timers <- MCTimers
    Approvals <- MCApprovals
    Payloads <- MCPayloads
    Bodies <- MCBodies
    MaxFence = 9
    MaxRevision = 2
    MaxAttempts = 2
    MaxFaults = 1
SYMMETRY WorkerSymmetry
INVARIANTS
    RuntimeTypeOK
    CancelledTurnHasNoWake
PROPERTIES
    CommittedByAttempt
    CancelledTurnNotAnswered
CHECK_DEADLOCK FALSE
