SPECIFICATION RuntimeSpec
CONSTANTS
    x1 = x1
    workerA = workerA
    workerB = workerB
    timer = timer
    signal = signal
    approval = approval
    woken = woken
    None = None
    Own = Own
    Retry = Retry
    Executions <- MCExecutions
    Owners <- MCOneOwner
    Conditions <- MCConditions
    Timers <- MCTimers
    Approvals <- MCApprovals
    Payloads <- MCPayloads
    Bodies <- MCBodies
    MaxFence = 9
    MaxRevision = 3
    MaxAttempts = 2
    MaxFaults = 1
INVARIANT RetryBudgetEnforced
CHECK_DEADLOCK FALSE
