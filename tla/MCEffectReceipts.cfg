SPECIFICATION EffectSpec
CONSTANTS
    x1 = x1
    workerA = workerA
    workerB = workerB
    timer = timer
    receipt = receipt
    woken = woken
    None = None
    Own = Own
    Retry = Retry
    Executions <- MCExecutions
    Owners <- MCOwners
    Conditions <- MCConditions
    Timers <- MCTimers
    Approvals <- MCReceipts
    Receipts <- MCReceipts
    ExecutionOf <- MCExecutionOf
    Payloads <- MCPayloads
    Bodies <- MCBodies
    MaxFence = 7
    MaxRevision = 2
    MaxAttempts = 1
    MaxFaults = 1
SYMMETRY WorkerSymmetry
INVARIANTS
    EffectTypeOK
    SentOnce
    SentIsRecorded
    EffectWaitsResolvable
PROPERTY RunsUnderTheRuntime
CHECK_DEADLOCK FALSE
