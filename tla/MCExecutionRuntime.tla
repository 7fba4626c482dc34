-------------------------- MODULE MCExecutionRuntime --------------------------
(* Model-checking instance of ExecutionRuntime: one task, two workers or one. *)
EXTENDS ExecutionRuntime, TLC

CONSTANTS x1, workerA, workerB, timer, signal, approval, woken

MCExecutions == {x1}
MCOwners == {workerA, workerB}
MCOneOwner == {workerA}
MCTimers == {timer}
MCApprovals == {approval}
MCConditions == {timer, signal, approval}
MCPayloads == {woken}
MCBodies == {Own, Retry}

WorkerSymmetry == Permutations(MCOwners)
===============================================================================
