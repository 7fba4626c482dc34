--------------------------- MODULE MCEffectReceipts ---------------------------
(* Model-checking instance of EffectReceipts: one turn, one call, two workers. *)
EXTENDS EffectReceipts, TLC

CONSTANTS x1, workerA, workerB, timer, receipt, woken

MCExecutions == {x1}
MCOwners == {workerA, workerB}
MCTimers == {timer}
MCReceipts == {receipt}
MCConditions == {timer, receipt}
MCPayloads == {woken}
MCBodies == {Own, Retry}
MCExecutionOf == receipt :> x1

WorkerSymmetry == Permutations(MCOwners)
===============================================================================
