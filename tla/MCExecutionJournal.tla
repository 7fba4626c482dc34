-------------------------- MODULE MCExecutionJournal --------------------------
(* Model-checking instance of ExecutionJournal. *)
EXTENDS ExecutionJournal, TLC

CONSTANTS x1, x2, ownerA, ownerB, timer, signal, body, wokenA, wokenB

MCExecutions == {x1, x2}
MCOwners == {ownerA, ownerB}
MCTimers == {timer}
MCConditions == {timer, signal}
MCPayloads == {wokenA, wokenB}
MCBodies == {body}

JournalSymmetry == Permutations(MCExecutions) \cup Permutations(MCOwners)
                     \cup Permutations(MCPayloads)
===============================================================================
