-------------------------- MODULE MCProjectionOutbox --------------------------
(* Model-checking instance of ProjectionOutbox. *)
EXTENDS ProjectionOutbox

CONSTANTS x1, gateA, gateB

MCExecutions == {x1}
MCGateways == {gateA, gateB}
MCOneGateway == {gateA}

Reply == [kind |-> "completed", sends |-> TRUE]
Notice == [kind |-> "suspended", sends |-> TRUE]
Question == [kind |-> "suspended", sends |-> FALSE]
Failure == [kind |-> "failed", sends |-> FALSE]

MCOutcomes == {Reply, Notice, Failure}
NoOutcomes == {}
===============================================================================
