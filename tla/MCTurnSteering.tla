---------------------------- MODULE MCTurnSteering ----------------------------
(***************************************************************************)
(* Instances of TurnSteering for TLC.                                      *)
(***************************************************************************)
EXTENDS TurnSteering

===============================================================================
