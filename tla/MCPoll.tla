------------------------------- MODULE MCPoll -------------------------------
(***************************************************************************)
(* A small instance of the poll state machine.                             *)
(***************************************************************************)
EXTENDS InverterPoll

MCGrids == {-1, 3}
MCBatteries == {[batt |-> 1, soc |-> 50], [batt |-> -2, soc |-> 95]}
=============================================================================
