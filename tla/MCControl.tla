------------------------------ MODULE MCControl ------------------------------
(***************************************************************************)
(* Small instances of the control stack.  One unit of power stands for     *)
(* about 300 W.                                                            *)
(***************************************************************************)
EXTENDS ControlProperties

MCBatteries == {[batt |-> 1, soc |-> 50]}
MCGrids == {-1, 3}
MCTunDefault == [minDelta |-> 2, maxPower |-> 2, idleLapse |-> 1]
MCTunDefaultLive == [minDelta |-> 1, maxPower |-> 1, idleLapse |-> 1]
MCTunDefaultKeep == [MCTunDefaultLive EXCEPT !.idleLapse = 3]
MCGridsImport == {-1}
MCGridsNight == {-1, 1}
MCTunings == {[MCTunDefault EXCEPT !.maxPower = 5], [MCTunDefault EXCEPT !.maxPower = 1]}
MCCharges == {-2}
MCChargeUnwritten == {-1}
MCLeftovers == {<<-AutoDefault, AutoDefault>>, <<-PowerCap, -PowerCap>>}
MCBootAges == {0, AgeCap}
=============================================================================
