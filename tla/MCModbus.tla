------------------------------ MODULE MCModbus ------------------------------
(***************************************************************************)
(* A small instance of the Modbus master: frames of up to eleven bytes, the *)
(* time limits in their order but a few units long.                        *)
(***************************************************************************)
EXTENDS Modbus

MCReadCounts == {0, 1, 2, 4}
MCWriteBytes == {2, 4}
MCForeignBytes == {1, 3}
MCDataBytes == {1, 3}
=============================================================================
