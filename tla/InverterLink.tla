---------------------------- MODULE InverterLink ----------------------------
(***************************************************************************)
(* What polling promises to the control code: the part of InverterData and *)
(* of Inverter that BatterySaver and ModeController read, and how one      *)
(* pollStep may change it.  InverterPoll refines this specification.       *)
(***************************************************************************)
EXTENDS Integers

CONSTANTS
  Grids,      \* grid powers a GRID block may report
  Batteries,  \* [batt, soc] a BATT block may report
  SeqMod      \* sampleSeq is an unsigned counter modulo this (2^32)

ASSUME LinkAssumption ==
  /\ Grids \subseteq Int
  /\ Batteries \subseteq [batt: Int, soc: Nat]
  /\ SeqMod \in Nat /\ SeqMod > 2

VARIABLE d

LinkData == [err: BOOLEAN, valid: BOOLEAN, seq: 0 .. SeqMod - 1,
             grid: Int, batt: Int, soc: Nat]

LinkBoot == [err |-> TRUE, valid |-> FALSE, seq |-> 0,
             grid |-> 0, batt |-> 0, soc |-> 0]

\* The counter skips 0, which means "no sample yet".
NextSeq(seq) == IF (seq + 1) % SeqMod = 0 THEN 1 ELSE (seq + 1) % SeqMod

\* The probe of a link in error, or the GRID block, failed.
Down(e) == [e EXCEPT !.err = TRUE, !.valid = FALSE]

\* The BATT block failed: valid keeps its value until the next failed step.
BattLost(e) == [e EXCEPT !.err = TRUE]

GridRead(e, g) == [e EXCEPT !.err = FALSE, !.valid = TRUE,
                            !.seq = NextSeq(@), !.grid = g]

BattRead(e, b) == [e EXCEPT !.batt = b.batt, !.soc = b.soc]

PollOutcomes(e) ==
  {Down(e)} \cup {GridRead(e, g) : g \in Grids} \cup
  (IF e.err THEN {} ELSE {e, BattLost(e)} \cup {BattRead(e, b) : b \in Batteries})

LinkInit == d = LinkBoot

LinkNext == d' \in PollOutcomes(d)

LinkSpec == LinkInit /\ [][LinkNext]_d
=============================================================================
