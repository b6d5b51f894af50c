------------------------- MODULE InverterPoll_proofs -------------------------
(***************************************************************************)
(* Proofs about the poll state machine, for every divisor of the slow tier *)
(* and every reading: its invariants, and that it implements InverterLink, *)
(* the only thing the control stack knows of polling.                      *)
(***************************************************************************)
EXTENDS InverterPoll, TLAPS

-----------------------------------------------------------------------------
(* The link data.                                                          *)

\* The sample counter skips zero and stays below its modulus.
LEMMA NextSeqTyped ==
  ASSUME NEW seq \in 0 .. SeqMod - 1
  PROVE  NextSeq(seq) \in 0 .. SeqMod - 1 /\ NextSeq(seq) # 0
<1>1. SeqMod \in Nat /\ SeqMod > 2
  BY LinkAssumption
<1>2. (seq + 1) % SeqMod \in 0 .. SeqMod - 1
  BY <1>1
<1>3. QED
  BY <1>1, <1>2 DEF NextSeq

\* Whatever a poll step does to the link data leaves link data.
LEMMA OutcomesTyped ==
  ASSUME NEW e \in LinkData, NEW f \in PollOutcomes(e)
  PROVE  f \in LinkData
<1>1. Down(e) \in LinkData /\ BattLost(e) \in LinkData
  BY DEF LinkData, Down, BattLost
<1>2. ASSUME NEW g \in Grids PROVE GridRead(e, g) \in LinkData
  BY NextSeqTyped, LinkAssumption DEF LinkData, GridRead
<1>3. ASSUME NEW b \in Batteries PROVE BattRead(e, b) \in LinkData
  BY LinkAssumption DEF LinkData, BattRead
<1>4. QED
  BY <1>1, <1>2, <1>3 DEF PollOutcomes

\* A link is in error after a failure and live after a grid reading; a battery
\* reading does not change that.
LEMMA OutcomeErrors ==
  ASSUME NEW e \in LinkData
  PROVE  /\ Down(e).err = TRUE /\ BattLost(e).err = TRUE
         /\ \A g \in Grids : GridRead(e, g).err = FALSE
         /\ \A b \in Batteries : BattRead(e, b).err = e.err
  BY DEF LinkData, Down, BattLost, GridRead, BattRead

-----------------------------------------------------------------------------
(* Every step of the poll state machine is one that InverterLink allows.   *)

\* The link data after one step of the poll state machine.
LEMMA StepOutcome ==
  ASSUME PollStep
  PROVE  d' \in PollOutcomes(d) \/ d' = d
<1>1. CASE ProbeFails
  BY <1>1 DEF ProbeFails, PollOutcomes
<1>2. ASSUME NEW read \in BOOLEAN, PollGrid(read)
      PROVE  d' \in PollOutcomes(d)
  BY <1>2 DEF PollGrid, PollOutcomes
<1>3. ASSUME NEW read \in BOOLEAN, PollBatt(read)
      PROVE  d' \in PollOutcomes(d)
  BY <1>3 DEF PollBatt, PollOutcomes
<1>4. ASSUME NEW read \in BOOLEAN, PollPv(read) \/ PollSlow(read)
      PROVE  d' = d
  BY <1>4 DEF PollPv, PollSlow
<1>5. QED
  BY <1>1, <1>2, <1>3, <1>4 DEF PollStep

\* Inverter::pollStep changes what the control code reads in no other way than
\* InverterLink says, whichever blocks are due and whichever of them fail.
THEOREM PollImplementsLink == PollSpec => ImplementsLink
<1>1. PollInit => LinkInit
  BY DEF PollInit
<1>2. [PollStep]_pvars => [LinkNext]_d
  BY StepOutcome DEF LinkNext, pvars
<1>3. QED
  BY <1>1, <1>2, PTL DEF PollSpec, ImplementsLink, LinkSpec

-----------------------------------------------------------------------------
(* The schedule of the slow tier.                                          *)

\* A slow cycle starts the count at one; another cycle counts up, from one on
\* and never past the divisor.
LEMMA SlowPollDueCounts ==
  ASSUME NEW t \in Nat
  PROVE  /\ SlowPollDue(TRUE, t) = [due |-> TRUE, tick |-> 1]
         /\ \/ SlowPollDue(FALSE, t) = [due |-> TRUE, tick |-> 1]
            \/ /\ SlowPollDue(FALSE, t) = [due |-> FALSE, tick |-> t + 1]
               /\ t >= 1 /\ t + 1 <= SlowDiv
<1>1. SlowPollDue(TRUE, t) = [due |-> TRUE, tick |-> 1]
  BY DEF SlowPollDue
<1>2. CASE SlowDiv <= 1 \/ t = 0 \/ t >= SlowDiv
  BY <1>1, <1>2 DEF SlowPollDue
<1>3. CASE ~(SlowDiv <= 1 \/ t = 0 \/ t >= SlowDiv)
  <2>1. SlowPollDue(FALSE, t) = [due |-> FALSE, tick |-> t + 1]
    BY <1>3 DEF SlowPollDue
  <2>2. t >= 1 /\ t + 1 <= SlowDiv
    BY <1>3, PollAssumption
  <2>3. QED
    BY <1>1, <2>1, <2>2
<1>4. QED
  BY <1>2, <1>3

\* How a grid tick leaves the schedule: with a slow cycle begun, or with one
\* more of the others, where a recovery counts as the first.
LEMMA GridTickCounts ==
  ASSUME slowTick \in Nat, GridTick
  PROVE  \/ slow' = TRUE /\ slowTick' = 1
         \/ /\ slow' = FALSE /\ slowTick' <= SlowDiv
            /\ IF d.err THEN slowTick' = 2 ELSE slowTick >= 1 /\ slowTick' = slowTick + 1
<1> DEFINE t == IF d.err THEN SlowPollDue(TRUE, slowTick).tick ELSE slowTick
<1>1. /\ slow' = SlowPollDue(FALSE, t).due
      /\ slowTick' = SlowPollDue(FALSE, t).tick
  BY Zenon DEF GridTick
<1>2. SlowPollDue(TRUE, slowTick).tick = [due |-> TRUE, tick |-> 1].tick
  BY SlowPollDueCounts, Zenon
<1>3. t = IF d.err THEN 1 ELSE slowTick
  BY <1>2
<1> HIDE DEF t
<1>4. t \in Nat
  BY <1>3
<1>5. CASE SlowPollDue(FALSE, t) = [due |-> TRUE, tick |-> 1]
  <2>1. slow' = [due |-> TRUE, tick |-> 1].due /\ slowTick' = [due |-> TRUE, tick |-> 1].tick
    BY <1>1, <1>5, Zenon
  <2>2. QED
    BY <2>1
<1>6. CASE /\ SlowPollDue(FALSE, t) = [due |-> FALSE, tick |-> t + 1]
           /\ t >= 1 /\ t + 1 <= SlowDiv
  <2>1. /\ slow' = [due |-> FALSE, tick |-> t + 1].due
        /\ slowTick' = [due |-> FALSE, tick |-> t + 1].tick
    BY <1>1, <1>6, Zenon
  <2>2. QED
    BY <2>1, <1>3, <1>6
<1>7. QED
  BY <1>4, <1>5, <1>6, SlowPollDueCounts, Zenon

\* The cycles since the last slow one are behind its counter, which a recovery
\* of the link restarts with the cycle it has already begun.
Counted == fast = 0 \/ fast < slowTick

\* A grid tick keeps the count.
LEMMA GridTickCounted ==
  ASSUME PollTypeOK, Counted, GridTick,
         fast' = IF slow' THEN 0 ELSE IF d.err THEN 1 ELSE fast + 1
  PROVE  slow' \in BOOLEAN /\ slowTick' \in 0 .. SlowDiv /\ fast' \in Nat /\ Counted'
<1>1. SlowDiv \in Nat \ {0} /\ slowTick \in Nat /\ fast \in Nat /\ d.err \in BOOLEAN
  BY PollAssumption DEF PollTypeOK, LinkData
<1>2. \/ slow' = TRUE /\ slowTick' = 1
      \/ /\ slow' = FALSE /\ slowTick' <= SlowDiv
         /\ IF d.err THEN slowTick' = 2 ELSE slowTick >= 1 /\ slowTick' = slowTick + 1
  BY <1>1, GridTickCounts, Zenon
<1>3. slow' \in BOOLEAN
  BY <1>2
<1>4. fast' = 0 \/ (d.err /\ fast' = 1) \/ (~d.err /\ fast' = fast + 1)
  BY <1>1
<1>5. CASE slow' = TRUE /\ slowTick' = 1
  <2>1. fast' = 0
    BY <1>5
  <2>2. QED
    BY <1>1, <1>3, <1>5, <2>1 DEF Counted
<1>6. CASE /\ slowTick' <= SlowDiv
           /\ IF d.err THEN slowTick' = 2 ELSE slowTick >= 1 /\ slowTick' = slowTick + 1
  <2>1. slowTick' \in 0 .. SlowDiv /\ fast' \in Nat
    BY <1>1, <1>4, <1>6
  <2>2. Counted'
    BY <1>1, <1>4, <1>6 DEF Counted
  <2>3. QED
    BY <1>3, <2>1, <2>2
<1>7. QED
  BY <1>2, <1>5, <1>6

-----------------------------------------------------------------------------
(* The inductive invariant.                                                *)

\* On a live link, a block of the cycle that has been asked for and is marked as
\* read was read in this cycle.
Gathered ==
  ~d.err => /\ step \in {"pv", "batt"} => "grid" \in cycle
            /\ step = "batt" /\ "pv" \in ok => "pv" \in cycle

PollIInv == PollTypeOK /\ Counted /\ Gathered /\ DerivesFromOneCycle

LEMMA InitPollIInv == PollInit => PollIInv
<1> SUFFICES ASSUME PollInit PROVE PollIInv
  OBVIOUS
<1>1. d \in LinkData /\ d.err
  BY LinkAssumption DEF PollInit, LinkInit, LinkBoot, LinkData
<1>2. PollTypeOK
  BY <1>1, PollAssumption DEF PollTypeOK, PollInit, Blocks, FastBlocks, SlowBlocks
<1>3. QED
  BY <1>1, <1>2 DEF PollIInv, PollInit, Counted, Gathered, DerivesFromOneCycle

\* The next step is a block; the blocks that follow a fast one.
LEMMA NextStepTyped ==
  ASSUME NEW b \in Blocks, NEW s \in BOOLEAN
  PROVE  /\ NextPollStep(b, s) \in Blocks
         /\ b = "grid" => NextPollStep(b, s) = "pv"
         /\ b = "pv" => NextPollStep(b, s) = "batt"
         /\ b \in SlowBlocks \cup {"batt"} => NextPollStep(b, s) \notin {"pv", "batt"}
  BY DEF NextPollStep, Blocks, FastBlocks, SlowBlocks

LEMMA StepPollIInv ==
  ASSUME PollIInv, [PollStep]_pvars
  PROVE  PollIInv'
<1> USE DEF PollIInv
<1>1. d' \in LinkData
  BY StepOutcome, OutcomesTyped DEF PollTypeOK, pvars
<1>2. CASE ProbeFails
  <2>1. d'.err = TRUE
    BY <1>2, OutcomeErrors DEF ProbeFails, PollTypeOK
  <2>2. PollTypeOK'
    BY <1>1, <1>2 DEF ProbeFails, PollTypeOK, Track
  <2>3. QED
    BY <1>2, <2>1, <2>2 DEF ProbeFails, Counted, Gathered, DerivesFromOneCycle
<1>3. ASSUME NEW read \in BOOLEAN, PollGrid(read) PROVE PollIInv'
  <2>1. slow' \in BOOLEAN /\ slowTick' \in 0 .. SlowDiv /\ fast' \in Nat /\ Counted'
    BY <1>3, GridTickCounted DEF PollGrid
  <2>2. /\ step' \in Blocks
        /\ read => step' = "pv" /\ cycle' = {"grid"}
        /\ ~read => step' = "grid" /\ cycle' = {}
    BY <1>3, <2>1, NextStepTyped DEF PollGrid, Blocks, FastBlocks
  <2>3. ok' \subseteq Blocks
    BY <1>3 DEF PollGrid, PollTypeOK, Track, Blocks, FastBlocks, SlowBlocks
  <2>4. PollTypeOK'
    BY <1>1, <1>3, <2>1, <2>2, <2>3 DEF PollGrid, PollTypeOK, Blocks, FastBlocks
  <2>5. Gathered'
    BY <2>2 DEF Gathered
  <2>6. DerivesFromOneCycle'
    BY <1>3 DEF PollGrid, DerivesFromOneCycle
  <2>7. QED
    BY <2>1, <2>4, <2>5, <2>6
<1>4. ASSUME NEW read \in BOOLEAN, PollPv(read) PROVE PollIInv'
  <2>1. step' = "batt" /\ "batt" \in Blocks
    BY <1>4, NextStepTyped DEF PollPv, PollTypeOK, Blocks, FastBlocks
  <2>2. "pv" \in Blocks
    BY DEF Blocks, FastBlocks
  <2>3. PollTypeOK'
    BY <1>1, <1>4, <2>1, <2>2 DEF PollPv, PollTypeOK, Track
  <2>4. Gathered'
    BY <1>4, <2>1 DEF PollPv, Gathered, Track
  <2>5. Counted' /\ DerivesFromOneCycle'
    BY <1>4 DEF PollPv, Counted, DerivesFromOneCycle
  <2>6. QED
    BY <2>3, <2>4, <2>5
<1>5. ASSUME NEW read \in BOOLEAN, PollBatt(read) PROVE PollIInv'
  <2>1. "grid" \in cycle /\ ("pv" \in ok => "pv" \in cycle)
    BY <1>5 DEF PollBatt, Gathered
  <2>2. read => step' \notin {"pv", "batt"}
    BY <1>5, NextStepTyped DEF PollBatt, PollTypeOK
  <2>3. ~read => d'.err = TRUE
    BY <1>5, OutcomeErrors DEF PollBatt, PollTypeOK
  <2>4. Gathered'
    BY <2>2, <2>3 DEF Gathered
  <2>5. "batt" \in Blocks /\ step' \in Blocks
    BY <1>5, NextStepTyped DEF PollBatt, PollTypeOK, Blocks, FastBlocks
  <2>6. ok' = Track(ok, "batt", read)
    BY <1>5 DEF PollBatt
  <2>7. derived' \subseteq Blocks /\ DerivesFromOneCycle'
    <3>1. CASE read /\ FastBlocks \subseteq ok'
      BY <1>5, <2>1, <2>5, <2>6, <3>1
      DEF PollBatt, Track, FastBlocks, DerivesFromOneCycle, PollTypeOK
    <3>2. CASE ~(read /\ FastBlocks \subseteq ok')
      BY <1>5, <3>2 DEF PollBatt, DerivesFromOneCycle, PollTypeOK
    <3>3. QED
      BY <3>1, <3>2
  <2>8. PollTypeOK'
    BY <1>1, <1>5, <2>5, <2>7 DEF PollBatt, PollTypeOK, Track
  <2>9. Counted'
    BY <1>5 DEF PollBatt, Counted
  <2>10. QED
    BY <2>4, <2>7, <2>8, <2>9
<1>6. ASSUME NEW read \in BOOLEAN, PollSlow(read) PROVE PollIInv'
  <2>1. step' \in Blocks \ {"pv", "batt"}
    BY <1>6, NextStepTyped DEF PollSlow, PollTypeOK
  <2>2. PollTypeOK'
    BY <1>1, <1>6, <2>1 DEF PollSlow, PollTypeOK, Track
  <2>3. QED
    BY <1>6, <2>1, <2>2 DEF PollSlow, Counted, Gathered, DerivesFromOneCycle
<1>7. CASE UNCHANGED pvars
  BY <1>7 DEF pvars, PollTypeOK, Counted, Gathered, DerivesFromOneCycle
<1>8. QED
  BY <1>2, <1>3, <1>4, <1>5, <1>6, <1>7 DEF PollStep

\* The strengthened invariant: types, the slow tier's count, and which blocks of
\* the present cycle have been read.
THEOREM PollInvariant == PollSpec => []PollIInv
<1>1. PollInit => PollIInv
  BY InitPollIInv
<1>2. PollIInv /\ [PollStep]_pvars => PollIInv'
  BY StepPollIInv
<1>3. QED
  BY <1>1, <1>2, PTL DEF PollSpec

\* The poll state machine stays in its types for every divisor and reading.
THEOREM PollTypeCorrect == PollSpec => []PollTypeOK
<1>1. PollIInv => PollTypeOK
  BY DEF PollIInv
<1>2. QED
  BY <1>1, PollInvariant, PTL

\* deriveSelfPower never mixes readings of two cycles or of both sides of an
\* outage, whichever blocks fail and wherever the link is lost.
THEOREM DerivedFromOneCycle == PollSpec => []DerivesFromOneCycle
<1>1. PollIInv => DerivesFromOneCycle
  BY DEF PollIInv
<1>2. QED
  BY <1>1, PollInvariant, PTL

\* Never more than SlowDiv - 1 cycles in a row leave the slow tier out, through
\* losses and recoveries of the link.
THEOREM SlowTierNeverLate == PollSpec => []SlowTierDue
<1>1. PollIInv => SlowTierDue
  <2>1. SlowDiv \in Nat \ {0}
    BY PollAssumption
  <2>2. QED
    BY <2>1 DEF PollIInv, PollTypeOK, Counted, SlowTierDue
<1>2. QED
  BY <1>1, PollInvariant, PTL
=============================================================================
