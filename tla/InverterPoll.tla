---------------------------- MODULE InverterPoll ----------------------------
(***************************************************************************)
(* Inverter::pollStep (src/inverter/Inverter.cpp): one register block per  *)
(* tick, three fast blocks a cycle and four slow ones every SlowDiv-th     *)
(* cycle; with the link in error a one-register probe takes their place.   *)
(* This is the detail behind InverterLink.                                 *)
(***************************************************************************)
EXTENDS InverterLink

CONSTANT SlowDiv  \* SLOW_POLL_DIV

ASSUME PollAssumption == SlowDiv \in Nat \ {0}

VARIABLES
  step,      \* _pollStep
  slow,      \* _slowCycle: this cycle goes on to the slow blocks
  slowTick,  \* _slowTick
  ok,        \* _data.blockOk: blocks whose last attempt succeeded
  cycle,     \* history: blocks read since this cycle or the link began anew
  derived,   \* history: cycle when the self power was last computed
  fast,      \* history: cycles begun since a slow one or a link recovery
  first      \* history: no cycle has been completed since the link came up

pvars == <<d, step, slow, slowTick, ok, cycle, derived, fast, first>>

FastBlocks == {"grid", "pv", "batt"}
SlowBlocks == {"sys", "batttot", "energy", "workmode"}
Blocks == FastBlocks \cup SlowBlocks

\* Mutant: off by one.
SlowPollDueLate(recovering, tick) ==
  IF recovering \/ SlowDiv <= 1 \/ tick = 0 \/ tick > SlowDiv
  THEN [due |-> TRUE, tick |-> 1]
  ELSE [due |-> FALSE, tick |-> tick + 1]

\* What inverterSlowPollDue returns, and the counter it leaves.
SlowPollDue(recovering, tick) ==
  IF recovering \/ SlowDiv <= 1 \/ tick = 0 \/ tick >= SlowDiv
  THEN [due |-> TRUE, tick |-> 1]
  ELSE [due |-> FALSE, tick |-> tick + 1]

\* Mutant: the slow blocks are out of the sequence.
NextFastStep(b, slowCycle) ==
  CASE b = "grid" -> "pv" [] b = "pv" -> "batt" [] OTHER -> "grid"

\* inverterNextPollStep
NextPollStep(b, slowCycle) ==
  CASE b = "grid"    -> "pv"
    [] b = "pv"      -> "batt"
    [] b = "batt"    -> IF slowCycle THEN "sys" ELSE "grid"
    [] b = "sys"     -> "batttot"
    [] b = "batttot" -> "energy"
    [] b = "energy"  -> "workmode"
    [] OTHER         -> "grid"

\* Mutant: a failed read does not clear the bit of its block.
TrackSuccess(blocks, b, read) == IF read THEN blocks \cup {b} ELSE blocks

Track(blocks, b, read) == IF read THEN blocks \cup {b} ELSE blocks \ {b}

PollInit ==
  /\ LinkInit
  /\ step = "grid" /\ slow = TRUE /\ slowTick = 0 /\ ok = {}
  /\ cycle = {} /\ derived = FastBlocks /\ fast = 0 /\ first = TRUE
-----------------------------------------------------------------------------
\* The link is down and the probe of the working mode fails as well.
ProbeFails ==
  /\ d.err
  /\ d' = Down(d)
  /\ ok' = Track(ok, "workmode", FALSE)
  /\ UNCHANGED <<step, slow, slowTick, cycle, derived, fast, first>>

\* A cycle begins, after a probe that succeeded if the link was down.
GridTick ==
  LET tick == IF d.err THEN SlowPollDue(TRUE, slowTick).tick ELSE slowTick
      s == SlowPollDue(FALSE, tick)
  IN  slow' = s.due /\ slowTick' = s.tick

\* Mutant: a probe that succeeded ends the tick.
PollGridAfterProbe(read) ==
  /\ d.err \/ step = "grid"
  /\ GridTick
  /\ ok' = Track(IF d.err THEN ok \cup {"workmode"} ELSE ok, "grid", read)
  /\ IF read /\ ~d.err
     THEN /\ d' \in {GridRead(d, g) : g \in Grids}
          /\ step' = NextPollStep("grid", slow')
     ELSE d' = (IF read THEN [d EXCEPT !.err = FALSE] ELSE Down(d)) /\ step' = "grid"
  /\ cycle' = IF read THEN {"grid"} ELSE {}
  /\ UNCHANGED <<derived, fast, first>>

PollGrid(read) ==
  /\ d.err \/ step = "grid"
  /\ GridTick
  /\ ok' = Track(IF d.err THEN ok \cup {"workmode"} ELSE ok, "grid", read)
  /\ IF read
     THEN /\ d' \in {GridRead(d, g) : g \in Grids}
          /\ step' = NextPollStep("grid", slow')
     ELSE d' = Down(d) /\ step' = "grid"
  /\ cycle' = IF read THEN {"grid"} ELSE {}
  /\ fast' = IF slow' THEN 0 ELSE IF d.err THEN 1 ELSE fast + 1
  /\ first' = (first \/ d.err \/ ~read)
  /\ UNCHANGED derived

PollPv(read) ==
  /\ ~d.err /\ step = "pv"
  /\ ok' = Track(ok, "pv", read)
  /\ step' = NextPollStep("pv", slow)
  /\ cycle' = Track(cycle, "pv", read)
  /\ UNCHANGED <<d, slow, slowTick, derived, fast, first>>

PollBatt(read) ==
  /\ ~d.err /\ step = "batt"
  /\ ok' = Track(ok, "batt", read)
  /\ IF read
     THEN /\ d' \in {BattRead(d, b) : b \in Batteries}
          /\ step' = NextPollStep("batt", slow)
     ELSE d' = BattLost(d) /\ UNCHANGED step
  /\ cycle' = IF read THEN cycle \cup {"batt"} ELSE {}
  /\ derived' = IF read /\ FastBlocks \subseteq ok' THEN cycle' ELSE derived
  /\ first' = ~read
  /\ UNCHANGED <<slow, slowTick, fast>>

PollSlow(read) ==
  /\ ~d.err /\ step \in SlowBlocks
  /\ ok' = Track(ok, step, read)
  /\ step' = NextPollStep(step, slow)
  /\ cycle' = Track(cycle, step, read)
  /\ UNCHANGED <<d, slow, slowTick, derived, fast, first>>

PollStep ==
  \/ ProbeFails
  \/ \E read \in BOOLEAN :
       PollGrid(read) \/ PollPv(read) \/ PollBatt(read) \/ PollSlow(read)

PollSpec == PollInit /\ [][PollStep]_pvars /\ WF_pvars(PollStep)
-----------------------------------------------------------------------------
\* Every variable of the poll state machine stays in its set; the counter of
\* the slow tier never passes its divisor.
PollTypeOK ==
  /\ d \in LinkData
  /\ step \in Blocks /\ slow \in BOOLEAN /\ slowTick \in 0 .. SlowDiv
  /\ ok \subseteq Blocks /\ cycle \subseteq Blocks /\ derived \subseteq Blocks
  /\ fast \in Nat /\ first \in BOOLEAN

\* Derived.h: self power is never computed from readings of which one is left
\* over from an earlier cycle or from before an outage.
DerivesFromOneCycle == FastBlocks \subseteq derived

\* Temperatures, energy and the working mode are due at least every SlowDiv-th
\* cycle, counted anew after every recovery.
SlowTierDue == fast < SlowDiv

\* Nothing but the polling code relies on how the blocks are scheduled: to the
\* control code every step is one that InverterLink allows.
ImplementsLink == LinkSpec

\* A link that stays up serves the slow tier again and again, although the
\* blocks themselves may fail every time.
SlowTierServed == <>[](~d.err) => \A b \in SlowBlocks : []<>(step = b)

\* PassiveWriteCache.h: "Slow registers (temps, lifetime energy, working mode)
\* are read on link recovery".  The first cycle completed after the link came
\* up goes on to the slow blocks.
SlowPollOnRecovery ==
  [][first /\ ~d.err /\ step = "batt" /\ ~d'.err => step' = "sys"]_pvars
=============================================================================
