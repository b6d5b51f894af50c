--------------------------- MODULE BatteryControl ---------------------------
(***************************************************************************)
(* What the control stack promises, without caches, probing or polling:    *)
(* there is a mode with a power range, commands change them, and whatever  *)
(* the inverter is told at other times lies in the envelope of the present *)
(* mode.  Only a restart, which forgets that the inverter was ever read,   *)
(* may find the register as a command left it that was not saved.          *)
(* ControlStack implements this specification.                             *)
(***************************************************************************)
EXTENDS Integers

CONSTANTS
  PowerCap,     \* no power above this is ever asked for
  AutoDefault   \* the range of a device without a configuration

VARIABLES
  mode,   \* the control mode
  range,  \* its [min, max]; for the battery saver, all it may choose from
  reg,    \* the range the inverter was last given
  fresh   \* the inverter has not been read since the device (re)started

vars == <<mode, range, reg, fresh>>

\* The ranges each mode may stand for.
Demands ==
  [m: {"charge"},  r: {<<p, p>> : p \in -PowerCap .. PowerCap}] \cup
  [m: {"standby"}, r: {<<0, 0>>}] \cup
  [m: {"auto"},    r: {<<-p, p>> : p \in 1 .. PowerCap}] \cup
  [m: {"battery_saver"}, r: {<<0, PowerCap>>}]

\* The saver opens a window above zero or fixes a charging power: it never
\* asks the battery to discharge.  The other modes have one range.
Envelope(dem) ==
  IF dem.m = "battery_saver"
  THEN {<<0, p>> : p \in 0 .. PowerCap} \cup {<<p, p>> : p \in 0 .. PowerCap}
  ELSE {dem.r}

Present == [m |-> mode, r |-> range]

Lost == [m |-> "auto", r |-> <<-AutoDefault, AutoDefault>>]

Become(dem) == mode' = dem.m /\ range' = dem.r

\* What a command tells the inverter at once: nothing before the inverter has
\* been read, and nothing for the saver, which waits for the next tick.
Told(dem) == IF fresh \/ dem.m = "battery_saver" THEN {} ELSE {dem.r}

\* What a configuration may say of a demand when power failed while it was
\* being saved: nothing, all but the limit, or the mode without its power.
Remnants(dem) ==
  {Lost} \cup (IF dem.m = "auto" THEN {} ELSE {dem}) \cup
  (IF dem.m = "charge" THEN {[dem EXCEPT !.r = <<0, 0>>]} ELSE {})

Init == Present = Lost /\ reg \in Int \X Int /\ fresh = TRUE

\* A command takes effect at once, or when the inverter can be reached.
Command ==
  \E dem \in Demands :
    Become(dem) /\ reg' \in {reg} \cup Told(dem) /\ UNCHANGED fresh

\* Between commands: the inverter is read, and told what the mode stands for.
Control ==
  /\ fresh' = FALSE /\ reg' \in {reg} \cup Envelope(Present)
  /\ UNCHANGED <<mode, range>>

\* A restart interrupts at most one command, which may have told the inverter.
\* The old mode is resumed, or what the save of the new one left behind.
Restart ==
  /\ fresh' = TRUE
  /\ \E dem \in Demands :
       /\ reg' \in {reg} \cup Told(dem)
       /\ \E next \in {Present} \cup Remnants(dem) : Become(next)

Next == Command \/ Control \/ Restart

Spec == Init /\ [][Next]_vars
=============================================================================
