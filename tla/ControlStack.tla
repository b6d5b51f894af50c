---------------------------- MODULE ControlStack ----------------------------
(***************************************************************************)
(* The control stack: ModeController (src/control/ModeController.cpp) over *)
(* BatterySaver and Inverter, the scheduler task that drives them once a   *)
(* poll step, commands from the LCD, the web page and MQTT, tuning, the    *)
(* hourly look at the inverter's passive timeout, and resets.  The loop is *)
(* cooperative, so a handler is one action; a reset may cut one short.     *)
(***************************************************************************)
EXTENDS BatterySaver, InverterLink

CONSTANTS
  Charges,      \* powers a "charge" command may carry
  AutoLimits,   \* limits an "auto" command may carry
  AutoDefault,  \* AUTO_LIMIT_DEFAULT
  PowerCap,     \* BSAVE_MAX_POWER
  Tunings,      \* [minDelta, maxPower, idleLapse] the web page may ask for
  TunDefault,   \* the compiled defaults of the three
  DeltaMin, DeltaMax, LapseMin, LapseMax,  \* clamps of the setters
  Timeouts,     \* raw values of the inverter's passive-timeout register
  Leftovers     \* what the inverter may have been told before the first boot

Tuning == [minDelta: DeltaMin .. DeltaMax, maxPower: 0 .. PowerCap,
           idleLapse: LapseMin .. LapseMax]

ASSUME ControlAssumption ==
  /\ PowerCap \in Nat
  /\ Charges \subseteq -PowerCap .. PowerCap
  /\ AutoDefault \in 1 .. PowerCap /\ AutoLimits \subseteq 1 .. PowerCap
  /\ Tunings \subseteq [minDelta: Int, maxPower: Int, idleLapse: Nat]
  /\ TunDefault \in Tuning
  /\ DeltaMin \in Nat \ {0} /\ DeltaMax \in Nat /\ DeltaMin <= DeltaMax
  /\ LapseMin \in Nat \ {0} /\ LapseMax \in Nat /\ LapseMin <= LapseMax
  /\ LapseMax <= AgeCap
  /\ Timeouts \subseteq Nat
  /\ Leftovers \subseteq Range

VARIABLES
  wr,         \* the write path: Inverter's cache and the inverter's register
  keepalive,  \* Inverter::_keepaliveMs
  timeout,    \* the inverter's passive-timeout register
  bs,         \* the BatterySaver object
  ctl,        \* ModeController: mode, charge power, auto limit
  tun,        \* the tuning parameters in force
  flash,      \* the EEPROM image: the fields that concern control
  want        \* history: the control state of the last completed command, less
              \* what a power cut inside a commit took of it

vars == <<d, wr, keepalive, timeout, bs, ctl, tun, flash, want>>

StaticModes == {"auto", "charge", "standby"}
Modes == StaticModes \cup {"battery_saver"}
Control == [mode: Modes, charge: Int, auto: 1 .. PowerCap]

CommandKinds == {"SetMode", "SaverSwitch", "SaverToggle", "SetCharge", "SetAuto"}

\* Every command parseCommand accepts, whichever surface it came from.
Commands ==
  [kind: {"SetMode"}, mode: Modes] \cup [kind: {"SaverSwitch"}, on: BOOLEAN] \cup
  [kind: {"SaverToggle"}] \cup [kind: {"SetCharge"}, value: Charges] \cup
  [kind: {"SetAuto"}, value: AutoLimits]
-----------------------------------------------------------------------------
\* modeDesiredPassiveRange
DesiredRange(c) ==
  CASE c.mode = "charge"  -> <<c.charge, c.charge>>
    [] c.mode = "standby" -> <<0, 0>>
    [] OTHER              -> <<-c.auto, c.auto>>

\* Mutant: the saver is given the range of auto until its first update.
ReconcileAnyMode(c, w, e, k) ==
  IF e.err THEN {w}
  ELSE {r.w : r \in SendPassiveRange(w, DesiredRange(c)[1], DesiredRange(c)[2], k)}

\* reconcile: the write paths it may leave.
Reconcile(c, w, e, k) ==
  IF e.err \/ c.mode \notin StaticModes
  THEN {w}
  ELSE {r.w : r \in SendPassiveRange(w, DesiredRange(c)[1], DesiredRange(c)[2], k)}

\* Mutant: another mode does not switch the saver off.
SwitchSaverOnOnly(s, mode) ==
  IF mode # "battery_saver" \/ s.active THEN {s}
  ELSE {Enabled(age) : age \in BootAges}

\* The saver's side of setMode: a repeated "on" does not probe again.
SwitchSaver(s, mode) ==
  IF mode # "battery_saver" THEN {SaverOff}
  ELSE IF s.active THEN {s} ELSE {Enabled(age) : age \in BootAges}

ModeForSaverSwitch(mode, on) ==
  IF on THEN "battery_saver" ELSE IF mode = "battery_saver" THEN "auto" ELSE mode

\* apply: the control state a command asks for.
Asked(c, cmd) ==
  CASE cmd.kind = "SetMode"     -> [c EXCEPT !.mode = cmd.mode]
    [] cmd.kind = "SaverSwitch" -> [c EXCEPT !.mode = ModeForSaverSwitch(@, cmd.on)]
    [] cmd.kind = "SaverToggle" ->
         [c EXCEPT !.mode = ModeForSaverSwitch(@, @ # "battery_saver")]
    [] cmd.kind = "SetCharge"   -> [c EXCEPT !.mode = "charge", !.charge = cmd.value]
    [] cmd.kind = "SetAuto"     -> [c EXCEPT !.mode = "auto", !.auto = cmd.value]

(***************************************************************************)
(* The EEPROM.  An erased field reads as -1, or as an empty mode; load()   *)
(* then keeps the compiled default.  Without the magic byte nothing is     *)
(* read at all.                                                            *)
(***************************************************************************)
Unwritten == -1

Blank == [magic |-> FALSE, mode |-> "", charge |-> Unwritten,
          auto |-> Unwritten, tun |-> TunDefault]

\* Configured by a firmware that did not store the control state yet.
Upgraded == [Blank EXCEPT !.magic = TRUE]

Flash == [magic: BOOLEAN, mode: Modes \cup {""}, charge: Int,
          auto: {Unwritten} \cup 1 .. PowerCap, tun: Tuning]

\* Mutant: the charge power is not stored.
SavedWithoutCharge(c, t) ==
  [magic |-> TRUE, mode |-> c.mode, charge |-> Unwritten,
   auto |-> c.auto, tun |-> t]

Saved(c, t) == [magic |-> TRUE, mode |-> c.mode, charge |-> c.charge,
                auto |-> c.auto, tun |-> t]

\* The image f of which a power cut let only the first n fields be written, in
\* the order of their offsets: magic, three of tuning, mode, charge, auto.  (An
\* erased tuning field stands as the default that load() keeps for it, a mode
\* name that is cut off as the empty one: neither is a mode.)
CutShort(f, n) ==
  [magic |-> n > 0,
   tun |-> [minDelta  |-> IF n > 1 THEN f.tun.minDelta ELSE TunDefault.minDelta,
            maxPower  |-> IF n > 2 THEN f.tun.maxPower ELSE TunDefault.maxPower,
            idleLapse |-> IF n > 3 THEN f.tun.idleLapse ELSE TunDefault.idleLapse],
   mode |-> IF n > 4 THEN f.mode ELSE "",
   charge |-> IF n > 5 THEN f.charge ELSE Unwritten,
   auto |-> Unwritten]

\* What should be left of the control state c by such a cut.
Left(c, n) == [mode   |-> IF n > 4 THEN c.mode ELSE "auto",
               charge |-> IF n > 5 THEN c.charge ELSE 0,
               auto   |-> AutoDefault]

LoadField(field, default) == IF field = Unwritten THEN default ELSE field

\* load and restore.
Restored(f) ==
  IF ~f.magic THEN [mode |-> "auto", charge |-> 0, auto |-> AutoDefault]
  ELSE [mode   |-> IF f.mode \in Modes THEN f.mode ELSE "auto",
        charge |-> LoadField(f.charge, 0),
        auto   |-> IF LoadField(f.auto, AutoDefault) > 0
                   THEN LoadField(f.auto, AutoDefault) ELSE AutoDefault]

\* Mutant: the ceiling is taken as it comes.
ClampDeltaOnly(t) == [t EXCEPT !.minDelta = Clamp(@, DeltaMin, DeltaMax)]

ClampTuning(t) == [minDelta  |-> Clamp(t.minDelta, DeltaMin, DeltaMax),
                   maxPower  |-> Clamp(t.maxPower, 0, PowerCap),
                   idleLapse |-> Clamp(t.idleLapse, LapseMin, LapseMax)]
-----------------------------------------------------------------------------
\* setup() with EEPROM contents f and the inverter's register left at reg.
\* The timeout read may fail; the mode is not written before the first poll.
Boot(f, reg) ==
  /\ d' = LinkBoot
  /\ wr' = ColdCache(reg)
  /\ keepalive' \in {0, KeepaliveFor(timeout)}
  /\ ctl' = Restored(f)
  /\ tun' = ClampTuning(f.tun)
  /\ bs' \in SwitchSaver(SaverOff, ctl'.mode)
  /\ flash' = Saved(ctl', f.tun)
  /\ UNCHANGED timeout

\* A first boot: the inverter was last told anything at all.
Init ==
  /\ d = LinkBoot
  /\ \E reg \in Leftovers : wr = ColdCache(reg)
  /\ timeout \in Timeouts
  /\ keepalive \in {0, KeepaliveFor(timeout)}
  /\ \E f \in {Blank, Upgraded} :
       ctl = Restored(f) /\ flash = Saved(ctl, f.tun)
  /\ tun = ClampTuning(TunDefault)
  /\ bs = SaverOff
  /\ want = ctl

\* The 1 s task: one poll step, then ModeController::tick.
ControlTick ==
  /\ d' \in PollOutcomes(d)
  /\ IF ctl.mode = "battery_saver"
     THEN \E r \in Update(bs, wr, d', tun, keepalive) :
            bs' = r.s /\ wr' = r.w
     ELSE wr' \in Reconcile(ctl, wr, d', keepalive) /\ UNCHANGED bs
  /\ UNCHANGED <<keepalive, timeout, ctl, tun, flash, want>>

\* The write path as a command finds it: a change of mind earns one write.
Incoming(c) == IF c = ctl THEN wr ELSE Unworn(wr)

Apply(cmd) ==
  /\ ctl' = Asked(ctl, cmd)
  /\ bs' \in SwitchSaver(bs, ctl'.mode)
  /\ wr' \in Reconcile(ctl', Incoming(ctl'), d, keepalive)
  /\ flash' = Saved(ctl', flash.tun)
  /\ want' = ctl'
  /\ UNCHANGED <<d, keepalive, timeout, tun>>

\* /api/tuning
Tune(t) ==
  /\ tun' = ClampTuning(t)
  /\ flash' = [flash EXCEPT !.tun = tun']
  /\ wr' = Unworn(wr)
  /\ UNCHANGED <<d, keepalive, timeout, bs, ctl, want>>

\* The hourly task.
ReadPassiveTimeout ==
  /\ ~d.err
  /\ keepalive' = KeepaliveFor(timeout)
  /\ UNCHANGED <<d, wr, timeout, bs, ctl, tun, flash, want>>

\* Somebody changes the timeout at the inverter's panel.
PanelSetsTimeout(t) ==
  /\ timeout' = t
  /\ UNCHANGED <<d, wr, keepalive, bs, ctl, tun, flash, want>>

\* Time passes between handlers.
Advance ==
  /\ wr' = Later(wr, 1)
  /\ bs' = IF bs.active THEN SaverLater(bs, 1) ELSE bs
  /\ UNCHANGED <<d, keepalive, timeout, ctl, tun, flash, want>>

\* What a command leaves in the inverter before it is saved.
Underway(c) == {w.reg : w \in Reconcile(c, Incoming(c), d, keepalive)}

AskedNow == {Asked(ctl, cmd) : cmd \in Commands}

\* A restart, or a power cut at rest or inside a command: after reconcile and
\* before persist.
Reset ==
  /\ \E reg \in {wr.reg} \cup UNION {Underway(c) : c \in AskedNow} :
       Boot(flash, reg)
  /\ UNCHANGED want

\* The commits that may be under way: of other fields of the configuration, of
\* a tuning, of a command that has written the inverter.
Commit(c, f, reg) == [ctl |-> c, image |-> f, reg |-> reg]

Commits ==
  {Commit(ctl, flash, wr.reg)} \cup
  {Commit(ctl, [flash EXCEPT !.tun = ClampTuning(t)], wr.reg) : t \in Tunings} \cup
  UNION {{Commit(c, Saved(c, flash.tun), reg) : reg \in Underway(c)} : c \in AskedNow}

CutAt(x, n) == Commit(Left(x.ctl, n), CutShort(x.image, n), x.reg)

\* Power fails inside EEPROM.commit, after the erase.
ResetInCommit ==
  \E x \in {CutAt(y, n) : y \in Commits, n \in 0 .. 6} :
    Boot(x.image, x.reg) /\ want' = x.ctl

Next ==
  \/ ControlTick
  \/ \E cmd \in Commands : Apply(cmd)
  \/ \E t \in Tunings : Tune(t)
  \/ ReadPassiveTimeout
  \/ \E t \in Timeouts : PanelSetsTimeout(t)
  \/ Advance
  \/ Reset
  \/ ResetInCommit

Spec == Init /\ [][Next]_vars
=============================================================================
