------------------------- MODULE ControlProperties -------------------------
(***************************************************************************)
(* What is asked of the control stack.                                     *)
(***************************************************************************)
EXTENDS ControlStack

\* Every variable of the control stack stays in the set it was declared for.
TypeOK ==
  /\ d \in LinkData
  /\ wr \in WritePath
  /\ keepalive \in 0 .. KeepaliveMax
  /\ timeout \in Nat
  /\ bs \in Saver
  /\ ctl \in Control
  /\ tun \in Tuning
  /\ flash \in Flash
  /\ want \in Control

\* While Inverter::_cmdCacheValid is set the inverter holds the cached range,
\* so a write that sendPassiveRange suppresses was really unnecessary, whatever
\* writes failed, were executed without an acknowledgement or were lost to a
\* reset before.
CacheCoherent == Coherent(wr)

\* ModeController.h: "is the saver running" and "is the mode battery_saver"
\* cannot disagree, over commands from every surface, fallbacks and resets.
SaverMatchesMode == bs.active <=> ctl.mode = "battery_saver"

\* At every moment, and in particular after a reset at any point of a command,
\* the control state is that of the last completed command.  After a power cut
\* inside a commit it is that of the command being saved, with the default for
\* each field that was not written.
ResumesIntent == ctl = want

Settled == ctl.mode \in StaticModes \/ bs.strategy # "loop"

\* Inverter memory wear: with the passive timeout disabled, a static mode or
\* the native window costs one acknowledged write per change of mode, power
\* or tuning, however long it stays and however often the same command is
\* repeated.  (A failed write or a reset earns another.)
OneWritePerChange == keepalive = 0 /\ Settled => wr.wear <= 1

\* The software loop adds every grid sample to its target exactly once,
\* although update() runs on every poll step, a sample lasts several of them,
\* and a fallback from the native window re-uses the sample that caused it.
SamplesCountOnce ==
  bs.active /\ bs.strategy = "loop" /\ d.valid => bs.used = d.seq /\ bs.uses = 1

\* A saver that reports the native window has the inverter in exactly
\* [0, target] for the target it reports, through tuning and lost writes (or
\* a failed write that the next update repeats).
NativeWindowHeld ==
  bs.active /\ bs.strategy = "native" /\ wr.valid => wr.reg = <<0, bs.target>>
-----------------------------------------------------------------------------
LoopRuns == ctl.mode = "battery_saver" /\ bs'.strategy = "loop" /\ d'.valid

\* After a tick of the software loop that left the cache valid, what the
\* inverter does differs from the target by less than the hysteresis and is
\* zero exactly when the target is.
LoopTracksTarget ==
  [][LoopRuns /\ wr'.valid /\ bs'.lastSent # -1 /\ ControlTick
     => LET held == wr'.reg[1]
        IN  /\ wr'.reg = <<held, held>>
            /\ (held = 0) = (bs'.target = 0)
            /\ held - bs'.target \in -tun.minDelta + 1 .. tun.minDelta - 1]_vars

NativeRuns == ctl.mode = "battery_saver" /\ bs'.strategy = "native" /\ d'.valid

StaticRuns == ctl.mode \in StaticModes /\ ~d'.err

\* With a live link and a timeout in force, a static mode and the native window
\* are never left unrefreshed for a whole keep-alive after a control tick.
KeepaliveHolds ==
  [][(StaticRuns \/ NativeRuns) /\ keepalive # 0 /\ wr'.valid /\ ControlTick
     => wr'.age < keepalive]_vars

Lapsed == bs'.target = 0 /\ bs'.zeroTiming /\ bs'.zeroAge >= tun.idleLapse

\* In the software loop two layers keep time, each by its own reading of the
\* clock: the saver asks for a refresh after a keep-alive, and Inverter drops
\* the request if its own keep-alive has not passed.  The inverter's timeout,
\* of two keep-alives, must not run out between them.
LoopOutlivesTimeout ==
  [][LoopRuns /\ ~Lapsed /\ bs'.lastSent # -1 /\ keepalive # 0
     /\ wr'.valid /\ ControlTick
     => wr'.age < 2 * keepalive]_vars

\* The range that each mode stands for, as Mode.h and the README have it.
RangeOfMode ==
  CASE ctl.mode = "auto"          -> <<-ctl.auto, ctl.auto>>
    [] ctl.mode = "charge"        -> <<ctl.charge, ctl.charge>>
    [] ctl.mode = "standby"       -> <<0, 0>>
    [] ctl.mode = "battery_saver" -> <<0, PowerCap>>

\* Sample number 0 means "no sample yet"; only a boot goes back to it.
BC == INSTANCE BatteryControl
        WITH mode <- ctl.mode, range <- RangeOfMode, reg <- wr.reg,
             fresh <- d.seq = 0

\* Every step of the control stack is one the abstract controller allows: a
\* tick tells the inverter nothing but the range of the present mode, and in
\* battery_saver mode never to discharge; a command tells it the range of the
\* mode it asks for, the saver's being left to the next tick; nothing is told
\* before the inverter was read; and a restart, in the middle of a command or
\* of its save too, resumes the old mode or what the save left of the new one.
ImplementsContract == BC!Spec
-----------------------------------------------------------------------------
(***************************************************************************)
(* Fairness.  The scheduler runs the control task for ever.  The RS485     *)
(* link is not down for good: again and again it is up at a tick, and of   *)
(* the writes attempted for ever some are acknowledged.  Only the probe of *)
(* the native window may be refused for ever: some inverters do.           *)
(***************************************************************************)
LinkUpTick == ControlTick /\ ~d'.err

Probing == bs.active /\ bs.strategy = "probing"

AckedTick == LinkUpTick /\ ~Probing /\ wr'.valid

FairSpec ==
  Spec /\ WF_vars(ControlTick) /\ SF_vars(LinkUpTick) /\ SF_vars(AckedTick)

\* A static mode that is left alone reaches the inverter, however many writes
\* were lost or executed without an acknowledgement, and whatever resets
\* happen on the way.
StaticModeConverges ==
  \/ []<>(ctl.mode \in StaticModes => wr.reg = DesiredRange(ctl))
  \/ []<><<ctl' # ctl>>_ctl

\* The saver does not probe for ever, even if the inverter refuses the native
\* window every time (unless the device is restarted for ever).
ProbeResolves == []<>~Probing \/ []<>(d = LinkBoot)

InLoop == bs.active /\ bs.strategy = "loop"

\* Inverter.cpp, where a write has failed: "force retry on next reconcile/
\* update tick".  A software loop whose target stays at zero (at night, say)
\* gets the inverter to stop charging, whatever writes were lost.
NightStopsCharging ==
  <>[](InLoop /\ bs.target = 0) => []<>(wr.reg = <<0, 0>>)
=============================================================================
