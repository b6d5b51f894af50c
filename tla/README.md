# A formal model of sofarsolar-mqtt

TLA+ modules, TLC configurations and TLAPS proofs for the firmware in `src/`:
an ESP8266 that polls a Sofar HYD inverter over RS485, publishes what it reads
over MQTT and, in "passive mode", tells the inverter how much to charge or
discharge. The model covers first the part that can do harm when it is wrong,
the *control stack*: what is written to the inverter's passive-control register,
when, on whose demand, and what survives a failed write or a reset. Around it
stand the parts that have to keep an unattended device alive and honest: the
Modbus master, the MQTT session, the two supervisors that restart the device,
and the touch screen.

    tlc -workers 2 -config MCControl.cfg MCControl.tla     (one run)
    tlapm ControlStack_proofs.tla                          (one module's proofs)

All source paths below are relative to `src/src/` unless they say otherwise.

## 1. Inventory

The firmware is one cooperative loop (`main.cpp`): a TaskScheduler runs tasks to
completion, and the web server, MQTT callbacks and touch input are polled from
the same loop. There is no preemption except for the watchdog's timer interrupt.
Nothing interleaves *inside* a handler; what interleaves are handlers, time
between them, the answers of the inverter, and resets, which may cut a handler
short at any instruction.

| Component | State it keeps | Operations | Correct when |
|---|---|---|---|
| **Passive write cache** `inverter/Inverter.cpp`, `PassiveWriteCache.h` | last range sent, when, whether that is known to hold; keep-alive | `sendPassiveRange`, `setKeepaliveMs`, `readPassiveTimeout` | a suppressed write was unnecessary; memory is not worn out; the inverter's timeout never expires |
| **Polling** `Inverter::pollStep` | `InverterData`, poll step, slow-tier counter, `blockOk` | one register block per tick, a probe while in error | derived values are from one cycle; slow blocks are served; control sees only live data as valid |
| **Saver algorithm** `control/SaverAlgorithm.h` | none | accumulate, native-window verdict, send decision | clamps, boundary at 0 W, hysteresis |
| **Battery saver** `control/BatterySaver.cpp` | strategy, target, last sent, timers, streaks | `enable`, `disable`, `update`, setters | a sample counts once; the window is held; probing ends; never discharges |
| **Mode controller** `control/ModeController.cpp`, `Mode.h`, `Command.h` | mode, charge power, auto limit | `apply`, `setMode`, `tick`, `restore` | mode and saver agree; intent survives resets; a static mode reaches the inverter |
| **Configuration** `config/EEConfig.cpp` | EEPROM image | `load`, `save` | what is saved is what is loaded; an interrupted commit is survivable |
| **Scheduler and boot** `main.cpp` | task intervals | `setup`, tasks | order of restore, first poll and first write |
| **Modbus** `modbus/Modbus.cpp`, `RespCheck.h` | the line's last activity | `readHolding`, `writeMultiple`, `flush`, `listen` with a time budget | a success is one whole reply of the right kind and size, and, unless replies outlive the flush, of this request |
| **MQTT link** `network/MqttManager.cpp` | session, ping and echo sequence | connect, publish, ping, liveness check, forced reconnect | a dead or garbled session is noticed and replaced, a live one is left alone |
| **Health supervisor** `util/Health.h` | outage, last retry, streak of low heap | one sample a minute | restarts for an outage or an empty heap and for nothing else |
| **Loop watchdog** `util/LoopWatchdog.h`, `main.cpp` | beat, stage; a record in RTC memory | timer tick, report at boot | a hanging loop is reset in time, and the next boot says where it hung |
| **Log** `util/AppLog.*` | ring, repeat count | add, iterate | no line lost or invented |
| **Chunked writer** `util/ChunkedWriter.h` | buffer, failed flag | write, finish | what is written is a prefix; stop at the first short write |
| **Touch** `display/TouchInput.cpp`, `TouchGesture.h`, `TouchCal.h` | press, its times, wizard, calibration | `poll`, `calPoll`, `startCalibration` | one press, one meaning; a stored calibration is true |
| **Display** `display/Display.cpp` | tab, backlight, what is drawn | `pollTouch`, `handleDimming`, `wake`, `update` | a dark screen is woken, a wizard shows the crosshair it samples |
| **Web server** `web/SofarWebServer.cpp` | none | `/api/*` | same parser as MQTT |
| **Discovery, telemetry** `ha/`, `telemetry/` | none | format | wording only |

How they interact: a command from the LCD, the web page or MQTT goes through
`parseCommand` to `ModeController::apply`, which calls `setMode`; that switches
`BatterySaver`, calls `reconcile` (a write through `Inverter::sendPassiveRange`)
and then `persist` (`EEConfig::save`). Once a second a task calls
`Inverter::pollStep` and then `ModeController::tick`, which runs either
`BatterySaver::update` or `reconcile`, both of which read `Inverter`'s data and
error flag and write through the same cache. Once an hour a task re-reads the
inverter's passive timeout. `/api/tuning` changes the saver's parameters between
ticks. `setup` restores the mode before the first poll.

What is hard here: writes that fail, or are executed although their
acknowledgement is lost, against a cache that suppresses writes; resets between
a write and the save, or inside the commit; two layers (the saver and
`Inverter`) that time the same keep-alive with separate readings of the clock; a
sample that lasts several ticks while `update` accumulates; link outages that
leave timers running; sentinel values (-1, 0) that are also legal values;
counters at their wrap. On the lines: replies that carry neither the register
nor the request they answer, sockets that look open while the session is dead,
packets cut in half. In the loop: every blocking call delays everything else,
the watchdog and the health task judge a loop they are themselves part of (or
interrupt), and a finger on the glass meets dimming, slow passes and a wizard
the web page can start. `PROJECT.json` lists each with its line under "hazards".

## 2. Modules

    SaverAlgorithm   PassiveWriteCache   InverterLink <~~ refines ~~ InverterPoll
            \              /                  |                          |
             BatterySaver ------------- ControlStack                  MCPoll
                                              |
    BatteryControl <~~ refines ~~ ControlProperties --- ControlStack_proofs
                                              |                  |
                                          MCControl     ControlRefinement_proofs
                                                              |
                                                        LoopTimeout_proofs

    Modbus -- MCModbus    ChunkedWriter -- MqttLink    Supervisor
    TouchCal -- TouchScreen -- MCTouch

    M_proofs -- M,  for M = InverterPoll, Modbus, MqttLink, Supervisor, TouchScreen

`Modbus`, `MqttLink`, `Supervisor` and `TouchScreen` are separate on purpose: they share no state
with the control stack, which uses only what they establish. `Modbus` answers
for the transaction that `PassiveWriteCache` and `InverterLink` take as atomic;
commands that arrive over `MqttLink` are the `Apply` of `ControlStack`; every
restart of `Supervisor` is its `Reset`; a toggle of `TouchScreen` is an `Apply`.

**PassiveWriteCache** is the write side of `Inverter`. `WritePath` is the record
of the cache fields (`_cmdCacheValid`, `_lastSentMin/Max`, `_lastSentAt`) and of
the inverter's register. `SendPassiveRange` gives the set of results of one
call: suppressed, acknowledged, failed without effect, or failed although the
inverter executed it. The history field `wear` counts acknowledged writes nobody
asked for.

**SaverAlgorithm** has the decisions of `SaverAlgorithm.h` one by one.

**BatterySaver** is the class. `update()` is an operator that yields the set of
its possible results because one call may send two commands (a window
re-asserted and then abandoned, `BatterySaver.cpp:81-121`); `UpdateProbing`,
`UpdateNative` and `UpdateLoop` are its three sections, and the fall through from
one to the next is explicit. `used` and `uses` are history, for
`SamplesCountOnce`.

**InverterLink** is what polling promises to control: the error flag, `valid`,
`sampleSeq`, grid, battery and SOC, and how one `pollStep` may change them.
**InverterPoll** is `pollStep` itself, with block sequence, slow tier,
recovery and `blockOk`, and is shown to implement `InverterLink` (property
`ImplementsLink`). This lets the control stack be checked with six fields
instead of the whole state machine.

**ControlStack** composes them. Its actions:

| Action | Code |
|---|---|
| `ControlTick` | the 1 s task, `main.cpp:136-141`: `pollStep`, then `tick` |
| `Apply(cmd)` | `ModeController::apply` with `setMode`: saver, reconcile, persist |
| `Tune(t)` | `/api/tuning`: setters with their clamps, then save |
| `ReadPassiveTimeout` | the hourly task, `main.cpp:160-165` |
| `Reset` | restart or power cut, at rest or between reconcile and persist of any command; then `setup()` |
| `ResetInCommit` | power cut inside `EEPROM.commit`, of a command, a tuning or any other field: what was written of the image is kept, the rest is erased |
| `Advance`, `PanelSetsTimeout` | the environment: time, and a person at the inverter |

`want` is history: the control state of the last command that completed, or what
a cut commit should leave of the one being saved (`Left`: the fields it reached,
and the defaults from there; `Restored` of the cut image has to agree).

**BatteryControl** is the abstract specification: a mode with a range, a register,
and whether the inverter has been read since the start (`fresh`, which the
implementation maps to "no sample counted"). A `Command` may tell the inverter the
range it asks for (`Told`: not before the inverter was read, and not for the saver,
which waits for the next tick); `Control`, which includes every tick, may tell it only
what lies in the envelope of the *present* mode, and in `battery_saver` mode that
never discharges; only a `Restart`, which makes the device fresh again, may find the
register as an interrupted command left it, and resumes the old mode or what the
save of the new one left (`Remnants`). It knows nothing of caches, polls or
strategies. The range of a mode is stated a second time, in `RangeOfMode`, and not
taken from the `DesiredRange` of the model. **ControlProperties** states what is
asked of the control stack, including `ImplementsContract`, the refinement.
The modules named `_proofs` have the theorems (section 4). **MCControl** and **MCPoll** give the
constants their values for TLC. An operator introduced by "Mutant:" is a
plausible mistake kept beside the definition it would replace; nothing uses it.

**Modbus** is the RTU master byte by byte. `Send` flushes what has arrived and
sends; `ReadByte` and `ReadForeignByte` are turns of `listen()`, each with a wait
within its limit; `StopListening` is its silence or its spent budget. A reply is
a record of the fields `listen()` looks at, and `of` remembers which reply, if
one, the collected bytes are. `clean` and `executed` are history.

**ChunkedWriter** is the batching writer, as operators on its state; its sink may
take less than it is given. **MqttLink** uses it: `Retry`, `CheckLiveness`,
`BeginPublish`, `Serialize`, `EndPublish` are the handlers, in the order the loop
can reach them (a publish is not interrupted by them, but the socket may die in
the middle of it); `Echo` is `onMessage`. The link is `"dead"` when
`connected()` still says yes. What a broker or proxy holds back of an earlier
session may arrive in the next (`strays`).

**Supervisor** has both supervisors, because each can hide the other's failure.
`Pass` is one turn of `loop()`, which may block in any stage, before or after the
health task; `Resume` is the return of the blocking call; `LoopWdTick` the timer
interrupt. The record in RTC memory survives all restarts but a power cut.
`idle`, `unseen` and `patience` are history: true times that do not wrap.

**TouchCal** is the arithmetic of the calibration. **TouchScreen** is
`TouchInput` with the part of `Display` that gives gestures a meaning. `Pass` is
the end of one pass of `loop()`: one of nine cases of `poll`/`calPoll`, then
`handleDimming`. `Draw` is the display task, `WebStart` the endpoint, `Reboot` a
reset, `RebootInCommit` a power cut inside a commit, which may leave the flag of the
calibration and erase its last numbers. `used` is history: what a press has been taken for; `aim` whether the
wizard's taps were aimed. `Tested` is `touchGestureStep`, the copy of the
gesture logic the native tests run; no firmware code calls it.

### Abstractions

- *Time* is counted in half-units of the passive-timeout register: a timeout of
  T lasts 2T clock units and the keep-alive is T. A timestamp `t` is represented
  by its age `millis() - t`, saturating at `AgeCap`, which is no smaller than
  any interval it is compared with. So the wrap of `millis()` does not appear;
  the code subtracts unsigned, which is exact as long as an age stays below 49
  days.
- *Powers* are integers of any unit; in the TLC instances one is about 300 W.
- *A bus transaction is atomic* in the control stack: it succeeds, fails, or is
  executed without an acknowledgement. `PunctualRepliesAreOwn` says when
  `Modbus` grants that: when no reply of an earlier request was still on its way
  at the moment of sending. It is not granted otherwise (section 5).
- *Modbus*: of a frame the model keeps the address, the function code and the
  third byte; the checksum is what it detects, so bytes that are not one
  undamaged frame fail it. `flush()`'s wait for silence is a delay: it drops any
  prefix of the bytes in the air, so that the tail of a reply may be left
  (`Arriving`). Exception codes are a constant, `ExceptionCodes`, and assumed not to
  be 0: `listen()` returns the code, and its callers take 0 for success. The
  caller's buffer has the size asked for, as `Inverter::readBlock` passes it.
- *MQTT*: a document is five bytes in chunks of two; what a packet says is left
  out. A short write of one of the small packets, whose result the code only
  logs, makes the session dead.
- *Supervisor*: a unit of time is a period of the health task; the watchdog's
  timer fires once in it and may fire before or after a pass. A pass blocks in
  at most one stage. Whether the heap is low and WiFi is up are inputs.
- *Touch*: time counts in poll periods of 30 ms and a pass takes one or six of
  them. Places are the four corners the crosshairs span; a finger does not move
  during a press. Notices and texts of the wizard are left out, so is the ripple
  of the dimming within a period. The display task draws in one step.
- *The register is non-volatile*: it keeps the last executed command over a
  reset of the ESP. What the inverter does when its own timeout runs out is not
  modelled; the properties say it does not run out.
- *A reset* may come at any point of a command. Outside the commit only two points
  differ in what they leave: before or after the register was written. All others
  coincide with a reset at rest.
- *A power cut inside the commit* leaves an erased sector of which a prefix has been
  written, in the order of the offsets of `EELayout.h`: magic, the three tuning
  fields, mode, charge power, auto limit (`CutShort`), or of the touch calibration its
  first words (`Torn`). Numbers are whole (they lie on the words the flash is written
  in), a mode name that is cut off is no mode's name.
- `sampleSeq` is modulo `SeqMod` (2^32 in the code, 3 or 4 in the instances), so
  that its wrap is reached.
- `SaverOff` resets fields that `disable()` leaves alone; `enable()` sets each of
  them before `update()` reads it.

## 3. Runs

| Run | Config | What it shows |
|---|---|---|
| `control` | `MCControl.cfg` | Nine properties over every interleaving of ticks, failed and unacknowledged writes, all command kinds, two tunings, resets, and commits cut after any field; passive timeout disabled, the factory default |
| `keepalive` | `MCKeepalive.cfg` | Ages in full, with a timeout that may be set and cleared at the panel |
| `progress` | `MCControlLive.cfg` | Liveness under fairness |
| `poll` | `MCPoll.cfg` | The poll state machine with the divisor of the code, 6 |
| `modbus` | `MCModbus.cfg` | What a success of the Modbus master is worth on a bad line |
| `mqtt` | `MCMqtt.cfg` | The MQTT session over half-open sockets, short writes, old echoes and outages, with liveness |
| `supervisor` | `MCSupervisor.cfg` | Both supervisors over blocked loops, crashes, power cuts, outages and the wrap of the clock |
| `touch` | `MCTouch.cfg` | Gestures, dimming and the wizard |
| `night`, `charge_unwritten`, `slow_on_recovery`, `dark_wizard` | `MCNight.cfg`, `MCCharge.cfg`, `MCSlowPoll.cfg`, `MCTouchDark.cfg` | The findings of section 6; each is expected to fail |

Properties of `control`:

- `CacheCoherent`: while the cache is valid the register holds what it says.
- `SaverMatchesMode`: the saver runs iff the mode is `battery_saver`.
- `ResumesIntent`: the control state is that of the last completed command, in
  particular after a reset anywhere; after a cut commit it is that of the command
  being saved, up to the field that was reached.
- `OneWritePerChange`: without a timeout, a static mode or the native window
  costs one acknowledged write per change.
- `SamplesCountOnce`: the loop adds each grid sample once.
- `NativeWindowHeld`: while the saver reports the native window and the cache is
  valid, the register is `[0, target]`.
- `LoopTracksTarget`: after a tick of the loop that left the cache valid, the
  register differs from the target by less than the hysteresis, and is zero
  exactly when the target is.
- `ImplementsContract`: every step is one of `BatteryControl`.

`keepalive` has `KeepaliveHolds` (a static mode or window is refreshed within a
keep-alive) and `LoopOutlivesTimeout` (the loop within two, that is, within the
timeout). The loop's bound really is weaker than the others': the saver decides
by its clock reading and `Inverter` by a later one, so a refresh may be
dropped as early and reported as sent, and the next comes a keep-alive later.
(Both speak of the keep-alive in force; how far it lags the register is not
checked.) `MaxSlip = 1` lets a unit of time pass between the two readings. The instance
has one timeout in force besides "disabled", so the keep-alive never changes
from one non-zero value to another.

`progress` has `StaticModeConverges` (a static mode left alone reaches the
register) and `ProbeResolves` (probing ends, even if every probe is refused).

`poll` has `DerivesFromOneCycle` (self power is never computed from blocks of
different cycles), `SlowTierDue` (slow blocks are due at least every sixth
cycle), `SlowTierServed` (and are reached again and again while the link stays
up) and `ImplementsLink`.

`modbus` has `PayloadFits` (a read delivers exactly the bytes asked for),
`ListenBounded` (`listen()` ends within its budget and one more wait, whatever
other slaves send), `AcceptedIsGenuine` (a success is one whole undamaged reply of
the request's kind and size) and `PunctualRepliesAreOwn` (and this request's own,
if the line was empty when it was sent; a write was then carried out).

`mqtt` has `WriterFaithful` (a prefix, one stall at most, and success only for the
whole document), `NoTornSession` (nothing follows half a packet), `SilenceBounded`
and `DeadSessionDropped` (a session without echoes is given up after the
tolerance), `AlarmIsJustified` (and none else is, unless an echo of an earlier
session ran ahead of its pings) and `SessionComesBack` (while the inverter answers).

`supervisor` has `StallIsCaught` and `ResetsOnlyStalls` (the watchdog fires for a
loop that is away for the limit, never later and never sooner, across the wrap),
`StallReportedOnce` (the boot after it, and no other, says so, with the stage),
`RebootIsEarned` and `OutageIsActedOn` (the health task restarts only for an
outage seen by every sample or a heap low five times, and does act on an outage
without end although samples are missed while the loop is blocked).

`touch` has `OneMeaningPerPress` (a press that woke the screen, switched the tab
or started the wizard never also taps or samples), `CalibrationIsTrue` (a stored
mapping maps the corners of the crosshairs' rectangle to themselves, if the taps were
aimed, the first or the second of them was timely, and no commit was cut since; a dead
channel never yields one) and
`FirmwareMatchesTested` (the firmware's gestures are those of the function the
native tests run).

### Bounds, and why they are enough

- Powers: ceiling 2, hysteresis 2, grid -1 and 3: below, at and above both the
  hysteresis and the ceiling; two samples are enough to saturate in each
  direction. Tunings ask for a ceiling of 5 (clamped) and of 1 (lowers it below a
  target in use). One charge power (-2) and one auto limit (1, the default being 2),
  so that each mode has two ranges, one of them the default. `control` reads
  no battery block: a fallback needs none, as a battery that is not charging while power
  is exported counts as one (`progress` has the block). Before the first boot the register
  holds the default range or a discharging one (`MCLeftovers`).
- `FailStreak` is 2 in `control`, so that a streak can be broken; 1 where
  fallback is not the subject. It is 3 probes in every run, as in the code.
- Ages: where the timeout is disabled only "at once or lapsed" matters, hence
  `AgeCap = 1`; in `keepalive` there are five ages, a keep-alive of 2 and a lapse
  of 3, so all orders of the three occur.
- `BootAges`: `enable()` sets `_lastSentAt` to 0, whose age is that of the
  device: 0 or as old as anything.
- Liveness runs have one power and no tuning; the loop, the probe and all
  failures are still there.

- `modbus`: frames of at most 11 bytes with reads of 0, 1, 2 and 4 registers (0
  and 4 are refused, 1 and 2 differ in size) and writes that fit and do not; two
  replies in the air, so that a late one meets a punctual one; a first-byte wait
  longer than the one between bytes, and a budget of more than two of them that
  foreign bytes can exceed. The bytes 1 and 3 are the slave's address and a
  function code, the two values `listen()` can mistake foreign bytes for.
- `mqtt`: chunks of 2, documents of 5 (two full chunks and a tail); the tolerance
  of the code, 3; sequence numbers modulo 16 instead of 2^32, with at most three
  pings of a session that is well (the model stops counting there, not sending,
  once it is dead), so that a difference never reaches half the modulus, as it
  takes 2^31 pings in the code.
- `supervisor`: a stall of 2 units, retry 2, reboot 5, streak 2 and a clock that
  wraps at 14, so that stalls and outages straddle the wrap; one task besides
  the health task and one stage behind the tasks.
- `touch`: release 2, long hold 3, start of the wizard 6, dimming after 2, two
  levels of light, in the order the code's constants have; passes of 1 and 6
  periods, so that a slow pass may skip the release gap or both holds at once. Two
  overlays whose vertical span is the longer one, as it is where the condition of
  `CalibrationIsTrue` matters most; the arithmetic over all eight axis orders and both dead channels is
  compared in the assumption `TrueOnEveryOverlay` of `MCTouch`, and over all triples
  of readings of a 4 by 4 grid in `HitsItsOwnCrosshairs`.

No state constraint is used and `CHECK_DEADLOCK` is left on everywhere.

### Fairness

`FairSpec` assumes `WF(ControlTick)`: the scheduler calls the control task for
ever, which it does unless the loop hangs (and then the watchdog resets the
device, a `Reset`). `SF(LinkUpTick)`: the link is not down for good. RS485
outages end, at the latest in the morning, but the link may be down at most of
the ticks, hence strong fairness. `SF(AckedTick)`: of the writes attempted for
ever, some are acknowledged. Probes are excepted, because some inverters refuse
the native window for ever, and `ProbeResolves` must hold for those. Commands,
resets, time and tuning are not fair. `InverterPoll` has weak fairness of
`PollStep` only: a block may fail every time.

`MqttSpec`: weak fairness of `Serialize` and `EndPublish`, a handler in progress
goes on; strong fairness of `CheckLiveness`, which `loop()` reaches between any two
publishes; strong fairness of a `Retry` that succeeds, because the retry task runs
every half minute whenever it is allowed to and a broker that can be reached does
not refuse for ever. `SessionComesBack` assumes besides that WiFi is up while the
inverter answers, again and again. Publishing, echoes and losses are not fair.
`Modbus`, `Supervisor` and `TouchScreen` have safety properties only: that
`listen()` ends, that a stall is caught and that an outage is acted on are stated
as bounds.

## 4. Proofs

Every safety invariant, action property and refinement that a passing run checks
is proved for all values of the constants that the named assumptions allow; three
theorems need a hypothesis besides, which they name. `PROJECT.json` lists each
theorem with its property. All have the same form: an inductive invariant, one lemma per
action that preserves it, and the property from the invariant; what follows is
what each invariant adds to the properties, and why.

**ControlStack_proofs** (any powers, clamps, tunings, timeouts, grid readings,
streaks, ages and counter widths above 2):

| Theorem | States |
|---|---|
| `InvariantHolds` | `Spec => []IInv` |
| `TypeCorrect` | `Spec => []TypeOK` |
| `CacheNeverLies` | `Spec => []CacheCoherent` |
| `SaverFollowsMode` | `Spec => []SaverMatchesMode` |
| `SamplesOnce` | `Spec => []SamplesCountOnce` |
| `WindowHeld` | `Spec => []NativeWindowHeld` |
| `IntentSurvives` | `Spec => []ResumesIntent` if -1 is not among the charge powers |

`IInv` adds: that in the loop the last sample used is the last one seen, and was
used once if there was one (`LoopUse`: otherwise a step could add a sample that
was already in the target); that probing has an attempt left (`ProbeLeft`:
otherwise the counter leaves its range); that the link is never called valid
before a sample was counted (`Counting`: `FreshSample` rejects sequence number 0,
so the loop would be said to have used a sample it never added); and that the
EEPROM image is the save of the present control state (else a reset could restore
anything).

The argument goes bottom up. Lemmas give the type and effect of each small
update (`AckedTyped`, `SentTyped`, `CountedTyped`, ...). `SendTyped` says what a
write leaves whatever becomes of it. `UpdateLoopSound`, `NativeStepSound`,
`UpdateNativeSound` and `UpdateProbingSound` compose these along the control flow
of `BatterySaver::update` into `UpdateSound`. `BootIInv` shows that a boot
establishes the invariant from any EEPROM and register, which serves both
resets. Then there is one lemma per action, and `NextIInv` collects them.
`IntentSurvives` needs two conjuncts more: that the present intent is no -1, and
`RoundTrip`, that `Restored` undoes `Saved`; for a cut commit `CutRoundTrip`, that it
makes of the first n fields what `Left` says (`CutAtIs` for each commit that may be
under way). Its assumption is exactly what the run `charge_unwritten` shows to be
necessary.

**ControlRefinement_proofs** (the same constants):

| Theorem | States |
|---|---|
| `WritePathFits` | `Spec => []CInv` |
| `OneWriteSuffices` | `Spec => []OneWritePerChange` |
| `LoopFollowsTarget` | `Spec => LoopTracksTarget` |
| `RefreshesAreInTime` | `Spec => KeepaliveHolds` |
| `ContractHolds` | `Spec => ImplementsContract` if -1 is not among the charge powers |

`CInv` adds to `IInv` that the write path *fits*: it has not been worn since the
last change, or once and then by the very range that the mode, or the saver in its
strategy, asks for. Without the second half, a repetition of what was written
could not be told from a write nobody needs. `Effect` summarises what one call of
`update()` may have done, whichever of its three sections ran; the four
properties and the refinement use only that. `ContractHolds` maps a tick to `Control`,
a command to `Command`, both resets to `Restart`, and the rest to a stutter.
`RangeCases` and `Effect` give that a tick writes only from the present mode's
envelope. That nothing is told to an inverter that was not read rests on `Counting`:
a link that is not in error has counted a sample, so the device is fresh only while
`reconcile` returns early (`ToldDemand`). `UnderwayEffect`, `CommitEffect` and
`LeftDemand` say what an interrupted command told the inverter, and that what its
commit left is one of the `Remnants` of the same command.

**LoopTimeout_proofs** has `LoopIsInTime`, that is `LoopOutlivesTimeout`. Its
invariant `KInv` relates the two clocks (`Clocked`): the last write is less than a
keep-alive older than the loop's last send, because a send that `Inverter` dropped
as not due restarts the saver's clock but not that of the write; and a loop that
has not sent yet finds an open window in the cache, which no target can be taken
for. It holds under two hypotheses, neither of which can be dropped (TLC finds a
counterexample without either):

- `OneTimeout`: the inverter's timeout is disabled or always the same. If it is
  lowered from one value to another, the last write can already be older than the
  new timeout when the firmware learns of it, and the saver, which timed its own
  send, sees nothing due.
- `Charging`: the saver's ceiling is above 0. With a ceiling of 0 the native
  window is `[0, 0]`; a fallback to a loop at zero then sends what the cache
  holds already, and without a keep-alive that is dropped however old it is.
  When a timeout is set later, the saver believes it has just sent.

**InverterPoll_proofs** (any divisor of the slow tier, any readings):
`PollTypeCorrect`, `DerivedFromOneCycle`, `SlowTierNeverLate` and
`PollImplementsLink`, with the invariant `PollInvariant`. It adds that on a live
link a block that the present cycle has passed and that is marked as read was read
in this cycle (`Gathered`: the mark alone may be of an earlier cycle), and that
the count of fast cycles and `_slowTick` run together (`Counted`).

**Modbus_proofs** (any frame size, payload sizes, time limits and number of
replies in the air): `ModbusTypeCorrect`, `PayloadAlwaysFits`, `ListenAlwaysBounded`,
`AcceptedAlwaysGenuine`, `PunctualIsOwn`, with `ModbusInvariant`. It adds that the
function code and the size byte that have been collected are those of the reply
they are counted to (`Tracked`), that a frame in the air is never read beyond its
end (`Airborne`, also behind a flush that cut into it), that no reply on the line or
collected is an exception with code 0 (`Honest`), and that after a flush that left
nothing on its way all that arrives, and a reply already begun, answers the present
request (`AllItsOwn`).

**MqttLink_proofs** (any tolerance, chunk size, document length, number of pings,
and a modulus above twice the pings): `MqttTypeCorrect`, `WriterAlwaysFaithful`,
`TornSessionsAreDropped`, `SilenceAlwaysBounded`, `AlarmsAreJustified`, with
`MqttInvariant`. It adds that the writer's buffer continues what the sink has
(`Sound`), that a torn packet is that of the failed writer while a publish is in
progress and belongs to a closed session otherwise, and that as long as no old
echo ran ahead the echoes under way are newer than the last and in order
(`InOrder`): only then is the difference of the two counters the silence.

**Supervisor_proofs** (any limits, and any clock period longer than the reboot
limit and four stalls): `SupervisorTypeCorrect`, `StallAlwaysCaught`,
`OnlyStallsAreReset`, `StallAlwaysReported`, `RebootsAreEarned`,
`OutagesAreActedOn`, with `SupervisorInvariant`. The heart of it is that unsigned
differences of a wrapping clock are the true ages as long as these stay below
the period, which in turn holds because the watchdog bounds the pass and the
health task bounds the outage; so the bounds on true ages are part of the
invariant (`Beating`, `Watching`), along with what the record in RTC memory says
in each phase (`Recorded`, `Asleep`) and how old the last sample can be (`Lag`).

**TouchScreen_proofs** (any overlay - spans, axis order, directions, dead channel -
and any times with the hold for the tab no longer than the one for the wizard):
`TouchTypeCorrect`, `PressesMeanOneThing`, `CalibrationAlwaysTrue`,
`GesturesMatchTested`, with `TouchInvariant`. It adds what a press in progress may
have been taken for (`Meanings`: `_longFired` is up as soon as it meant anything,
and nothing else keeps the tap from being counted), and where the samples were
taken (`Sampled`: the glass shows the crosshair of this step or of an earlier one,
so each aimed sample is one of the three crosshairs). `BuildSeparates` shows that
two samples of one spot are never accepted, so three accepted ones are the three
crosshairs in some order; a timely first or second makes it the right order; and
`MapsTrue` shows that what is built from the right order is true at all four
corners of their rectangle, from the arithmetic of `touchCalBuild` and `touchCalApply` (`ScaledMeets`).
Both resets go through `RestartHolds`. The attempt to prove it with "one timely tap"
failed for a reason, see section 5.

Only model-checked:

- Liveness (`StaticModeConverges`, `ProbeResolves`, `SlowTierServed`,
  `DeadSessionDropped`, `SessionComesBack`): fairness is beyond the installed provers.
- The four expected violations, which are counterexamples.
- The assumptions `TrueOnEveryOverlay` and `HitsItsOwnCrosshairs` of `MCTouch`, which
  TLC evaluates; the first is an instance of `MapsTrue`.

## 5. Assumptions worth knowing

- Two statements are about ticks "that left the cache valid". After a failed
  write the cache is invalid and a static mode or the window retries on the next
  tick; the loop retries only if its send decision says so (section 6).
- `PanelSetsTimeout` may come at any time and the firmware learns of it within
  the hour or at boot. The keep-alive properties are about the keep-alive in
  force.
- An acknowledgement of a write names neither register nor values as far as
  `listen()` looks. If a reply is later than the timeout *and* than the flush of
  the next request, it can acknowledge the next write. The inverter would have to
  answer more than a first-byte timeout late, and between the flush and the reply
  to the next request. With a late acknowledgement `CacheCoherent` is not granted.
- While the inverter is in error the retry task does nothing, also after a forced
  reconnect (`main.cpp:147`): a session lost at night comes back in the morning.
- An echo of an earlier session that runs ahead of the present one is taken for an
  echo of it (`MqttManager.cpp:35`): it can hide silence until the counters have
  caught up, or force one reconnect.
- A commit of any field rewrites the sector. If power fails in it behind the first
  word of the touch calibration (`EEConfig.cpp:73`), the flag says "valid" and the
  numbers behind it read as erased: the device boots with a mapping nobody took, and
  a long hold, which needs no mapping, starts the wizard. `CalibrationIsTrue` speaks
  of calibrations that have not been cut.
- The health task sees WiFi once a minute; between two samples it may have been
  up. A low heap or an outage is restarted for, a blocked loop by the watchdog;
  `setup()` is supervised by neither. The crash record may be a timer period old.
- Minimum times of a tap are without effect while the loop is quick: a lifted
  finger counts as down for the release gap (250 ms), so every tap lasts longer
  than `TG_MIN_TAP_MS`, and every tap of the wizard gets more than two readings.
- A fade that is interrupted by a touch stays at its partial level, and the touch
  counts as a tap. The README's "Tap while dimmed" is taken to mean a dark screen.
- The display task redraws the wizard within a second. If all three taps are
  sooner than that and aimed at the crosshairs of the step before, the three
  samples can describe a mapping that is wrong and accepted. A timely first or
  second tap is enough to exclude it (`CalibrationIsTrue`); without that condition
  TLC finds it. A timely third tap is not enough: if the vertical span is the longer
  one, late taps on the second and the first crosshair and a timely one on the third
  are accepted, with the screen turned by a quarter.
- `Advance` may happen any number of times between ticks. For safety properties
  this over-approximates a loop delayed by blocking work.
- The real passive timeout cannot be shorter than 300 s (`Tuning.h:20`),
  against a tick of 1 s: ticks are frequent on its scale.

## 6. Findings

1. **A lost 0 W is not retried after the idle lapse** (`night`). `saverShouldSend`
   (`control/SaverAlgorithm.h:77`) refuses all writes once the target has been 0
   for the idle lapse, without asking whether the 0 was delivered. If the write
   fails and the link is down for longer than the lapse, the inverter goes on
   charging at its last command when the link is back. `Inverter.cpp:257` says
   of a failed write "force retry on next reconcile/update tick".
2. **A charge power of -1 W does not survive a reboot** (`charge_unwritten`): it is
   stored as the value that `EEConfig::load` takes for an erased field.
3. **The slow tier is not read on link recovery** (`slow_on_recovery`):
   `pollStep` sets `_slowCycle` on recovery and, as the recovered cycle begins at
   the grid block, overwrites it a few lines later. The slow blocks come in the
   sixth cycle after a recovery. `PassiveWriteCache.h:19` says they are read on
   link recovery.
4. **A dark calibration wizard cannot be woken** (`dark_wizard`). `TouchInput::poll`
   hands every contact to `calPoll` while the wizard is on (`TouchInput.cpp:37`), and
   that never reports a wake. A wizard left alone goes dark; one started from the
   web page on an idle device begins to fade at once, as `Display::wake` does not
   count as a touch. From then on touches are blind taps on crosshairs and the
   screen stays dark until the web page starts the wizard again, the device is
   reset, or three blind taps happen to be accepted as a panel: that ends the
   wizard, and the touch after it wakes the screen. `README.md:196` promises gestures that always work, `README.md:203` that
   a tap on a dimmed screen wakes it.

## 7. Not modelled, and the plan

Not modelled for good: the WiFi captive portal (a library; it does not block,
`WiFiSetup.cpp:33-36`: boot waits for a connection for at most 30 s and `loop()` runs
the portal from then on; what it saves is a commit like any other), drawing, discovery messages and JSON (formatting without state), firmware
upload, and the serial number.

Not modelled yet: `AppLog`, whose ring and repeat counter are sequential and
tested, and the fields of `EEConfig` that only carry names and the broker's
address (`/command` stores them and resets the device: a `Reset` at rest to the
control stack).

What is left of the proofs:

1. `HitsItsOwnCrosshairs` as a lemma: what `CalBuild` makes of any three accepted
   readings meets the crosshairs along the axis each fixes.
2. That `MapsTrue` extends from the corners to every point the panel can report,
   with the rounding of the integer division as the bound.
