----------------------------- MODULE TouchScreen -----------------------------
(* The touch panel and the backlight: TouchInput (debouncing, gestures, the  *)
(* three-crosshair calibration wizard), the part of Display that gives a     *)
(* gesture its meaning (pollTouch, wake, handleDimming, the wizard's         *)
(* screen), and the three things that interfere with a finger on the glass:  *)
(* the web page that starts the wizard, the display task that redraws late,  *)
(* and a reset.                                                              *)
(* Time counts in poll periods; a pass of loop() may take more than one, and *)
(* every elapsed time is kept only up to the limit it is compared with.      *)
EXTENDS Naturals, Sequences, TouchCal

CONSTANTS
    Release,        \* TG_RELEASE_MS: a shorter gap in the contact is a dip
    MinTap,         \* TG_MIN_TAP_MS
    Long,           \* TG_LONG_MS: hold to switch the tab
    CalHold,        \* TG_CAL_MS: hold to start the wizard
    Settle,         \* the wizard reads only after the contact settled
    DimAfter,       \* SCREEN_DIM_MS
    Full,           \* BL_FULL, in backlight levels
    Passes,         \* how many poll periods a pass of loop() may take
    Panels,         \* the touch overlays there are
    Strays          \* where a tap that is not aimed falls (corners)

VARIABLES
    panel,          \* the overlay of this device
    prev, gap, held, quiet,     \* TouchInput: _touchedPrev and the elapsed
                                \* times since contact, press, any touch
    longFired,      \* _longFired
    calStep, ignore, count, raws, cal,      \* the wizard and its result
    spot,           \* the finger of a press in the wizard: its raw reading,
                    \* and whether it was aimed at the crosshair on the glass
                    \* (aimed) and that was the one asked for (right)
    bright, screenOn, tab, calDrawn,        \* Display
    shown,          \* the crosshair on the glass, or Tabs
    stored,         \* the calibration in the EEPROM
    used,           \* history: what the last press has been taken for
    aim             \* history: all samples of this wizard aimed, one of the
                    \* first two right; both true of the stored one (kept)

touch   == <<prev, gap, held, quiet>>
wizard  == <<calStep, ignore, count, raws, cal>>
light   == <<bright, screenOn>>
vars    == <<panel, touch, longFired, wizard, spot, light, tab, calDrawn,
             shown, stored, used, aim>>

Done == 3
Tabs == 3               \* the tabs on the glass, no crosshair
Calibrating == calStep < Done
Corners == [x : {0, 1}, y : {0, 1}]
Target  == <<[x |-> 0, y |-> 0], [x |-> 1, y |-> 0], [x |-> 0, y |-> 1]>>

(* The overlay: its two ranges, its axis order and directions, and possibly  *)
(* a channel that reads the same everywhere.                                 *)
Raw(p, corner) ==
    LET u == p.spanX * (IF p.flipX THEN 1 - corner.x ELSE corner.x)
        v == p.spanY * (IF p.flipY THEN 1 - corner.y ELSE corner.y)
    IN  [x |-> IF p.dead = "x" THEN 0 ELSE IF p.swap THEN v ELSE u,
         y |-> IF p.dead = "y" THEN 0 ELSE IF p.swap THEN u ELSE v]

ASSUME TouchAssumption ==
    /\ {MinTap, Long, CalHold, Settle, DimAfter} \subseteq Nat /\ Long <= CalHold
    /\ Release \in Nat \ {0} /\ Full \in Nat \ {0}
    /\ Passes \subseteq Nat /\ Strays \subseteq Corners
    /\ Panels \subseteq [spanX : Nat, spanY : Nat, swap : BOOLEAN, flipX : BOOLEAN,
                         flipY : BOOLEAN, dead : {"none", "x", "y"}]

Readings == {Raw(p, corner) : p \in Panels, corner \in Corners}
OnScreen(corner) == [x |-> IF corner.x = 0 THEN LoX ELSE HiX,
                     y |-> IF corner.y = 0 THEN LoY ELSE HiY]

NoSpot == [at |-> [x |-> 0, y |-> 0], aimed |-> FALSE, right |-> FALSE]

UpTo(limit, t) == IF t < limit THEN t ELSE limit

-----------------------------------------------------------------------------
(* touchDebouncedDown. *)
Down(contact, dt) == contact \/ (prev /\ gap + dt < Release)

(* The clocks of TouchInput at this poll; pressed restarts that of the press *)
(* (without a press they are not read, and count as 0).                      *)
Clocks(contact, dt, pressed) ==
    /\ prev'  = Down(contact, dt)
    /\ gap'   = IF contact \/ ~prev' THEN 0 ELSE gap + dt
    /\ held'  = IF pressed \/ ~prev' THEN 0 ELSE UpTo(CalHold, held + dt)
    /\ quiet' = IF Down(contact, dt) THEN 0 ELSE UpTo(DimAfter + 1, quiet + dt)

(* Display::wake, called when the screen is off. *)
Woken == IF screenOn THEN bright ELSE Full

\* Mutant: reaching level 0 does not yet turn the screen off.
DimKeepsOn(b, on, dt) ==
    \/ /\ b = 0
       /\ bright' = 0 /\ screenOn' = FALSE
    \/ /\ b > 0
       /\ quiet' <= DimAfter \/ dt = 1
       /\ bright' = b /\ screenOn' = on
    \/ /\ b > 0
       /\ quiet' > DimAfter
       /\ bright' = b - 1
       /\ screenOn' = on

(* Display::handleDimming after the poll, starting from the level b: one     *)
(* level at most, and not again within 40 ms.                                *)
Dim(b, on, dt) ==
    \/ /\ b = 0
       /\ bright' = 0 /\ screenOn' = FALSE
    \/ /\ b > 0
       /\ quiet' <= DimAfter \/ dt = 1
       /\ bright' = b /\ screenOn' = on
    \/ /\ b > 0
       /\ quiet' > DimAfter
       /\ bright' = b - 1
       /\ screenOn' = (on /\ b - 1 > 0)

\* Mutant: only a wizard started while nothing is touched ignores a press.
PressToIgnoreInverted(touched) == ~touched

(* _calIgnorePress: the press that started the wizard is not its first tap.  *)
PressToIgnore(touched) == touched

(* TouchInput::startCalibration with what both its callers in Display do.    *)
(* The readings of an earlier wizard are overwritten before they are used.   *)
StartCalibration(touched) ==
    /\ calStep' = 0
    /\ cal' = NoCal
    /\ ignore' = PressToIgnore(touched)
    /\ raws' = <<>>
    /\ calDrawn' = FALSE
    /\ aim' = [aim EXCEPT !.all = TRUE, !.one = FALSE]

-----------------------------------------------------------------------------
(* TouchInput::poll outside the wizard, Display::pollTouch on its events.    *)

Press(contact, dt) ==
    /\ ~Calibrating /\ ~prev /\ Down(contact, dt)
    /\ Clocks(contact, dt, TRUE)
    /\ longFired' = ~screenOn           \* waking consumes the press
    /\ used' = IF screenOn THEN {} ELSE {"wake"}
    /\ Dim(Woken, TRUE, dt)
    /\ UNCHANGED <<panel, wizard, spot, tab, calDrawn, shown, stored,
                   aim>>

\* Mutant: the long hold fires one period late.
LongDueLate(h) == ~longFired /\ h > Long

(* The tab switches once per press, unless the press woke the screen. *)
LongDue(h) == ~longFired /\ h >= Long

Hold(contact, dt) ==
    LET h     == UpTo(CalHold, held + dt)
        long  == LongDue(h)
        start == h >= CalHold
    IN  /\ ~Calibrating /\ prev /\ Down(contact, dt)
        /\ Clocks(contact, dt, FALSE)
        /\ longFired' = (longFired \/ long)
        /\ used' = used \union (IF long THEN {"long"} ELSE {})
                        \union (IF start THEN {"start"} ELSE {})
        /\ IF start
           THEN /\ StartCalibration(TRUE)
                /\ UNCHANGED <<tab, count>>
                /\ Dim(Woken, TRUE, dt)
           ELSE /\ tab' = IF ~long THEN tab
                          ELSE IF tab = "flow" THEN "sys" ELSE "flow"
                /\ UNCHANGED <<wizard, calDrawn, aim>>
                /\ Dim(bright, screenOn, dt)
        /\ UNCHANGED <<panel, spot, shown, stored>>

(* Where a tap falls: calibrated, on the tab bar, on the saver button (FLOW  *)
(* tab only) or elsewhere; uncalibrated, the whole FLOW tab is the button.   *)
TapMeaning ==
    IF cal.valid
    THEN {[tab |-> t, toggle |-> FALSE] : t \in {"flow", "sys"}}
         \union {[tab |-> tab, toggle |-> on] : on \in {FALSE, tab = "flow"}}
    ELSE {[tab |-> tab, toggle |-> tab = "flow"]}

LiftOff(contact, dt) ==
    LET tap == ~longFired /\ held + dt >= MinTap
    IN  /\ ~Calibrating /\ prev /\ ~Down(contact, dt)
        /\ Clocks(contact, dt, FALSE)
        /\ \/ /\ tap
              /\ \E m \in TapMeaning :
                    /\ tab' = m.tab
                    /\ used' = used \union {"tap"}
                                    \union (IF m.toggle THEN {"toggle"} ELSE {})
           \/ /\ ~tap
              /\ UNCHANGED <<tab, used>>
        /\ Dim(bright, screenOn, dt)
        /\ UNCHANGED <<panel, longFired, wizard, spot, calDrawn, shown, stored,
                       aim>>

Untouched(contact, dt) ==
    /\ ~Calibrating /\ ~prev /\ ~Down(contact, dt)
    /\ Clocks(contact, dt, FALSE)
    /\ Dim(bright, screenOn, dt)
    /\ UNCHANGED <<panel, longFired, wizard, spot, tab, calDrawn, shown, stored,
                   used, aim>>

-----------------------------------------------------------------------------
(* TouchInput::calPoll: the wizard. *)

(* The finger that was down when the wizard started. *)
CalIgnore(contact, dt) ==
    /\ Calibrating /\ ignore
    /\ Clocks(contact, dt, FALSE)
    /\ ignore' = Down(contact, dt)
    /\ Dim(bright, screenOn, dt)
    /\ UNCHANGED <<panel, longFired, calStep, count, raws, cal, spot, tab,
                   calDrawn, shown, stored, used, aim>>

(* A new press: on the crosshair that is on the glass, if one can be seen,   *)
(* or anywhere.                                                              *)
CalPress(contact, dt) ==
    /\ Calibrating /\ ~ignore /\ ~prev /\ Down(contact, dt)
    /\ Clocks(contact, dt, TRUE)
    /\ count' = 0
    /\ \/ /\ screenOn /\ shown # Tabs
          /\ spot' = [at |-> Raw(panel, Target[shown + 1]), aimed |-> TRUE,
                      right |-> shown = calStep]
       \/ \E corner \in Strays :
             spot' = [NoSpot EXCEPT !.at = Raw(panel, corner)]
    /\ used' = {}
    /\ Dim(bright, screenOn, dt)
    /\ UNCHANGED <<panel, longFired, calStep, ignore, raws, cal, tab, calDrawn,
                   shown, stored, aim>>

CalHeld(contact, dt) ==
    /\ Calibrating /\ ~ignore /\ prev /\ Down(contact, dt)
    /\ Clocks(contact, dt, FALSE)
    /\ count' = IF held + dt >= Settle THEN UpTo(2, count + 1) ELSE count
    /\ Dim(bright, screenOn, dt)
    /\ UNCHANGED <<panel, longFired, calStep, ignore, raws, cal, spot, tab,
                   calDrawn, shown, stored, used, aim>>

\* Mutant: the second and the third reading change places.
BuiltSwapped(taken) == CalBuild(taken[1], taken[3], taken[2])

(* The mapping of the three samples. *)
Built(taken) == CalBuild(taken[1], taken[2], taken[3])

(* The finger lifts: the mean reading is this crosshair's sample, unless     *)
(* there were too few readings.  The third sample ends the wizard or, when   *)
(* the three describe no usable panel, starts it over.  (The history aim     *)
(* starts over with it.)                                                     *)
CalRelease(contact, dt) ==
    /\ Calibrating /\ ~ignore /\ prev /\ ~Down(contact, dt)
    /\ Clocks(contact, dt, FALSE)
    /\ \/ /\ count < 2
          /\ UNCHANGED <<calStep, raws, cal, calDrawn, stored, used, aim>>
       \/ /\ count >= 2
          /\ used' = used \union {"sample"}
          /\ LET taken == Append(raws, spot.at)
                 built == Built(taken)
                 all   == aim.all /\ spot.aimed
                 one   == aim.one \/ (spot.right /\ calStep < 2)
             IN \/ /\ calStep < 2
                   /\ calStep' = calStep + 1
                   /\ raws' = taken
                   /\ calDrawn' = FALSE
                   /\ aim' = [aim EXCEPT !.all = all, !.one = one]
                   /\ UNCHANGED <<cal, stored>>
                \/ /\ calStep = 2 /\ ~built.valid
                   /\ calStep' = 0
                   /\ raws' = <<>>
                   /\ calDrawn' = FALSE
                   /\ aim' = [aim EXCEPT !.all = TRUE, !.one = FALSE]
                   /\ UNCHANGED <<cal, stored>>
                \/ /\ calStep = 2 /\ built.valid
                   /\ calStep' = Done
                   /\ raws' = <<>>
                   /\ cal' = built
                   /\ stored' = built           \* onCalibrated
                   /\ aim' = [aim EXCEPT !.kept = all /\ one]
                   /\ UNCHANGED calDrawn
    /\ count' = 0 /\ spot' = NoSpot   \* the next press overwrites the sums
    /\ Dim(bright, screenOn, dt)
    /\ UNCHANGED <<panel, longFired, ignore, tab, shown>>

CalUntouched(contact, dt) ==
    /\ Calibrating /\ ~ignore /\ ~prev /\ ~Down(contact, dt)
    /\ Clocks(contact, dt, FALSE)
    /\ Dim(bright, screenOn, dt)
    /\ UNCHANGED <<panel, longFired, wizard, spot, tab, calDrawn, shown, stored,
                   used, aim>>

(* The end of one pass of loop(): pollTouch, then handleDimming. *)
Pass(contact, dt) ==
    \/ Press(contact, dt)
    \/ Hold(contact, dt)
    \/ LiftOff(contact, dt)
    \/ Untouched(contact, dt)
    \/ CalIgnore(contact, dt)
    \/ CalPress(contact, dt)
    \/ CalHeld(contact, dt)
    \/ CalRelease(contact, dt)
    \/ CalUntouched(contact, dt)

-----------------------------------------------------------------------------
(* POST /api/touch_cal: Display::startCalibration.  It wakes a dark screen   *)
(* without counting as a touch, so the dimming goes on from there.           *)
WebStart ==
    /\ StartCalibration(prev)
    /\ used' = IF prev THEN used \union {"start"} ELSE used
    /\ bright' = Woken
    /\ screenOn' = TRUE
    /\ UNCHANGED <<panel, touch, longFired, count, spot, tab, shown, stored>>

(* Display::update, run by the display task: nothing on a dark screen, the   *)
(* wizard's screen once per step, and otherwise the tabs.                    *)
Draw ==
    /\ screenOn
    /\ \/ /\ Calibrating /\ ~calDrawn
          /\ shown' = calStep
          /\ calDrawn' = TRUE
       \/ /\ ~Calibrating
          /\ shown' = Tabs
          /\ UNCHANGED calDrawn
    /\ UNCHANGED <<panel, touch, longFired, wizard, spot, light, tab, stored, used,
                   aim>>

(* setup() starts from the calibration it finds in the EEPROM and a lit      *)
(* screen.                                                                   *)
Restart(image) ==
    /\ prev' = FALSE /\ gap' = 0 /\ held' = 0 /\ quiet' = 0
    /\ longFired' = FALSE
    /\ calStep' = Done /\ ignore' = FALSE /\ count' = 0 /\ raws' = <<>>
    /\ cal' = image /\ stored' = image
    /\ spot' = NoSpot
    /\ bright' = Full /\ screenOn' = TRUE
    /\ tab' = "flow" /\ calDrawn' = FALSE /\ shown' = Tabs
    /\ used' = {}
    /\ UNCHANGED panel

(* A reset in any state. *)
Reboot ==
    /\ Restart(stored)
    /\ aim' = [aim EXCEPT !.all = TRUE, !.one = FALSE]

(* What a commit that ends after n of the calibration's words leaves: it     *)
(* erases the sector first and writes it in order.  Without the first word   *)
(* there is no flag; with it load() takes the calibration for valid and      *)
(* reads the words that are missing as -1.                                   *)
Erased == -1
Torn(image, n) ==
    IF n = 0 \/ ~image.valid THEN NoCal
    ELSE [valid |-> TRUE, swap |-> image.swap, xLo |-> image.xLo,
          xHi |-> IF n = 1 THEN Erased ELSE image.xHi,
          yLo |-> IF n = 1 THEN Erased ELSE image.yLo,
          yHi |-> Erased]

(* The power goes inside a commit, any of them: a change of the mode or of   *)
(* the tuning rewrites the calibration too.  (A cut inside the commit of     *)
(* CalRelease ends where one inside the next commit does.)                   *)
RebootInCommit ==
    \E n \in 0..2 :
        /\ Restart(Torn(stored, n))
        /\ aim' = [all |-> TRUE, one |-> FALSE, kept |-> FALSE]

Init ==
    /\ panel \in Panels
    /\ prev = FALSE /\ gap = 0 /\ held = 0 /\ quiet = 0
    /\ longFired = FALSE
    /\ calStep = Done /\ ignore = FALSE /\ count = 0 /\ raws = <<>>
    /\ cal = NoCal /\ stored = NoCal
    /\ spot = NoSpot
    /\ bright = Full /\ screenOn = TRUE
    /\ tab = "flow" /\ calDrawn = FALSE /\ shown = Tabs
    /\ used = {}
    /\ aim = [all |-> TRUE, one |-> FALSE, kept |-> FALSE]

Next ==
    \/ \E contact \in BOOLEAN, dt \in Passes : Pass(contact, dt)
    \/ WebStart
    \/ Draw
    \/ Reboot
    \/ RebootInCommit

Spec == Init /\ [][Next]_vars

-----------------------------------------------------------------------------
(* Properties. *)

(* Every variable holds a value the firmware's types and guards allow: the   *)
(* wizard has exactly one reading per crosshair passed, a dark screen is one *)
(* without backlight, and clocks stay under their limits.                    *)
TouchTypeOK ==
    /\ panel \in Panels
    /\ prev \in BOOLEAN /\ gap \in 0..Release-1
    /\ held \in 0..CalHold /\ quiet \in 0..DimAfter+1
    /\ longFired \in BOOLEAN
    /\ calStep \in 0..Done /\ ignore \in BOOLEAN /\ count \in 0..2
    /\ raws \in Seq(Readings) /\ Len(raws) = calStep % Done
    /\ spot \in [at : Readings, aimed : BOOLEAN, right : BOOLEAN]
    /\ cal.valid \in BOOLEAN /\ stored.valid \in BOOLEAN
    /\ bright \in 0..Full /\ screenOn = (bright > 0)
    /\ tab \in {"flow", "sys"} /\ calDrawn \in BOOLEAN
    /\ shown \in 0..Tabs
    /\ used \subseteq {"wake", "long", "start", "tap", "toggle", "sample"}
    /\ aim \in [all : BOOLEAN, one : BOOLEAN, kept : BOOLEAN]

(* One press means one thing.  The finger that woke the screen, switched the *)
(* tab or started the wizard (by its own hold, or while the web page did)    *)
(* never also taps, toggles the saver or counts as a crosshair's sample when *)
(* it lifts, whatever dips in the contact, slow passes and dimming happened  *)
(* in between.                                                               *)
OneMeaningPerPress ==
    /\ used \intersect {"tap", "sample"} # {} =>
          used \intersect {"wake", "long", "start"} = {}
    /\ ~({"tap", "sample"} \subseteq used)
    /\ ~({"wake", "long"} \subseteq used)

(* The calibration in use outside the wizard is the stored one, and it is    *)
(* true of this panel: every corner of the crosshairs' rectangle maps back   *)
(* to itself, if the user aimed every tap at the crosshair on the glass and  *)
(* the first or the second of them hit the right one (the display task had   *)
(* redrawn before it, as it has if the user waits a second), and no power    *)
(* cut fell inside a commit since.  A timely third tap is not enough: late   *)
(* taps on the second and first crosshair before it are accepted if the      *)
(* vertical span is the longer one.                                          *)
CalibrationIsTrue ==
    /\ ~Calibrating => cal = stored
    /\ stored.valid /\ aim.kept =>
          \A corner \in Corners :
              CalApply(stored, Raw(panel, corner)) = OnScreen(corner)

(* The gesture function the native tests exercise (touchGestureStep in       *)
(* TouchGesture.h), on this state and this contact.                          *)
Tested(contact, dt) ==
    IF Down(contact, dt)
    THEN IF ~prev THEN IF screenOn THEN "press" ELSE "wake"
         ELSE IF ~longFired /\ held + dt >= Long THEN "long"
         ELSE IF held + dt >= CalHold THEN "start"
         ELSE "none"
    ELSE IF prev /\ ~longFired /\ held + dt >= MinTap THEN "tap"
    ELSE "none"

(* What this poll added to the meaning of its press. *)
Reported(e) == e \in used' /\ (e \notin used \/ (~prev /\ prev'))

(* The firmware's own gesture code does what the tested function does: the   *)
(* same taps, wakes and long holds, and the wizard's start in the same poll  *)
(* or, after a pass so slow that both holds elapsed in it, together with the *)
(* long hold.                                                                *)
FirmwareMatchesTested ==
    [][\A contact \in BOOLEAN, dt \in Passes :
          ~Calibrating /\ Pass(contact, dt) =>
             /\ \A e \in {"wake", "long", "tap"} :
                   Reported(e) <=> Tested(contact, dt) = e
             /\ Tested(contact, dt) = "start" => Reported("start")
             /\ Reported("start") => Tested(contact, dt) \in {"long", "start"}]_vars

(* README.md:196-203, "Gestures always work, calibrated or not: [...] Tap    *)
(* while dimmed | Wake the backlight": a finger that comes down on a dark    *)
(* screen lights it.                                                         *)
TouchWakesDarkScreen ==
    [][~prev /\ prev' /\ ~screenOn => screenOn']_vars
=============================================================================
