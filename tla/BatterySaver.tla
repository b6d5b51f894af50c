---------------------------- MODULE BatterySaver ----------------------------
(***************************************************************************)
(* src/control/BatterySaver.cpp: export what would otherwise be sold into  *)
(* the battery.  update() is given as the set of its possible results,     *)
(* because one call may send two commands in sequence (a native window     *)
(* that is re-asserted and then abandoned), each acknowledged or not.      *)
(***************************************************************************)
EXTENDS PassiveWriteCache, SaverAlgorithm

CONSTANTS
  BootAges,  \* what millis() may read when a saver is enabled
  MaxSlip    \* clock units that may pass between update's millis() and that
             \* of sendPassiveRange: 1 when a unit may end between the two

ASSUME SaverAssumption ==
  /\ BootAges \subseteq Age /\ BootAges # {}
  /\ MaxSlip \in {0, 1}

ProbeLimit == 3

(***************************************************************************)
(* The fields of the class.  A timestamp that was set to 0 has the present *)
(* reading of millis() for its age; zeroAge is 0 while zeroTiming is off.  *)
(* used and uses are history: the last sample added to the target, and how *)
(* often it was (counted to 2).                                            *)
(***************************************************************************)
Saver ==
  [active: BOOLEAN, strategy: {"probing", "native", "loop"},
   target: Int, lastSent: Int, sentAge: Age, zeroTiming: BOOLEAN,
   zeroAge: Age, lastSeq: Nat, probes: 0 .. ProbeLimit, streak: 0 .. 255,
   used: Nat, uses: 0 .. 2]

\* As constructed, and after disable(): what the class still holds then is
\* dead, because enable() sets every field before update() reads it again.
SaverOff ==
  [active |-> FALSE, strategy |-> "probing", target |-> 0, lastSent |-> -1,
   sentAge |-> 0, zeroTiming |-> FALSE, zeroAge |-> 0, lastSeq |-> 0,
   probes |-> 0, streak |-> 0, used |-> 0, uses |-> 0]

Enabled(age) == [SaverOff EXCEPT !.active = TRUE, !.sentAge = age]

SaverLater(s, t) ==
  [s EXCEPT !.sentAge = Older(@, t),
            !.zeroAge = IF s.zeroTiming THEN Older(@, t) ELSE @]

\* Option A failed, at the probe or in use: start Option B from nothing.
LoopFallback(s) ==
  [s EXCEPT !.strategy = "loop", !.target = 0, !.lastSent = -1,
            !.lastSeq = 0, !.used = 0, !.uses = 0]

Result(s, w) == [s |-> s, w |-> w]
-----------------------------------------------------------------------------
\* Mutant: a sample is added again on every call it lasts.
IntegrateEveryCall(s, d, maxPower) ==
  [s EXCEPT !.target = AccumulateTarget(@, d.grid, maxPower),
            !.used = d.seq, !.uses = IF s.used = d.seq THEN 2 ELSE 1]

\* saverIntegrateSample
Integrate(s, d, maxPower) ==
  IF FreshSample(d.seq, s.lastSeq)
  THEN [s EXCEPT !.target = AccumulateTarget(@, d.grid, maxPower),
                 !.lastSeq = d.seq, !.used = d.seq,
                 !.uses = IF s.used = d.seq THEN 2 ELSE 1]
  ELSE s

TimeZero(s) ==
  [s EXCEPT !.zeroTiming = (s.target = 0),
            !.zeroAge = IF s.target = 0 /\ s.zeroTiming THEN @ ELSE 0]

\* sendPassiveCommand reads the clock again, slip units after update did.
SendTarget(s, w, slip, keepalive) ==
  {Result(IF r.ok THEN [SaverLater(s, slip) EXCEPT !.lastSent = s.target,
                                                   !.sentAge = slip]
                  ELSE SaverLater(s, slip), r.w) :
     r \in SendPassiveRange(Later(w, slip), s.target, s.target, keepalive)}

UpdateLoop(s, w, d, tun, keepalive) ==
  LET timed == TimeZero(Integrate(s, d, tun.maxPower))
  IN  IF ShouldSend(timed, tun, keepalive)
      THEN UNION {SendTarget(timed, w, slip, keepalive) : slip \in 0 .. MaxSlip}
      ELSE {Result(timed, w)}

\* saverNativeShouldFallback counts a streak once per sample.
CountStreak(s, d, tun) ==
  IF FreshSample(d.seq, s.lastSeq)
  THEN [s EXCEPT !.lastSeq = d.seq,
                 !.streak = NextStreak(@, NativeWindowViolated(
                                            d, tun.maxPower, tun.minDelta))]
  ELSE s

ShouldFallback(s, counted, d) ==
  FreshSample(d.seq, s.lastSeq) /\ counted.streak >= FailStreak

NativeStep(s, w, d, tun, keepalive) ==
  LET counted == CountStreak([s EXCEPT !.target = tun.maxPower], d, tun)
  IN  IF ShouldFallback(s, counted, d)
      THEN UpdateLoop(LoopFallback(counted), w, d, tun, keepalive)
      ELSE {Result(counted, w)}

\* Mutant: the window is not asserted again after the probe.
UpdateNativeOnce(s, w, d, tun, keepalive) == NativeStep(s, w, d, tun, keepalive)

UpdateNative(s, w, d, tun, keepalive) ==
  UNION {NativeStep(s, r.w, d, tun, keepalive) :
           r \in SendPassiveRange(w, 0, tun.maxPower, keepalive)}

\* Mutant: refusals are not counted.
ProbeForEver(s, r, d, tun, keepalive) ==
  {Result(IF r.ok THEN [s EXCEPT !.strategy = "native", !.target = tun.maxPower,
                                 !.lastSeq = d.seq, !.streak = 0]
          ELSE s, r.w)}

ProbeStep(s, r, d, tun, keepalive) ==
  LET failed == [s EXCEPT !.probes = @ + 1]
  IN  IF r.ok
      THEN {Result([s EXCEPT !.strategy = "native", !.target = tun.maxPower,
                             !.lastSeq = d.seq, !.streak = 0], r.w)}
      ELSE IF failed.probes < ProbeLimit
      THEN {Result(failed, r.w)}
      ELSE UpdateLoop(LoopFallback(failed), r.w, d, tun, keepalive)

UpdateProbing(s, w, d, tun, keepalive) ==
  UNION {ProbeStep(s, r, d, tun, keepalive) :
           r \in SendPassiveRange(w, 0, tun.maxPower, keepalive)}

\* update(): nothing without a live reading or while the saver is off.
Update(s, w, d, tun, keepalive) ==
  IF ~s.active \/ ~d.valid
  THEN {Result(s, w)}
  ELSE CASE s.strategy = "probing" -> UpdateProbing(s, w, d, tun, keepalive)
         [] s.strategy = "native"  -> UpdateNative(s, w, d, tun, keepalive)
         [] s.strategy = "loop"    -> UpdateLoop(s, w, d, tun, keepalive)
=============================================================================
