----------------------- MODULE ControlRefinement_proofs -----------------------
(***************************************************************************)
(* What the control stack does to the inverter, for every value of the     *)
(* constants: it writes once per change, its loop tracks the target, its   *)
(* refreshes are in time, and it implements BatteryControl.                *)
(***************************************************************************)
EXTENDS ControlStack_proofs

-----------------------------------------------------------------------------
(* The write path.                                                         *)

\* A write path that was worn at most once since the last change, and then by
\* the range it should hold.
Fits(w, lo, hi) == w.wear = 0 \/ (w.wear = 1 /\ w.valid /\ w.lo = lo /\ w.hi = hi)

\* An acknowledged write, field by field.
LEMMA AckedFields ==
  ASSUME NEW w \in WritePath, NEW lo \in Int, NEW hi \in Int, NEW k \in Nat
  PROVE  /\ Acked(w, lo, hi, k).age = 0
         /\ Acked(w, lo, hi, k).wear = IF k = 0 /\ w.wear < 2 THEN w.wear + 1 ELSE w.wear
  BY DEF Acked, WritePath

\* Whatever becomes of a write, the register holds the old range or the new one,
\* an acknowledged range is fresh, and no range is written twice for nothing.
LEMMA SendEffect ==
  ASSUME NEW w \in WritePath, Coherent(w), NEW lo \in Int, NEW hi \in Int, NEW k \in Nat,
         NEW r \in SendPassiveRange(w, lo, hi, k)
  PROVE  /\ r.w.reg \in {w.reg, <<lo, hi>>}
         /\ r.ok => r.w.valid /\ r.w.reg = <<lo, hi>> /\ (k # 0 => r.w.age < k)
         /\ ~r.ok => ~r.w.valid /\ r.w.wear = 0
         /\ Fits(w, lo, hi) => Fits(r.w, lo, hi)
<1>1. CASE ~PassiveWriteDue(w, lo, hi, k)
  <2>1. r = [ok |-> TRUE, w |-> w]
    BY <1>1 DEF SendPassiveRange
  <2>2. r.ok = TRUE /\ r.w = w
    BY <2>1
  <2>3. w.valid /\ w.lo = lo /\ w.hi = hi /\ ~(k # 0 /\ w.age >= k)
    BY <1>1 DEF PassiveWriteDue, WritePath
  <2>4. w.age \in Nat
    BY CacheAssumption DEF WritePath, Age
  <2>5. k # 0 => w.age < k
    BY <2>3, <2>4
  <2>6. QED
    BY <2>2, <2>3, <2>5 DEF Coherent
<1>2. CASE PassiveWriteDue(w, lo, hi, k) /\ r = [ok |-> TRUE, w |-> Acked(w, lo, hi, k)]
  <2> DEFINE v == Acked(w, lo, hi, k)
  <2>1. v.valid /\ v.reg = <<lo, hi>> /\ v.lo = lo /\ v.hi = hi /\ v.age = 0
    BY AckedTyped, AckedFields
  <2>2. v.wear = IF k = 0 /\ w.wear < 2 THEN w.wear + 1 ELSE w.wear
    BY AckedFields
  <2>3. r.ok = TRUE /\ r.w = v
    BY <1>2
  <2>4. k = 0 => ~w.valid \/ lo # w.lo \/ hi # w.hi
    BY <1>2 DEF PassiveWriteDue
  <2> HIDE DEF v
  <2>5. Fits(w, lo, hi) => Fits(v, lo, hi)
    BY <2>1, <2>2, <2>4 DEF Fits
  <2>6. k # 0 => v.age < k
    BY <2>1
  <2>7. QED
    BY <2>1, <2>3, <2>5, <2>6
<1>3. CASE \E reg \in {w.reg, <<lo, hi>>} : r = [ok |-> FALSE, w |-> Failed(w, reg)]
  <2>1. PICK reg \in {w.reg, <<lo, hi>>} : r = [ok |-> FALSE, w |-> Failed(w, reg)]
    BY <1>3
  <2>2. r.ok = FALSE /\ r.w = Failed(w, reg)
    BY <2>1
  <2>3. Failed(w, reg).valid = FALSE /\ Failed(w, reg).wear = 0 /\ Failed(w, reg).reg = reg
    BY DEF Failed, WritePath
  <2>4. QED
    BY <2>1, <2>2, <2>3 DEF Fits
<1>4. QED
  BY <1>1, <1>2, <1>3 DEF SendPassiveRange

-----------------------------------------------------------------------------
(* The software loop.                                                      *)

\* With the cache valid, the loop knows what the inverter does, and has stopped
\* it before it starts to time an idle target.
Told(s, w) ==
  s.strategy = "loop" /\ w.valid /\ s.lastSent # -1 =>
    /\ w.reg = <<s.lastSent, s.lastSent>>
    /\ s.zeroTiming => s.lastSent = 0

\* What the loop was told to hold is near its target.
Tracks(s, w, t) ==
  w.valid /\ s.lastSent # -1 =>
    /\ (s.lastSent = 0) = (s.target = 0)
    /\ s.lastSent - s.target \in -t.minDelta + 1 .. t.minDelta - 1

\* A saver that aims at a charging power the inverter has.
Aims(s) == s.target \in 0 .. PowerCap

\* Integrating a sample and timing an idle target, field by field.
LEMMA TimedFields ==
  ASSUME NEW s \in Saver, Aims(s), NEW e, Live(e), NEW m \in 0 .. PowerCap,
         NEW t, t = TimeZero(Integrate(s, e, m))
  PROVE  /\ Aims(t) /\ t.lastSent = s.lastSent
         /\ t.zeroTiming <=> t.target = 0
         /\ t.zeroTiming /\ ~s.zeroTiming => t.zeroAge = 0
<1> DEFINE i == Integrate(s, e, m)
           x == AccumulateTarget(s.target, e.grid, m)
<1>1. x \in 0 .. m /\ 0 .. m \subseteq 0 .. PowerCap
  <2>1. s.target \in Int /\ e.grid \in Int /\ m \in Nat
    BY LiveTyped, ControlAssumption DEF Saver
  <2>2. x \in 0 .. m
    BY <2>1, AccumulateTyped
  <2>3. QED
    BY <2>1, <2>2, ControlAssumption
<1>2. /\ i.lastSent = s.lastSent /\ i.zeroTiming = s.zeroTiming
      /\ i.target \in {s.target, x}
      /\ DOMAIN i = DOMAIN s
  BY DEF Integrate, Saver
<1> HIDE DEF x, i
<1>3. /\ t.lastSent = i.lastSent /\ t.target = i.target
      /\ t.zeroTiming = (i.target = 0)
      /\ t.zeroAge = IF i.target = 0 /\ i.zeroTiming THEN i.zeroAge ELSE 0
  <2>1. DOMAIN i = {"active", "strategy", "target", "lastSent", "sentAge", "zeroTiming",
                    "zeroAge", "lastSeq", "probes", "streak", "used", "uses"}
    BY <1>2 DEF Saver
  <2>2. t = [i EXCEPT !.zeroTiming = (i.target = 0),
                      !.zeroAge = IF i.target = 0 /\ i.zeroTiming THEN i.zeroAge ELSE 0]
    BY DEF TimeZero, i
  <2>3. QED
    BY <2>1, <2>2, Zenon
<1>4. QED
  BY <1>1, <1>2, <1>3 DEF Aims

\* A send of the loop, field by field.
LEMMA SentFields ==
  ASSUME NEW s \in Saver, NEW slip, NEW ok
  PROVE  /\ SentTarget(s, slip, ok).target = s.target
         /\ SentTarget(s, slip, ok).zeroTiming = s.zeroTiming
         /\ ok => SentTarget(s, slip, ok).lastSent = s.target
         /\ ~ok => SentTarget(s, slip, ok).lastSent = s.lastSent
<1> DEFINE l == SaverLater(s, slip)
<1>1. /\ l.target = s.target /\ l.zeroTiming = s.zeroTiming /\ l.lastSent = s.lastSent
      /\ DOMAIN l = {"active", "strategy", "target", "lastSent", "sentAge", "zeroTiming",
                     "zeroAge", "lastSeq", "probes", "streak", "used", "uses"}
  BY DEF SaverLater, Saver
<1>2. SentTarget(s, slip, ok) =
        IF ok THEN [l EXCEPT !.lastSent = s.target, !.sentAge = slip] ELSE l
  BY DEF SentTarget
<1> HIDE DEF l
<1>3. CASE ok
  BY <1>1, <1>2, <1>3
<1>4. CASE ~ok
  BY <1>1, <1>2, <1>4
<1>5. QED
  BY <1>3, <1>4

\* The ranges the saver may leave in the inverter.
SaverRanges == {<<0, p>> : p \in 0 .. PowerCap} \cup {<<p, p>> : p \in 0 .. PowerCap}

LEMMA TuningFields ==
  ASSUME NEW t \in Tuning
  PROVE  /\ t.maxPower \in 0 .. PowerCap /\ t.maxPower \in Nat /\ PowerCap \in Nat
         /\ t.minDelta \in Nat /\ t.minDelta > 0 /\ t.idleLapse \in Nat /\ t.idleLapse > 0
  BY ControlAssumption DEF Tuning

\* A loop that has nothing to send is near its target: it sent when the target
\* crossed zero, before it could time the lapse.
LEMMA QuietLoopTracks ==
  ASSUME NEW s \in Saver, NEW w, s.strategy = "loop", Told(s, w),
         NEW c \in Saver, Aims(c), c.lastSent = s.lastSent, c.zeroTiming <=> c.target = 0,
         c.zeroTiming /\ ~s.zeroTiming => c.zeroAge = 0,
         NEW t \in Tuning, NEW k \in Nat, ~ShouldSend(c, t, k)
  PROVE  Tracks(c, w, t) /\ Told(c, w)
<1> SUFFICES ASSUME w.valid, c.lastSent # -1
             PROVE  /\ (c.lastSent = 0) = (c.target = 0)
                    /\ c.lastSent - c.target \in -t.minDelta + 1 .. t.minDelta - 1
                    /\ w.reg = <<c.lastSent, c.lastSent>>
                    /\ c.zeroTiming => c.lastSent = 0
  BY DEF Tracks, Told
<1>1. w.reg = <<c.lastSent, c.lastSent>> /\ (s.zeroTiming => c.lastSent = 0)
  BY DEF Told
<1>2. /\ c.target \in Int /\ c.lastSent \in Int /\ c.zeroAge \in Nat
      /\ c.zeroTiming \in BOOLEAN
  BY CacheAssumption DEF Saver, Age
<1>3. t.minDelta \in Nat /\ t.minDelta > 0 /\ t.idleLapse \in Nat /\ t.idleLapse > 0
  BY TuningFields
<1>4. CASE c.target = 0 /\ c.zeroTiming /\ c.zeroAge >= t.idleLapse
  <2>1. c.zeroAge # 0
    BY <1>2, <1>3, <1>4
  <2>2. c.lastSent = 0
    BY <1>1, <1>4, <2>1
  <2>3. c.lastSent - c.target \in -t.minDelta + 1 .. t.minDelta - 1
    BY <1>3, <1>4, <2>2
  <2>4. QED
    BY <1>1, <1>4, <2>2, <2>3
<1>5. CASE ~(c.target = 0 /\ c.zeroTiming /\ c.zeroAge >= t.idleLapse)
  <2> DEFINE delta == c.target - c.lastSent
  <2>1. ~(delta >= t.minDelta) /\ ~(delta <= -t.minDelta)
    BY <1>5 DEF ShouldSend
  <2>2. (c.target = 0) = (c.lastSent = 0)
    BY <1>5 DEF ShouldSend
  <2>3. c.lastSent - c.target \in -t.minDelta + 1 .. t.minDelta - 1
    BY <1>2, <1>3, <2>1
  <2>4. QED
    BY <1>1, <2>2, <2>3
<1>6. QED
  BY <1>4, <1>5

\* What the loop's half of update() does to the inverter.
LEMMA UpdateLoopEffect ==
  ASSUME NEW s, NEW w, Sound(s, w), s.strategy = "loop", Aims(s), Told(s, w),
         NEW e, Live(e), NEW t \in Tuning, NEW k \in Nat,
         NEW r \in UpdateLoop(s, w, e, t, k)
  PROVE  /\ Aims(r.s) /\ Told(r.s, r.w) /\ Tracks(r.s, r.w, t)
         /\ r.w.reg \in {w.reg} \cup SaverRanges
<1> DEFINE c == TimeZero(Integrate(s, e, t.maxPower))
<1>1. t.maxPower \in Nat /\ t.maxPower \in 0 .. PowerCap /\ t.minDelta \in Nat /\ t.minDelta > 0
  BY TuningFields
<1>2. /\ c \in Saver /\ Aims(c) /\ c.lastSent = s.lastSent
      /\ c.zeroTiming <=> c.target = 0
      /\ c.zeroTiming /\ ~s.zeroTiming => c.zeroAge = 0
  BY <1>1, IntegrateTyped, TimeZeroTyped, TimedFields DEF Sound
<1>3. /\ ShouldSend(c, t, k) =>
           \E slip \in 0 .. MaxSlip : r \in SendTarget(c, w, slip, k)
      /\ ~ShouldSend(c, t, k) => r = Result(c, w)
  BY DEF UpdateLoop
<1> HIDE DEF c
<1>4. CASE ~ShouldSend(c, t, k)
  <2>1. Tracks(c, w, t) /\ Told(c, w)
    BY <1>2, <1>4, QuietLoopTracks DEF Sound
  <2>2. r.s = c /\ r.w = w
    BY <1>3, <1>4 DEF Result
  <2>3. QED
    BY <1>2, <2>1, <2>2
<1>5. CASE ShouldSend(c, t, k)
  <2>1. PICK slip \in 0 .. MaxSlip : r \in SendTarget(c, w, slip, k)
    BY <1>3, <1>5
  <2>2. PICK q \in SendPassiveRange(Later(w, slip), c.target, c.target, k) :
           r = Result(SentTarget(c, slip, q.ok), q.w)
    BY <2>1 DEF SendTarget, SentTarget
  <2>3. Later(w, slip) \in WritePath /\ Coherent(Later(w, slip)) /\ Later(w, slip).reg = w.reg
    BY SaverAssumption, LaterTyped DEF Sound, Later, WritePath
  <2>4. c.target \in Int
    BY <1>2 DEF Saver
  <2>5. /\ q.w.reg \in {w.reg, <<c.target, c.target>>}
        /\ q.ok => q.w.valid /\ q.w.reg = <<c.target, c.target>>
        /\ ~q.ok => ~q.w.valid
    BY <2>3, <2>4, SendEffect
  <2> DEFINE z == SentTarget(c, slip, q.ok)
  <2>6. /\ z.target = c.target /\ z.zeroTiming = c.zeroTiming
        /\ q.ok => z.lastSent = c.target
    BY <1>2, SentFields
  <2>7. r.s = z /\ r.w = q.w
    BY <2>2 DEF Result
  <2> HIDE DEF z
  <2>8. <<c.target, c.target>> \in SaverRanges
    BY <1>2 DEF Aims, SaverRanges
  <2>9. c.target - c.target \in -t.minDelta + 1 .. t.minDelta - 1
    BY <1>1, <2>4
  <2>10. Told(z, q.w)
    BY <1>2, <2>5, <2>6 DEF Told
  <2>11. Tracks(z, q.w, t)
    <3>1. CASE q.ok
      BY <2>6, <2>9, <3>1 DEF Tracks
    <3>2. CASE ~q.ok
      BY <2>5, <3>2 DEF Tracks
    <3>3. QED
      BY <3>1, <3>2
  <2>12. Aims(z)
    BY <1>2, <2>6 DEF Aims
  <2>13. QED
    BY <2>5, <2>7, <2>8, <2>10, <2>11, <2>12
<1>6. QED
  BY <1>4, <1>5

-----------------------------------------------------------------------------
(* The saver as a whole.                                                   *)

\* The saver wears the inverter's memory once for a native window, and not at
\* all while it probes for one.
Sparing(s, w, t) ==
  /\ s.strategy = "native" => Fits(w, 0, t.maxPower)
  /\ s.strategy = "probing" => w.wear = 0

\* What a saver and a write path have in common between two updates.
Steady(s, w, t) == Aims(s) /\ Told(s, w) /\ Sparing(s, w, t)

\* What an update does to them.
Effect(r, w, t, k) ==
  /\ Steady(r.s, r.w, t)
  /\ r.w.reg \in {w.reg} \cup SaverRanges
  /\ r.s.strategy = "loop" => Tracks(r.s, r.w, t)
  /\ r.s.strategy = "native" /\ k # 0 /\ r.w.valid => r.w.age < k

\* The loop never leaves one of the other strategies.
LEMMA LoopEffect ==
  ASSUME NEW s, NEW w, Sound(s, w), s.strategy = "loop", Aims(s), Told(s, w),
         NEW e, Live(e), NEW t \in Tuning, NEW k \in Nat,
         NEW r \in UpdateLoop(s, w, e, t, k)
  PROVE  Effect(r, w, t, k)
<1>1. r.s.strategy = "loop"
  BY UpdateLoopSound
<1>2. /\ Aims(r.s) /\ Told(r.s, r.w) /\ Tracks(r.s, r.w, t)
      /\ r.w.reg \in {w.reg} \cup SaverRanges
  BY UpdateLoopEffect
<1>3. QED
  BY <1>1, <1>2 DEF Effect, Steady, Sparing

\* A loop that was just begun knows nothing and aims at zero.
LEMMA FallbackEffect ==
  ASSUME NEW s \in Saver, NEW w \in WritePath, Coherent(w),
         NEW e, Live(e), NEW t \in Tuning, NEW k \in Nat,
         NEW r \in UpdateLoop(LoopFallback(s), w, e, t, k)
  PROVE  Effect(r, w, t, k)
<1> DEFINE l == LoopFallback(s)
<1>1. /\ l \in Saver /\ l.strategy = "loop" /\ LoopUse(l)
  BY FallbackTyped
<1>2. l.target = 0 /\ l.lastSent = -1
  BY DEF LoopFallback, Saver
<1> HIDE DEF l
<1>3. Sound(l, w)
  BY <1>1 DEF Sound, ProbeLeft
<1>4. Aims(l) /\ Told(l, w)
  BY <1>2, ControlAssumption DEF Aims, Told
<1>5. r \in UpdateLoop(l, w, e, t, k)
  BY DEF l
<1>6. QED
  BY <1>1, <1>3, <1>4, <1>5, LoopEffect

\* The native window, asserted and watched.
LEMMA NativeStepEffect ==
  ASSUME NEW s \in Saver, s.strategy = "native",
         NEW e, Live(e), NEW t \in Tuning, NEW k \in Nat,
         NEW w \in WritePath, Coherent(w), Fits(w, 0, t.maxPower),
         k # 0 /\ w.valid => w.age < k,
         NEW r \in NativeStep(s, w, e, t, k)
  PROVE  Effect(r, w, t, k)
<1> DEFINE c == CountStreak([s EXCEPT !.target = t.maxPower], e, t)
<1>1. c \in Saver /\ c.strategy = "native" /\ c.target = t.maxPower
  BY CountStreakTyped
<1>2. r = Result(c, w) \/ r \in UpdateLoop(LoopFallback(c), w, e, t, k)
  BY DEF NativeStep
<1> HIDE DEF c
<1>3. CASE r = Result(c, w)
  <2>1. r.s = c /\ r.w = w
    BY <1>3 DEF Result
  <2>2. Aims(c)
    BY <1>1, TuningFields DEF Aims
  <2>3. QED
    BY <1>1, <2>1, <2>2 DEF Effect, Steady, Told, Sparing
<1>4. CASE r \in UpdateLoop(LoopFallback(c), w, e, t, k)
  BY <1>1, <1>4, FallbackEffect
<1>5. QED
  BY <1>2, <1>3, <1>4

\* The effect of a send carries over to what follows it.
LEMMA EffectAfterSend ==
  ASSUME NEW r, NEW w, NEW v, NEW t, NEW k, Effect(r, v, t, k),
         v.reg \in {w.reg} \cup SaverRanges
  PROVE  Effect(r, w, t, k)
  BY DEF Effect

\* The native half of update().
LEMMA UpdateNativeEffect ==
  ASSUME NEW s, NEW w, Sound(s, w), s.strategy = "native",
         NEW e, Live(e), NEW t \in Tuning, NEW k \in Nat, Fits(w, 0, t.maxPower),
         NEW r \in UpdateNative(s, w, e, t, k)
  PROVE  Effect(r, w, t, k)
<1>1. t.maxPower \in Int /\ 0 \in Int /\ <<0, t.maxPower>> \in SaverRanges
  BY TuningFields DEF SaverRanges
<1>2. PICK q \in SendPassiveRange(w, 0, t.maxPower, k) : r \in NativeStep(s, q.w, e, t, k)
  BY DEF UpdateNative
<1>3. w \in WritePath /\ Coherent(w) /\ s \in Saver
  BY DEF Sound
<1>4. q.w \in WritePath /\ Coherent(q.w)
  BY <1>1, <1>3, SendTyped
<1>5. /\ q.w.reg \in {w.reg, <<0, t.maxPower>>}
      /\ k # 0 /\ q.w.valid => q.w.age < k
      /\ Fits(q.w, 0, t.maxPower)
  BY <1>1, <1>3, SendEffect
<1>6. Effect(r, q.w, t, k)
  BY <1>2, <1>3, <1>4, <1>5, NativeStepEffect
<1>7. QED
  BY <1>1, <1>5, <1>6, EffectAfterSend

\* The probing half of update().
LEMMA UpdateProbingEffect ==
  ASSUME NEW s, NEW w, Sound(s, w), s.strategy = "probing", Aims(s), w.wear = 0,
         NEW e, Live(e), NEW t \in Tuning, NEW k \in Nat,
         NEW r \in UpdateProbing(s, w, e, t, k)
  PROVE  Effect(r, w, t, k)
<1>1. t.maxPower \in Int /\ 0 \in Int /\ <<0, t.maxPower>> \in SaverRanges
  BY TuningFields DEF SaverRanges
<1>2. PICK q \in SendPassiveRange(w, 0, t.maxPower, k) : r \in ProbeStep(s, q, e, t, k)
  BY DEF UpdateProbing
<1>3. w \in WritePath /\ Coherent(w) /\ s \in Saver
  BY DEF Sound
<1>4. q.w \in WritePath /\ Coherent(q.w)
  BY <1>1, <1>3, SendTyped
<1>5. /\ q.w.reg \in {w.reg, <<0, t.maxPower>>}
      /\ k # 0 /\ q.ok => q.w.age < k
      /\ ~q.ok => q.w.wear = 0
      /\ Fits(q.w, 0, t.maxPower)
  BY <1>1, <1>3, SendEffect DEF Fits
<1> DEFINE failed == [s EXCEPT !.probes = s.probes + 1]
<1>6. CASE q.ok
  <2> DEFINE a == AcceptedProbe(s, t.maxPower, e.seq)
  <2>1. r = Result(a, q.w)
    BY <1>2, <1>6 DEF ProbeStep, AcceptedProbe
  <2>2. a.strategy = "native" /\ a.target = t.maxPower
    BY <1>1, <1>3, LiveTyped, AcceptedTyped
  <2> HIDE DEF a
  <2>3. r.s = a /\ r.w = q.w
    BY <2>1 DEF Result
  <2>4. Aims(a)
    BY <2>2, TuningFields DEF Aims
  <2>5. QED
    BY <1>1, <1>5, <1>6, <2>2, <2>3, <2>4 DEF Effect, Steady, Told, Sparing
<1>7. CASE ~q.ok /\ failed.probes < ProbeLimit
  <2>1. r = Result(failed, q.w)
    BY <1>2, <1>7 DEF ProbeStep
  <2>2. failed.strategy = "probing" /\ failed.target = s.target
    BY <1>3
       DEF Saver
  <2> HIDE DEF failed
  <2>3. r.s = failed /\ r.w = q.w
    BY <2>1 DEF Result
  <2>4. Aims(failed)
    BY <2>2 DEF Aims
  <2>5. QED
    BY <1>1, <1>5, <1>7, <2>2, <2>3, <2>4 DEF Effect, Steady, Told, Sparing
<1>8. CASE ~q.ok /\ ~(failed.probes < ProbeLimit)
  <2>1. r \in UpdateLoop(LoopFallback(failed), q.w, e, t, k)
    BY <1>2, <1>8 DEF ProbeStep
  <2>2. failed \in Saver
    <3>1. s.probes + 1 \in 0 .. ProbeLimit
      BY DEF Sound, ProbeLeft, Saver, ProbeLimit
    <3>2. QED
      BY <1>3, <3>1, RefusedTyped
  <2> HIDE DEF failed
  <2>3. Effect(r, q.w, t, k)
    BY <1>4, <2>1, <2>2, FallbackEffect
  <2>4. QED
    BY <1>1, <1>5, <2>3, EffectAfterSend
<1>9. q.ok \in BOOLEAN
  BY <1>1, <1>3, SendTyped
<1>10. QED
  BY <1>6, <1>7, <1>8, <1>9

\* update() as a whole, with the saver on and a live reading.
LEMMA UpdateEffect ==
  ASSUME NEW s, NEW w, Sound(s, w), s.active, NEW t \in Tuning, Steady(s, w, t),
         NEW e, Live(e), e.valid, NEW k \in Nat,
         NEW r \in Update(s, w, e, t, k)
  PROVE  Effect(r, w, t, k)
<1>1. \/ s.strategy = "probing" /\ r \in UpdateProbing(s, w, e, t, k)
      \/ s.strategy = "native" /\ r \in UpdateNative(s, w, e, t, k)
      \/ s.strategy = "loop" /\ r \in UpdateLoop(s, w, e, t, k)
  BY DEF Update, Sound, Saver
<1>2. QED
  BY <1>1, UpdateProbingEffect, UpdateNativeEffect, LoopEffect DEF Steady, Sparing

-----------------------------------------------------------------------------
(* The inductive invariant: that of ControlStack_proofs, and that the write *)
(* path fits the mode and the saver, whatever has happened to both.        *)

CInv ==
  /\ IInv
  /\ ctl.charge \in -PowerCap .. PowerCap
  /\ ctl.mode \in StaticModes => Fits(wr, DesiredRange(ctl)[1], DesiredRange(ctl)[2])
  /\ bs.active => Steady(bs, wr, tun)

\* A change of mind, or of the tuning, earns a write; it changes nothing else.
LEMMA UnwornFields ==
  ASSUME NEW w \in WritePath
  PROVE  /\ Unworn(w).wear = 0 /\ Unworn(w).reg = w.reg /\ Unworn(w).valid = w.valid
         /\ \A lo, hi : Fits(Unworn(w), lo, hi)
  BY DEF Unworn, WritePath, Fits

LEMMA SteadyUnworn ==
  ASSUME NEW s, NEW w \in WritePath, NEW t, NEW u, Steady(s, w, t)
  PROVE  Steady(s, Unworn(w), u)
  BY UnwornFields DEF Steady, Told, Sparing

\* Time alone wears nothing and moves nothing.
LEMMA LaterFields ==
  ASSUME NEW w \in WritePath, NEW n
  PROVE  /\ Later(w, n).wear = w.wear /\ Later(w, n).reg = w.reg
         /\ Later(w, n).valid = w.valid /\ Later(w, n).lo = w.lo /\ Later(w, n).hi = w.hi
         /\ \A lo, hi : Fits(w, lo, hi) => Fits(Later(w, n), lo, hi)
<1>1. /\ Later(w, n).wear = w.wear /\ Later(w, n).reg = w.reg
      /\ Later(w, n).valid = w.valid /\ Later(w, n).lo = w.lo /\ Later(w, n).hi = w.hi
  BY DEF Later, WritePath
<1> DEFINE v == Later(w, n)
<1> HIDE DEF v
<1>2. \A lo, hi : Fits(w, lo, hi) => Fits(v, lo, hi)
  BY <1>1 DEF Fits, v
<1>3. QED
  BY <1>1, <1>2 DEF v

LEMMA SteadyLater ==
  ASSUME NEW s \in Saver, NEW w \in WritePath, NEW t, Steady(s, w, t)
  PROVE  Steady(SaverLater(s, 1), Later(w, 1), t)
<1>1. /\ SaverLater(s, 1).target = s.target /\ SaverLater(s, 1).lastSent = s.lastSent
      /\ SaverLater(s, 1).zeroTiming = s.zeroTiming
      /\ SaverLater(s, 1).strategy = s.strategy
  BY DEF SaverLater, Saver
<1> DEFINE l == SaverLater(s, 1)
<1> HIDE DEF l
<1>2. /\ l.target = s.target /\ l.lastSent = s.lastSent
      /\ l.zeroTiming = s.zeroTiming /\ l.strategy = s.strategy
  BY <1>1 DEF l
<1>3. Steady(l, Later(w, 1), t)
  BY <1>2, LaterFields DEF Steady, Aims, Told, Sparing
<1>4. QED
  BY <1>3 DEF l

\* A saver that was just enabled aims at zero and knows nothing.
LEMMA EnabledSteady ==
  ASSUME NEW age, NEW w, w.wear = 0, NEW t
  PROVE  Steady(Enabled(age), w, t) /\ Enabled(age).strategy = "probing"
<1>1. Enabled(age).target = 0 /\ Enabled(age).strategy = "probing"
  BY DEF Enabled, SaverOff
<1>2. QED
  BY <1>1, ControlAssumption DEF Steady, Aims, Told, Sparing

LEMMA DesiredPair ==
  ASSUME NEW c \in Control
  PROVE  /\ DesiredRange(c) = <<DesiredRange(c)[1], DesiredRange(c)[2]>>
         /\ DesiredRange(c)[1] \in Int /\ DesiredRange(c)[2] \in Int
  BY DesiredTyped DEF DesiredRange

\* What reconcile does to the inverter.
LEMMA ReconcileEffect ==
  ASSUME NEW c \in Control, NEW w \in WritePath, Coherent(w), NEW e, NEW k \in Nat,
         NEW v \in Reconcile(c, w, e, k)
  PROVE  /\ v.reg \in {w.reg} \cup (IF c.mode \in StaticModes THEN {DesiredRange(c)} ELSE {})
         /\ Fits(w, DesiredRange(c)[1], DesiredRange(c)[2])
              => Fits(v, DesiredRange(c)[1], DesiredRange(c)[2])
         /\ c.mode \in StaticModes /\ ~e.err /\ k # 0 /\ v.valid => v.age < k
<1>1. CASE e.err \/ c.mode \notin StaticModes
  <2>1. v = w
    BY <1>1 DEF Reconcile
  <2>2. QED
    BY <1>1, <2>1
<1>2. CASE ~(e.err \/ c.mode \notin StaticModes)
  <2> DEFINE lo == DesiredRange(c)[1]
             hi == DesiredRange(c)[2]
  <2>1. PICK q \in SendPassiveRange(w, lo, hi, k) : v = q.w
    BY <1>2 DEF Reconcile
  <2>2. lo \in Int /\ hi \in Int /\ DesiredRange(c) = <<lo, hi>>
    BY DesiredPair
  <2> HIDE DEF lo, hi
  <2>3. /\ q.w.reg \in {w.reg, <<lo, hi>>}
        /\ q.ok /\ k # 0 => q.w.age < k
        /\ ~q.ok => ~q.w.valid
        /\ Fits(w, lo, hi) => Fits(q.w, lo, hi)
    BY <2>2, SendEffect
  <2>4. QED
    BY <1>2, <2>1, <2>2, <2>3 DEF lo, hi
<1>3. QED
  BY <1>1, <1>2

\* Modes are static, or the battery saver's.
LEMMA ModeSplit == ASSUME NEW c \in Control
                   PROVE  c.mode \in StaticModes <=> c.mode # "battery_saver"
  BY DEF Control, Modes, StaticModes

\* A tick of the saver, seen from the inverter.
LEMMA SaverTickEffect ==
  ASSUME CInv, ControlTick, ctl.mode = "battery_saver"
  PROVE  \/ /\ d'.valid /\ wr'.reg \in {wr.reg} \cup SaverRanges
            /\ Steady(bs', wr', tun)
            /\ bs'.strategy = "loop" => Tracks(bs', wr', tun)
            /\ bs'.strategy = "native" /\ keepalive # 0 /\ wr'.valid => wr'.age < keepalive
         \/ ~d'.valid /\ wr' = wr /\ bs' = bs
<1>1. PICK r \in Update(bs, wr, d', tun, keepalive) : bs' = r.s /\ wr' = r.w
  BY DEF ControlTick
<1>2. /\ d \in LinkData /\ Counting(d) /\ Sound(bs, wr) /\ bs.active
      /\ tun \in Tuning /\ keepalive \in Nat
  BY Given DEF CInv
<1>3. CASE d'.valid
  <2>1. Live(d')
    BY <1>2, <1>3, PollTyped DEF ControlTick, Live, Counting
  <2>2. Effect(r, wr, tun, keepalive)
    BY <1>2, <1>3, <2>1, UpdateEffect DEF CInv
  <2>3. QED
    BY <1>1, <1>3, <2>2 DEF Effect
<1>4. CASE ~d'.valid
  BY <1>1, <1>4, UpdateIdle
<1>5. QED
  BY <1>3, <1>4

\* A boot, whatever is in the EEPROM.
LEMMA BootCInv ==
  ASSUME IInv', NEW f, NEW reg, Boot(f, reg), ctl'.charge \in -PowerCap .. PowerCap
  PROVE  CInv'
<1>1. wr'.wear = 0
  BY DEF Boot, ColdCache
<1>2. bs'.active => Steady(bs', wr', tun')
  <2>1. bs' = SaverOff \/ \E age \in BootAges : bs' = Enabled(age)
    BY Zenon DEF Boot, SwitchSaver
  <2>2. CASE bs' = SaverOff
    BY <2>2 DEF SaverOff
  <2>3. ASSUME NEW age \in BootAges, bs' = Enabled(age)
        PROVE  Steady(bs', wr', tun')
    BY <1>1, <2>3, EnabledSteady
  <2>4. QED
    BY <2>1, <2>2, <2>3
<1>3. QED
  BY <1>1, <1>2 DEF CInv, Fits

\* A charge power that was stored comes back, or is lost; it is never another,
\* not even if the commit was cut short.
LEMMA RestoredCharge ==
  /\ \A c, t : Restored(Saved(c, t)).charge \in {c.charge, 0}
  /\ \A c, t, n : Restored(CutShort(Saved(c, t), n)).charge \in {c.charge, 0}
  /\ \A f \in {Blank, Upgraded} : Restored(f).charge = 0
<1>1. ASSUME NEW c, NEW t PROVE Restored(Saved(c, t)).charge \in {c.charge, 0}
  <2>1. Saved(c, t).charge = c.charge /\ Saved(c, t).magic = TRUE
    BY Zenon DEF Saved
  <2>2. Restored(Saved(c, t)).charge = LoadField(c.charge, 0)
    BY <2>1, Zenon DEF Restored
  <2>3. QED
    BY <2>2 DEF LoadField
<1>2. Blank.charge = Unwritten /\ Upgraded.charge = Unwritten
  <2>1. Blank.charge = Unwritten
    BY Zenon DEF Blank
  <2>2. QED
    BY <2>1, Zenon DEF Upgraded, Blank
<1>3. \A f : f.charge = Unwritten => Restored(f).charge = 0
  BY Zenon DEF Restored, LoadField
<1>4. ASSUME NEW c, NEW t, NEW n
      PROVE  Restored(CutShort(Saved(c, t), n)).charge \in {c.charge, 0}
  <2>1. CutShort(Saved(c, t), n).charge \in {c.charge, Unwritten}
    <3>1. \A g : CutShort(g, n).charge = (IF n > 5 THEN g.charge ELSE Unwritten)
      BY Zenon DEF CutShort
    <3>2. Saved(c, t).charge = c.charge
      BY Zenon DEF Saved
    <3>3. QED
      BY <3>1, <3>2
  <2>2. \A f : Restored(f).charge \in {f.charge, 0}
    <3>1. \A f : f.magic => Restored(f).charge = LoadField(f.charge, 0)
      BY Zenon DEF Restored
    <3>2. \A f : ~f.magic => Restored(f).charge = 0
      BY Zenon DEF Restored
    <3>3. QED
      BY <3>1, <3>2, Zenon DEF LoadField
  <2>3. QED
    BY <1>3, <2>1, <2>2
<1>5. QED
  BY <1>1, <1>2, <1>3, <1>4

\* A first boot.
LEMMA InitCInv == Init => CInv
<1> SUFFICES ASSUME Init PROVE CInv
  OBVIOUS
<1>1. IInv
  BY InitIInv
<1>2. ctl.charge = 0 /\ wr.wear = 0 /\ ~bs.active
  BY RestoredCharge DEF Init, ColdCache, SaverOff
<1>3. 0 \in -PowerCap .. PowerCap
  BY ControlAssumption
<1>4. QED
  BY <1>1, <1>2, <1>3 DEF CInv, Fits

\* A command: its write is the first since the change it makes.
LEMMA ApplyCInv ==
  ASSUME CInv, NEW cmd \in Commands, Apply(cmd)
  PROVE  CInv'
<1>1. /\ IInv' /\ ctl \in Control /\ wr \in WritePath /\ Coherent(wr) /\ keepalive \in Nat
      /\ bs.active <=> ctl.mode = "battery_saver"
  BY ApplyIInv, Given DEF CInv
<1>2. /\ ctl' \in Control /\ ctl' = Asked(ctl, cmd) /\ bs' \in SwitchSaver(bs, ctl'.mode)
      /\ wr' \in Reconcile(ctl', Incoming(ctl'), d, keepalive) /\ tun' = tun
  BY <1>1, AskedTyped DEF Apply
<1>3. ctl'.charge \in -PowerCap .. PowerCap
  <2>1. ctl'.charge \in {ctl.charge} \cup Charges
    BY <1>1, <1>2, AskedTyped
  <2>2. Charges \subseteq -PowerCap .. PowerCap
    BY ControlAssumption
  <2>3. QED
    BY <2>1, <2>2 DEF CInv
<1>4. Incoming(ctl') \in WritePath /\ Coherent(Incoming(ctl'))
  BY <1>1, UnwornTyped DEF Incoming
<1>5. ctl'.mode \in StaticModes
        => Fits(Incoming(ctl'), DesiredRange(ctl')[1], DesiredRange(ctl')[2])
  <2>1. CASE ctl' = ctl
    <3>1. Incoming(ctl') = wr
      BY <2>1 DEF Incoming
    <3>2. QED
      BY <2>1, <3>1 DEF CInv
  <2>2. CASE ctl' # ctl
    BY <1>1, <2>2, UnwornFields DEF Incoming
  <2>3. QED
    BY <2>1, <2>2
<1>6. ctl'.mode \in StaticModes
        => Fits(wr', DesiredRange(ctl')[1], DesiredRange(ctl')[2])
  <2> DEFINE c == ctl'
             v == wr'
  <2>1. /\ c \in Control /\ v \in Reconcile(c, Incoming(c), d, keepalive)
        /\ Incoming(c) \in WritePath /\ Coherent(Incoming(c))
        /\ c.mode \in StaticModes
             => Fits(Incoming(c), DesiredRange(c)[1], DesiredRange(c)[2])
    BY <1>2, <1>4, <1>5
  <2> HIDE DEF c, v
  <2>2. c.mode \in StaticModes => Fits(v, DesiredRange(c)[1], DesiredRange(c)[2])
    BY <1>1, <2>1, ReconcileEffect
  <2>3. QED
    BY <2>2 DEF c, v
<1>7. bs'.active => Steady(bs', wr', tun')
  <2>1. CASE ctl'.mode # "battery_saver"
    <3>1. bs' = SaverOff
      BY <1>2, <2>1 DEF SwitchSaver
    <3>2. QED
      BY <3>1 DEF SaverOff
  <2>2. CASE ctl'.mode = "battery_saver"
    <3>1. wr' = Incoming(ctl')
      BY <1>2, <2>2 DEF Reconcile, StaticModes
    <3>2. CASE bs.active
      <4>1. bs' = bs /\ Steady(bs, wr, tun)
        BY <1>2, <2>2, <3>2 DEF SwitchSaver, CInv
      <4>2. QED
        BY <1>1, <1>2, <3>1, <4>1, SteadyUnworn DEF Incoming
    <3>3. CASE ~bs.active
      <4>1. PICK age \in BootAges : bs' = Enabled(age)
        BY <1>2, <2>2, <3>3 DEF SwitchSaver
      <4>2. wr'.wear = 0
        BY <1>1, <2>2, <3>1, <3>3, UnwornFields DEF Incoming
      <4>3. QED
        BY <4>1, <4>2, EnabledSteady
    <3>4. QED
      BY <3>2, <3>3
  <2>3. QED
    BY <2>1, <2>2
<1>8. QED
  BY <1>1, <1>3, <1>6, <1>7 DEF CInv

\* The control task.
LEMMA TickCInv ==
  ASSUME CInv, ControlTick
  PROVE  CInv'
<1>1. /\ IInv' /\ ctl \in Control /\ wr \in WritePath /\ Coherent(wr) /\ keepalive \in Nat
      /\ bs.active <=> ctl.mode = "battery_saver"
      /\ ctl.mode \in StaticModes <=> ctl.mode # "battery_saver"
  BY TickIInv, Given, ModeSplit DEF CInv
<1>2. ctl' = ctl /\ tun' = tun
  BY DEF ControlTick
<1>3. CASE ctl.mode = "battery_saver"
  <2>1. Steady(bs', wr', tun)
    BY <1>1, <1>3, SaverTickEffect DEF CInv
  <2>2. QED
    BY <1>1, <1>2, <1>3, <2>1 DEF CInv
<1>4. CASE ctl.mode # "battery_saver"
  <2>1. wr' \in Reconcile(ctl, wr, d', keepalive) /\ bs' = bs
    BY <1>4 DEF ControlTick
  <2>2. Fits(wr', DesiredRange(ctl)[1], DesiredRange(ctl)[2])
    BY <1>1, <1>4, <2>1, ReconcileEffect DEF CInv
  <2>3. QED
    BY <1>1, <1>2, <1>4, <2>1, <2>2 DEF CInv
<1>5. QED
  BY <1>3, <1>4

\* Steps that change neither the mode nor what the inverter holds.
LEMMA QuietCInv ==
  ASSUME CInv, IInv', ctl' = ctl,
         \/ wr' = Unworn(wr) /\ bs' = bs
         \/ /\ wr' = Later(wr, 1) /\ tun' = tun
            /\ bs' = IF bs.active THEN SaverLater(bs, 1) ELSE bs
         \/ wr' = wr /\ bs' = bs /\ tun' = tun
  PROVE  CInv'
<1>1. wr \in WritePath /\ bs \in Saver
  BY Given DEF CInv
<1>2. CASE wr' = Unworn(wr) /\ bs' = bs
  BY <1>1, <1>2, UnwornFields, SteadyUnworn DEF CInv
<1>3. CASE /\ wr' = Later(wr, 1) /\ tun' = tun
           /\ bs' = IF bs.active THEN SaverLater(bs, 1) ELSE bs
  <2>1. ctl'.mode \in StaticModes => Fits(wr', DesiredRange(ctl')[1], DesiredRange(ctl')[2])
    BY <1>1, <1>3, LaterFields DEF CInv
  <2>2. CASE bs.active
    BY <1>1, <1>3, <2>1, <2>2, SteadyLater DEF CInv
  <2>3. CASE ~bs.active
    BY <1>1, <1>3, <2>1, <2>3 DEF CInv
  <2>4. QED
    BY <2>2, <2>3
<1>4. CASE wr' = wr /\ bs' = bs /\ tun' = tun
  BY <1>4 DEF CInv
<1>5. QED
  BY <1>2, <1>3, <1>4

\* A commit under way saves a charge power within the cap.
LEMMA CommitCharge ==
  ASSUME CInv, NEW x \in Commits
  PROVE  /\ x.image = Saved(x.ctl, x.image.tun)
         /\ x.ctl.charge \in -PowerCap .. PowerCap
<1>1. x.ctl.charge \in {ctl.charge} \cup Charges /\ x.image = Saved(x.ctl, x.image.tun)
  BY CommitTyped DEF CInv
<1>2. Charges \subseteq -PowerCap .. PowerCap
  BY ControlAssumption
<1>3. QED
  BY <1>1, <1>2 DEF CInv

LEMMA NextCInv == CInv /\ [Next]_vars => CInv'
<1> SUFFICES ASSUME CInv, [Next]_vars PROVE CInv'
  OBVIOUS
<1>1. IInv' /\ flash = Saved(ctl, flash.tun) /\ 0 \in -PowerCap .. PowerCap
  BY NextIInv, Given, ControlAssumption DEF CInv
<1>2. CASE ControlTick
  BY <1>2, TickCInv
<1>3. ASSUME NEW cmd \in Commands, Apply(cmd) PROVE CInv'
  BY <1>3, ApplyCInv
<1>4. CASE Reset
  <2>1. PICK reg : Boot(flash, reg)
    BY <1>4 DEF Reset
  <2>2. ctl' = Restored(flash)
    BY <2>1 DEF Boot
  <2>3. ctl'.charge \in {ctl.charge, 0}
    BY <1>1, <2>2, RestoredCharge
  <2>4. QED
    BY <1>1, <2>1, <2>3, BootCInv DEF CInv
<1>5. CASE ResetInCommit
  <2>1. PICK y \in Commits, n \in 0 .. 6 :
          Boot(CutAt(y, n).image, CutAt(y, n).reg)
    BY <1>5 DEF ResetInCommit
  <2>2. y.image = Saved(y.ctl, y.image.tun) /\ y.ctl.charge \in -PowerCap .. PowerCap
    BY CommitCharge
  <2>3. ctl'.charge \in {y.ctl.charge, 0}
    BY <2>1, <2>2, CutAtIs, RestoredCharge DEF Boot
  <2>4. QED
    BY <1>1, <2>1, <2>2, <2>3, BootCInv
<1>6. ASSUME NEW t \in Tunings, Tune(t) PROVE CInv'
  BY <1>1, <1>6, QuietCInv DEF Tune
<1>7. CASE Advance
  BY <1>1, <1>7, QuietCInv DEF Advance
<1>8. CASE \/ ReadPassiveTimeout \/ (\E t \in Timeouts : PanelSetsTimeout(t))
           \/ UNCHANGED vars
  BY <1>1, <1>8, QuietCInv DEF ReadPassiveTimeout, PanelSetsTimeout, vars
<1>9. QED
  BY <1>2, <1>3, <1>4, <1>5, <1>6, <1>7, <1>8 DEF Next

-----------------------------------------------------------------------------
(* The theorems.                                                           *)

\* The inductive invariant: the write path fits the mode and the saver.
THEOREM WritePathFits == Spec => []CInv
  BY InitCInv, NextCInv, PTL DEF Spec

\* PassiveWriteCache.h: without keep-alive the inverter's memory is written once
\* per change, however long the mode stays and whatever is repeated.
THEOREM OneWriteSuffices == Spec => []OneWritePerChange
<1>1. CInv => OneWritePerChange
  <2> SUFFICES ASSUME CInv, ctl.mode \in StaticModes \/ bs.strategy # "loop"
               PROVE  wr.wear <= 1
    BY DEF OneWritePerChange, Settled
  <2>1. /\ bs \in Saver /\ ctl \in Control
        /\ bs.active <=> ctl.mode = "battery_saver"
    BY Given DEF CInv
  <2>2. wr.wear = 0 \/ wr.wear = 1
    <3>1. CASE ctl.mode \in StaticModes
      BY <3>1 DEF CInv, Fits
    <3>2. CASE ctl.mode \notin StaticModes
      <4>1. bs.active /\ bs.strategy \in {"probing", "native"}
        BY <2>1, <3>2, ModeSplit DEF Saver
      <4>2. QED
        BY <4>1 DEF CInv, Steady, Sparing, Fits
    <3>3. QED
      BY <3>1, <3>2
  <2>3. QED
    BY <2>2
<1>2. QED
  BY <1>1, WritePathFits, PTL

\* saverShouldSend: with an acknowledged last write, the software loop holds the
\* inverter within the hysteresis of its target, and at zero exactly at zero.
THEOREM LoopFollowsTarget == Spec => LoopTracksTarget
<1>1. CInv /\ [Next]_vars =>
        [LoopRuns /\ wr'.valid /\ bs'.lastSent # -1 /\ ControlTick
           => LET held == wr'.reg[1]
              IN  /\ wr'.reg = <<held, held>>
                  /\ (held = 0) = (bs'.target = 0)
                  /\ held - bs'.target \in -tun.minDelta + 1 .. tun.minDelta - 1]_vars
  <2> SUFFICES ASSUME CInv, LoopRuns, wr'.valid, bs'.lastSent # -1, ControlTick
               PROVE  LET held == wr'.reg[1]
                      IN  /\ wr'.reg = <<held, held>>
                          /\ (held = 0) = (bs'.target = 0)
                          /\ held - bs'.target \in -tun.minDelta + 1 .. tun.minDelta - 1
    OBVIOUS
  <2>1. ctl.mode = "battery_saver" /\ bs'.strategy = "loop" /\ d'.valid
    BY DEF LoopRuns
  <2>2. Steady(bs', wr', tun) /\ Tracks(bs', wr', tun)
    BY <2>1, SaverTickEffect
  <2>3. wr'.reg = <<bs'.lastSent, bs'.lastSent>>
    BY <2>1, <2>2 DEF Steady, Told
  <2>4. /\ (bs'.lastSent = 0) = (bs'.target = 0)
        /\ bs'.lastSent - bs'.target \in -tun.minDelta + 1 .. tun.minDelta - 1
    BY <2>2 DEF Tracks
  <2>5. QED
    BY <2>3, <2>4
<1>2. QED
  BY <1>1, WritePathFits, PTL DEF Spec, LoopTracksTarget

\* passiveWriteDue: after a tick with a live link, no static range and no native
\* window has been left for a whole keep-alive.
THEOREM RefreshesAreInTime == Spec => KeepaliveHolds
<1>1. CInv /\ [Next]_vars =>
        [(StaticRuns \/ NativeRuns) /\ keepalive # 0 /\ wr'.valid /\ ControlTick
           => wr'.age < keepalive]_vars
  <2> SUFFICES ASSUME CInv, StaticRuns \/ NativeRuns, keepalive # 0, wr'.valid, ControlTick
               PROVE  wr'.age < keepalive
    OBVIOUS
  <2>1. CASE NativeRuns
    BY <2>1, SaverTickEffect DEF NativeRuns
  <2>2. CASE StaticRuns
    <3>1. ctl.mode \in StaticModes /\ ~d'.err /\ ctl.mode # "battery_saver"
      BY <2>2 DEF StaticRuns, StaticModes
    <3>2. wr' \in Reconcile(ctl, wr, d', keepalive)
      BY <3>1 DEF ControlTick
    <3>3. ctl \in Control /\ wr \in WritePath /\ Coherent(wr) /\ keepalive \in Nat
      BY Given DEF CInv
    <3> DEFINE v == wr'
               e == d'
    <3>4. v \in Reconcile(ctl, wr, e, keepalive)
      BY <3>2
    <3>5. ~e.err /\ v.valid
      BY <3>1
    <3> HIDE DEF v, e
    <3>6. v.age < keepalive
      BY <3>1, <3>3, <3>4, <3>5, ReconcileEffect
    <3>7. QED
      BY <3>6 DEF v
  <2>3. QED
    BY <2>1, <2>2
<1>2. QED
  BY <1>1, WritePathFits, PTL DEF Spec, KeepaliveHolds

-----------------------------------------------------------------------------
(* The refinement of BatteryControl.                                       *)

\* What a control state is to the abstract controller.
RangeOf(c) == IF c.mode \in StaticModes THEN DesiredRange(c) ELSE <<0, PowerCap>>

Demand(c) == [m |-> c.mode, r |-> RangeOf(c)]

EnvelopeOf(c) == IF c.mode \in StaticModes THEN {DesiredRange(c)} ELSE SaverRanges

\* modeDesiredPassiveRange gives each mode the range it stands for.
LEMMA RangeCases ==
  ASSUME NEW c \in Control
  PROVE  RangeOf(c) =
           CASE c.mode = "auto"          -> <<-c.auto, c.auto>>
             [] c.mode = "charge"        -> <<c.charge, c.charge>>
             [] c.mode = "standby"       -> <<0, 0>>
             [] c.mode = "battery_saver" -> <<0, PowerCap>>
<1>1. c.mode \in {"auto", "charge", "standby", "battery_saver"}
  BY DEF Control, Modes, StaticModes
<1>2. QED
  BY <1>1 DEF RangeOf, DesiredRange, StaticModes

\* It is one of its demands, with the envelope of the mode.
LEMMA DemandTyped ==
  ASSUME NEW c \in Control, c.charge \in -PowerCap .. PowerCap
  PROVE  /\ Demand(c) \in BC!Demands /\ BC!Envelope(Demand(c)) = EnvelopeOf(c)
         /\ Demand(c).m = c.mode /\ Demand(c).r = RangeOf(c)
<1>1. Demand(c).m = c.mode /\ Demand(c).r = RangeOf(c)
  BY DEF Demand
<1>2. c.mode \in Modes /\ c.auto \in 1 .. PowerCap
  BY DEF Control
<1>3. BC!Envelope(Demand(c)) = EnvelopeOf(c)
  <2>1. BC!Envelope(Demand(c)) =
          IF c.mode = "battery_saver" THEN SaverRanges ELSE {RangeOf(c)}
    BY <1>1 DEF BC!Envelope, SaverRanges
  <2>2. QED
    BY <2>1, ModeSplit DEF EnvelopeOf, RangeOf
<1>4. Demand(c) \in BC!Demands
  <2>1. CASE c.mode = "charge"
    <3>1. RangeOf(c) = <<c.charge, c.charge>>
      BY <2>1 DEF RangeOf, DesiredRange, StaticModes
    <3>2. RangeOf(c) \in {<<p, p>> : p \in -PowerCap .. PowerCap}
      BY <3>1
    <3>3. QED
      BY <2>1, <3>2 DEF Demand, BC!Demands
  <2>2. CASE c.mode = "standby"
    <3>1. RangeOf(c) = <<0, 0>>
      BY <2>2 DEF RangeOf, DesiredRange, StaticModes
    <3>2. QED
      BY <2>2, <3>1 DEF Demand, BC!Demands
  <2>3. CASE c.mode = "auto"
    <3>1. RangeOf(c) = <<-c.auto, c.auto>>
      BY <2>3 DEF RangeOf, DesiredRange, StaticModes
    <3>2. RangeOf(c) \in {<<-p, p>> : p \in 1 .. PowerCap}
      BY <1>2, <3>1
    <3>3. QED
      BY <2>3, <3>2 DEF Demand, BC!Demands
  <2>4. CASE c.mode = "battery_saver"
    <3>1. RangeOf(c) = <<0, PowerCap>>
      BY <2>4 DEF RangeOf, StaticModes
    <3>2. QED
      BY <2>4, <3>1 DEF Demand, BC!Demands
  <2>5. QED
    BY <1>2, <2>1, <2>2, <2>3, <2>4 DEF Modes, StaticModes
<1>5. QED
  BY <1>1, <1>3, <1>4

\* What a command tells the inverter.
LEMMA ToldDemand ==
  ASSUME NEW c \in Control
  PROVE  BC!Told(Demand(c)) =
           IF d.seq = 0 \/ c.mode = "battery_saver" THEN {} ELSE {RangeOf(c)}
  BY DEF BC!Told, Demand

\* What a command, completed or cut short, leaves in the inverter: nothing new
\* before the inverter was read.
LEMMA CommandEffect ==
  ASSUME CInv, NEW c \in Control, NEW v \in Reconcile(c, Incoming(c), d, keepalive)
  PROVE  v.reg \in {wr.reg} \cup BC!Told(Demand(c))
<1>1. wr \in WritePath /\ Coherent(wr) /\ keepalive \in Nat /\ Counting(d)
  BY Given DEF CInv
<1>2. /\ Incoming(c) \in WritePath /\ Coherent(Incoming(c)) /\ Incoming(c).reg = wr.reg
  BY <1>1, UnwornTyped, UnwornFields DEF Incoming
<1>3. v.reg \in {Incoming(c).reg} \cup (IF c.mode \in StaticModes THEN {DesiredRange(c)} ELSE {})
  BY <1>1, <1>2, ReconcileEffect
<1>4. CASE d.seq = 0
  <2>1. v = Incoming(c)
    BY <1>1, <1>4 DEF Reconcile, Counting
  <2>2. QED
    BY <1>2, <2>1
<1>5. CASE d.seq # 0 /\ c.mode \in StaticModes
  <2>1. c.mode # "battery_saver" /\ RangeOf(c) = DesiredRange(c)
    BY <1>5 DEF RangeOf, StaticModes
  <2>2. BC!Told(Demand(c)) = {DesiredRange(c)}
    BY <1>5, <2>1, ToldDemand
  <2>3. QED
    BY <1>2, <1>3, <1>5, <2>2
<1>6. CASE c.mode \notin StaticModes
  BY <1>2, <1>3, <1>6
<1>7. QED
  BY <1>4, <1>5, <1>6

\* A control state the abstract controller restarts with after a lost EEPROM.
LEMMA LostDemand == ASSUME NEW f \in {Blank, Upgraded}
                    PROVE  Demand(Restored(f)) = BC!Lost
<1>1. /\ f.charge = Unwritten /\ f.auto = Unwritten /\ f.mode = ""
  <2>1. Blank.charge = Unwritten /\ Blank.auto = Unwritten /\ Blank.mode = ""
    BY Zenon DEF Blank
  <2>2. Upgraded.charge = Unwritten /\ Upgraded.auto = Unwritten /\ Upgraded.mode = ""
    BY <2>1, Zenon DEF Upgraded, Blank
  <2>3. QED
    BY <2>1, <2>2
<1>2. "" \notin Modes /\ AutoDefault > 0 /\ AutoDefault \in Int
  BY ControlAssumption DEF Modes, StaticModes
<1>3. Restored(f).mode = "auto" /\ Restored(f).auto = AutoDefault
  <2>1. CASE f.magic
    BY <1>1, <1>2, <2>1, Zenon DEF Restored, LoadField
  <2>2. CASE ~f.magic
    BY <2>2, Zenon DEF Restored
  <2>3. QED
    BY <2>1, <2>2
<1>4. DesiredRange(Restored(f)) = <<-AutoDefault, AutoDefault>>
  BY <1>3 DEF DesiredRange
<1>5. QED
  BY <1>3, <1>4 DEF Demand, RangeOf, StaticModes, BC!Lost

\* A tick before the inverter was read tells it nothing.  Any other sends
\* nothing outside the envelope of the present mode, and the device does not
\* forget that the inverter was read.
LEMMA TickContract ==
  ASSUME CInv, ControlTick
  PROVE  \/ d.seq = 0 /\ d'.seq = 0 /\ wr'.reg = wr.reg
         \/ d'.seq # 0 /\ wr'.reg \in {wr.reg} \cup EnvelopeOf(ctl)
<1>1. /\ ctl \in Control /\ wr \in WritePath /\ Coherent(wr) /\ keepalive \in Nat
      /\ d \in LinkData /\ Counting(d)
  BY Given DEF CInv
<1>2. Counting(d') /\ (d.seq # 0 => d'.seq # 0)
  BY <1>1, PollTyped DEF ControlTick
<1>3. CASE ctl.mode = "battery_saver"
  <2>1. wr'.reg \in {wr.reg} \cup SaverRanges /\ (~d'.valid => wr' = wr)
    BY <1>3, SaverTickEffect
  <2>2. QED
    BY <1>2, <1>3, <2>1 DEF EnvelopeOf, StaticModes, Counting
<1>4. CASE ctl.mode # "battery_saver"
  <2> DEFINE v == wr'
             e == d'
  <2>1. v \in Reconcile(ctl, wr, e, keepalive)
    BY <1>4 DEF ControlTick
  <2> HIDE DEF v, e
  <2>2. v.reg \in {wr.reg} \cup (IF ctl.mode \in StaticModes THEN {DesiredRange(ctl)} ELSE {})
    BY <1>1, <2>1, ReconcileEffect
  <2>3. e.err => v = wr
    BY <2>1 DEF Reconcile
  <2>4. QED
    BY <1>2, <2>2, <2>3 DEF EnvelopeOf, Counting, v, e
<1>5. QED
  BY <1>3, <1>4

\* What a command that is not saved yet may have told the inverter.
LEMMA UnderwayEffect ==
  ASSUME CInv, NEW c \in AskedNow
  PROVE  /\ c \in Control /\ Demand(c) \in BC!Demands
         /\ \A reg \in Underway(c) : reg \in {wr.reg} \cup BC!Told(Demand(c))
<1>1. ctl \in Control /\ ctl.charge \in -PowerCap .. PowerCap
  BY Given DEF CInv
<1>2. c \in Control /\ c.charge \in -PowerCap .. PowerCap
  <2>1. PICK cmd \in Commands : c = Asked(ctl, cmd)
    BY DEF AskedNow
  <2>2. c \in Control /\ c.charge \in {ctl.charge} \cup Charges
    BY <1>1, <2>1, AskedTyped
  <2>3. Charges \subseteq -PowerCap .. PowerCap
    BY ControlAssumption
  <2>4. QED
    BY <1>1, <2>2, <2>3
<1>3. ASSUME NEW reg \in Underway(c)
      PROVE  reg \in {wr.reg} \cup BC!Told(Demand(c))
  BY <1>2, <1>3, CommandEffect DEF Underway
<1>4. QED
  BY <1>2, <1>3, DemandTyped

\* What a reset finds in the inverter is what a command may have left there.
LEMMA ResetEffect ==
  ASSUME CInv, NEW reg \in {wr.reg} \cup UNION {Underway(c) : c \in AskedNow}
  PROVE  \E dem \in BC!Demands : reg \in {wr.reg} \cup BC!Told(dem)
<1>1. CASE reg = wr.reg
  <2>1. Demand(ctl) \in BC!Demands
    BY Given, DemandTyped DEF CInv
  <2>2. QED
    BY <1>1, <2>1
<1>2. CASE reg # wr.reg
  <2>1. PICK c \in AskedNow : reg \in Underway(c)
    BY <1>2
  <2>2. QED
    BY <2>1, UnderwayEffect
<1>3. QED
  BY <1>1, <1>2

\* What a cut finds in the inverter is what the command being saved may have
\* left there.
LEMMA CommitEffect ==
  ASSUME CInv, NEW x \in Commits
  PROVE  /\ x.ctl \in Control /\ Demand(x.ctl) \in BC!Demands
         /\ x.reg \in {wr.reg} \cup BC!Told(Demand(x.ctl))
<1>1. x.ctl \in Control /\ Demand(x.ctl) \in BC!Demands
  BY CommitTyped, CommitCharge, DemandTyped DEF CInv
<1>2. CASE x.reg = wr.reg
  BY <1>1, <1>2
<1>3. CASE x.reg # wr.reg
  <2>1. PICK c \in AskedNow :
          x \in {Commit(c, Saved(c, flash.tun), reg) : reg \in Underway(c)}
    BY <1>3 DEF Commits, Commit
  <2>2. PICK reg \in Underway(c) : x = Commit(c, Saved(c, flash.tun), reg)
    BY <2>1
  <2>3. x.ctl = c /\ x.reg = reg
    BY <2>2 DEF Commit
  <2>4. QED
    BY <1>1, <2>3, UnderwayEffect
<1>4. QED
  BY <1>2, <1>3

\* What a cut leaves of a control state is a remnant of its demand.
LEMMA LeftDemand ==
  ASSUME NEW c \in Control, NEW n \in 0 .. 6
  PROVE  Demand(Left(c, n)) \in BC!Remnants(Demand(c))
<1> DEFINE l == Left(c, n)
<1>1. l \in Control
  BY LeftTyped
<1>2. /\ l.mode = (IF n > 4 THEN c.mode ELSE "auto")
      /\ l.charge = (IF n > 5 THEN c.charge ELSE 0)
      /\ l.auto = AutoDefault
  BY DEF Left
<1> HIDE DEF l
<1>3. CASE l.mode = "auto"
  <2>1. Demand(l) = BC!Lost
    BY <1>1, <1>2, <1>3, RangeCases DEF Demand, BC!Lost
  <2>2. QED
    BY <2>1 DEF BC!Remnants, l
<1>4. CASE l.mode # "auto"
  <2>1. n > 4 /\ l.mode = c.mode /\ Demand(c).m # "auto"
    BY <1>2, <1>4 DEF Demand
  <2>2. CASE c.mode = "charge" /\ ~(n > 5)
    <3>1. RangeOf(l) = <<0, 0>>
      BY <1>1, <1>2, <2>1, <2>2, RangeCases
    <3>2. Demand(l) = [Demand(c) EXCEPT !.r = <<0, 0>>]
      BY <2>1, <3>1 DEF Demand
    <3>3. Demand(c).m = "charge"
      BY <2>2 DEF Demand
    <3>4. QED
      BY <3>2, <3>3 DEF BC!Remnants, l
  <2>3. CASE c.mode # "charge" \/ n > 5
    <3>1. RangeOf(l) = RangeOf(c)
      BY <1>1, <1>2, <1>4, <2>1, <2>3, RangeCases
    <3>2. Demand(l) = Demand(c)
      BY <2>1, <3>1 DEF Demand
    <3>3. QED
      BY <2>1, <3>2 DEF BC!Remnants, l
  <2>4. QED
    BY <2>2, <2>3
<1>5. QED
  BY <1>3, <1>4

\* The abstract variables, by name.
LEMMA Mapping ==
  /\ ctl \in Control => BC!Present = Demand(ctl)
  /\ \A c \in Control : ctl' = c =>
       \A dem : dem = Demand(c) => BC!Become(dem)
<1>1. ASSUME ctl \in Control PROVE BC!Present = Demand(ctl)
  <2>1. RangeOfMode = RangeOf(ctl)
    BY <1>1, RangeCases DEF RangeOfMode
  <2>2. QED
    BY <2>1 DEF BC!Present, Demand
<1>2. ASSUME NEW c \in Control, ctl' = c, NEW dem, dem = Demand(c)
      PROVE  BC!Become(dem)
  <2>1. dem.m = c.mode /\ dem.r = RangeOf(c)
    BY <1>2 DEF Demand
  <2>2. RangeOfMode' = RangeOf(c)
    BY <1>2, RangeCases DEF RangeOfMode
  <2>3. QED
    BY <1>2, <2>1, <2>2 DEF BC!Become
<1>3. QED
  BY <1>1, <1>2

\* Every step of the control stack is a step of BatteryControl, or none.
LEMMA StepContract ==
  ASSUME Unwritten \notin Charges, CInv, CInv', RInv, [Next]_vars
  PROVE  [BC!Next]_BC!vars
<1>1. /\ ctl \in Control /\ ctl' \in Control /\ flash = Saved(ctl, flash.tun)
      /\ ctl.charge \in -PowerCap .. PowerCap /\ ctl'.charge \in -PowerCap .. PowerCap
      /\ ctl.charge # Unwritten
  BY Given DEF CInv, IInv, TypeOK, RInv
<1>2. CASE ControlTick
  <2>1. ctl' = ctl
    BY <1>2 DEF ControlTick
  <2>2. RangeOfMode' = RangeOfMode
    BY <2>1 DEF RangeOfMode
  <2>3. CASE d.seq = 0 /\ d'.seq = 0 /\ wr'.reg = wr.reg
    BY <2>1, <2>2, <2>3 DEF BC!vars
  <2>4. CASE d'.seq # 0 /\ wr'.reg \in {wr.reg} \cup EnvelopeOf(ctl)
    <3>1. wr'.reg \in {wr.reg} \cup BC!Envelope(BC!Present)
      BY <1>1, <2>4, DemandTyped, Mapping
    <3>2. BC!Control
      BY <2>1, <2>2, <2>4, <3>1 DEF BC!Control
    <3>3. QED
      BY <3>2 DEF BC!Next
  <2>5. QED
    BY <1>2, <2>3, <2>4, TickContract
<1>3. ASSUME NEW cmd \in Commands, Apply(cmd) PROVE BC!Command
  <2> DEFINE c == ctl'
             v == wr'
  <2>1. v \in Reconcile(c, Incoming(c), d, keepalive) /\ c \in Control
    BY <1>1, <1>3 DEF Apply
  <2>2. c.charge \in -PowerCap .. PowerCap /\ c = ctl'
    BY <1>1
  <2> HIDE DEF c, v
  <2>3. v.reg \in {wr.reg} \cup BC!Told(Demand(c))
    BY <2>1, CommandEffect
  <2>4. Demand(c) \in BC!Demands /\ BC!Become(Demand(c))
    BY <2>1, <2>2, DemandTyped, Mapping
  <2>5. d' = d
    BY <1>3 DEF Apply
  <2>6. QED
    BY <2>3, <2>4, <2>5 DEF BC!Command, v
<1>4. CASE Reset
  <2>1. PICK reg \in {wr.reg} \cup UNION {Underway(c) : c \in AskedNow} : Boot(flash, reg)
    BY <1>4 DEF Reset
  <2>2. ctl' = ctl /\ wr'.reg = reg
    BY <1>1, <2>1, RoundTrip DEF Boot, ColdCache
  <2>3. BC!Become(BC!Present)
    BY <1>1, <2>2, Mapping
  <2>4. d'.seq = 0
    BY <2>1 DEF Boot, LinkBoot
  <2>5. BC!Restart
    BY <2>1, <2>2, <2>3, <2>4, ResetEffect DEF BC!Restart
  <2>6. QED
    BY <2>5 DEF BC!Next
<1>5. CASE ResetInCommit
  <2>1. PICK y \in Commits, n \in 0 .. 6 :
          Boot(CutAt(y, n).image, CutAt(y, n).reg)
    BY <1>5 DEF ResetInCommit
  <2>2. /\ y.ctl \in Control /\ y.ctl.charge # Unwritten
        /\ y.image = Saved(y.ctl, y.image.tun)
    BY <1>1, CommitTyped DEF RInv
  <2>3. ctl' = Left(y.ctl, n) /\ wr'.reg = y.reg
    BY <2>1, <2>2, CutAtIs, CutRoundTrip DEF Boot, ColdCache
  <2>4. BC!Become(Demand(Left(y.ctl, n)))
    BY <1>1, <2>3, Mapping
  <2>5. Demand(Left(y.ctl, n)) \in BC!Remnants(Demand(y.ctl))
    BY <2>2, LeftDemand
  <2>6. /\ Demand(y.ctl) \in BC!Demands
        /\ y.reg \in {wr.reg} \cup BC!Told(Demand(y.ctl))
    BY CommitEffect
  <2>7. d'.seq = 0
    BY <2>1 DEF Boot, LinkBoot
  <2>8. BC!Restart
    BY <2>3, <2>4, <2>5, <2>6, <2>7 DEF BC!Restart
  <2>9. QED
    BY <2>8 DEF BC!Next
<1>6. CASE \/ (\E t \in Tunings : Tune(t)) \/ ReadPassiveTimeout
           \/ (\E t \in Timeouts : PanelSetsTimeout(t)) \/ Advance \/ UNCHANGED vars
  <2>1. wr \in WritePath
    BY Given DEF CInv
  <2>2. ctl' = ctl /\ d' = d /\ wr'.reg = wr.reg
    BY <1>6, <2>1, UnwornFields, LaterFields
    DEF Tune, ReadPassiveTimeout, PanelSetsTimeout, Advance, vars
  <2>3. QED
    BY <2>2 DEF BC!vars, RangeOfMode
<1>7. QED
  BY <1>2, <1>3, <1>4, <1>5, <1>6 DEF Next, BC!Next

\* A first boot has the default demand and has read nothing.
LEMMA InitContract == ASSUME Init PROVE BC!Init
<1>1. PICK f \in {Blank, Upgraded} : ctl = Restored(f)
  BY DEF Init
<1>2. ctl \in Control
  BY InitIInv, Given
<1>3. BC!Present = BC!Lost
  BY <1>1, <1>2, Mapping, LostDemand
<1>4. wr.reg \in Int \X Int
  <2>1. PICK reg \in Leftovers : wr = ColdCache(reg)
    BY DEF Init
  <2>2. QED
    BY <2>1, ControlAssumption DEF ColdCache, Range
<1>5. d.seq = 0
  BY DEF Init, LinkBoot
<1>6. QED
  BY <1>3, <1>4, <1>5 DEF BC!Init

\* BatteryControl is what the control stack implements, if -1 (which an erased
\* EEPROM reads as) is no charge power.
THEOREM ContractHolds ==
  ASSUME Unwritten \notin Charges
  PROVE  Spec => ImplementsContract
<1>1. Init => BC!Init
  BY InitContract
<1>2. CInv /\ CInv' /\ RInv /\ [Next]_vars => [BC!Next]_BC!vars
  BY StepContract
<1>3. Init => RInv
  <2>1. Init => ctl.charge # Unwritten /\ want = ctl
    BY FreshCharge DEF Init
  <2>2. QED
    BY <2>1, InitIInv DEF RInv, ResumesIntent
<1>4. RInv /\ [Next]_vars => RInv'
  BY NextRInv
<1>5. Spec => []RInv
  BY <1>3, <1>4, PTL DEF Spec
<1>6. QED
  BY <1>1, <1>2, <1>5, WritePathFits, PTL DEF Spec, ImplementsContract, BC!Spec
==============================================================================
