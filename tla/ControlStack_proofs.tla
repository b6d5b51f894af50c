------------------------ MODULE ControlStack_proofs ------------------------
(***************************************************************************)
(* Proofs about the control stack, for every value of the constants.       *)
(***************************************************************************)
EXTENDS ControlProperties, TLAPS

-----------------------------------------------------------------------------
(* The write path.                                                         *)

\* Ages saturate, so they stay ages.
LEMMA OlderTyped == ASSUME NEW age \in Age, NEW t \in Nat
                    PROVE  Older(age, t) \in Age
  BY CacheAssumption DEF Older, Age

\* Time passes over the write path without touching what it claims.
LEMMA LaterTyped == ASSUME NEW w \in WritePath, NEW t \in Nat
                    PROVE  /\ Later(w, t) \in WritePath
                           /\ Coherent(w) => Coherent(Later(w, t))
  BY OlderTyped DEF Later, WritePath, Coherent

\* Forgetting the history of writes does not touch the cache.
LEMMA UnwornTyped == ASSUME NEW w \in WritePath
                     PROVE  /\ Unworn(w) \in WritePath
                            /\ Coherent(w) => Coherent(Unworn(w))
  BY DEF Unworn, WritePath, Coherent

\* A cold cache claims nothing.
LEMMA ColdTyped == ASSUME NEW reg \in Range
                   PROVE  ColdCache(reg) \in WritePath /\ Coherent(ColdCache(reg))
  BY CacheAssumption DEF ColdCache, WritePath, Coherent, Age

\* An acknowledged write is what the cache and the register then hold.
LEMMA AckedTyped ==
  ASSUME NEW w \in WritePath, NEW lo \in Int, NEW hi \in Int, NEW k \in Nat
  PROVE  /\ Acked(w, lo, hi, k) \in WritePath
         /\ Acked(w, lo, hi, k).valid
         /\ Acked(w, lo, hi, k).reg = <<lo, hi>>
         /\ Acked(w, lo, hi, k).lo = lo /\ Acked(w, lo, hi, k).hi = hi
<1>1. 0 \in Age /\ <<lo, hi>> \in Range
  BY CacheAssumption DEF Age, Range
<1>2. (IF k = 0 /\ w.wear < 2 THEN w.wear + 1 ELSE w.wear) \in 0 .. 2
  BY DEF WritePath
<1>3. QED
  BY <1>1, <1>2 DEF Acked, WritePath

\* A write that failed leaves nothing claimed.
LEMMA FailedTyped ==
  ASSUME NEW w \in WritePath, NEW reg \in Range
  PROVE  Failed(w, reg) \in WritePath /\ Failed(w, reg).valid = FALSE
<1>1. Failed(w, reg).valid = FALSE
  BY DEF Failed, WritePath
<1>2. 0 \in 0 .. 2
  OBVIOUS
<1>3. Failed(w, reg) \in WritePath
  BY <1>2 DEF Failed, WritePath
<1>4. QED
  BY <1>1, <1>3

\* Whatever becomes of a write, the result is a write path, the cache is true
\* if it was, and a call that reports success leaves the range in force.
LEMMA SendTyped ==
  ASSUME NEW w \in WritePath, NEW lo \in Int, NEW hi \in Int, NEW k \in Nat,
         NEW r \in SendPassiveRange(w, lo, hi, k)
  PROVE  /\ r.ok \in BOOLEAN /\ r.w \in WritePath
         /\ Coherent(w) => Coherent(r.w)
         /\ Coherent(w) /\ r.ok => r.w.valid /\ r.w.reg = <<lo, hi>>
         /\ ~r.ok => ~r.w.valid
<1>1. CASE ~PassiveWriteDue(w, lo, hi, k)
  <2>1. r = [ok |-> TRUE, w |-> w]
    BY <1>1 DEF SendPassiveRange
  <2>2. w.valid /\ w.lo = lo /\ w.hi = hi
    BY <1>1 DEF PassiveWriteDue, WritePath
  <2>3. QED
    BY <2>1, <2>2 DEF Coherent
<1>2. CASE r = [ok |-> TRUE, w |-> Acked(w, lo, hi, k)]
  <2>1. Acked(w, lo, hi, k) \in WritePath
    BY AckedTyped
  <2>2. /\ Acked(w, lo, hi, k).valid
        /\ Acked(w, lo, hi, k).reg = <<lo, hi>>
        /\ Acked(w, lo, hi, k).lo = lo /\ Acked(w, lo, hi, k).hi = hi
    BY AckedTyped
  <2>3. QED
    BY <1>2, <2>1, <2>2 DEF Coherent
<1>3. CASE \E reg \in {w.reg, <<lo, hi>>} : r = [ok |-> FALSE, w |-> Failed(w, reg)]
  <2>1. PICK reg \in {w.reg, <<lo, hi>>} : r = [ok |-> FALSE, w |-> Failed(w, reg)]
    BY <1>3
  <2>2. reg \in Range
    BY DEF WritePath, Range
  <2>3. r.ok = FALSE /\ r.w = Failed(w, reg)
    BY <2>1
  <2>4. r.w \in WritePath /\ r.w.valid = FALSE
    BY <2>2, <2>3, FailedTyped
  <2>5. QED
    BY <2>3, <2>4 DEF Coherent
<1>4. QED
  BY <1>1, <1>2, <1>3 DEF SendPassiveRange

-----------------------------------------------------------------------------
(* The saver.                                                              *)

\* A target stays between zero and the ceiling in force.
LEMMA AccumulateTyped ==
  ASSUME NEW target \in Int, NEW grid \in Int, NEW maxPower \in Nat
  PROVE  AccumulateTarget(target, grid, maxPower) \in 0 .. maxPower
  BY DEF AccumulateTarget

\* A saver as constructed, as enabled, and after some time.
LEMMA SaverTyped ==
  /\ SaverOff \in Saver
  /\ \A age \in Age : Enabled(age) \in Saver /\ Enabled(age).active
  /\ \A s \in Saver, t \in Nat : /\ SaverLater(s, t) \in Saver
                                 /\ SaverLater(s, t).active = s.active
<1>1. SaverOff \in Saver
  BY CacheAssumption DEF SaverOff, Saver, Age, ProbeLimit
<1>2. \A age \in Age : Enabled(age) \in Saver /\ Enabled(age).active
  BY <1>1 DEF Enabled, Saver
<1>3. ASSUME NEW s \in Saver, NEW t \in Nat
      PROVE  SaverLater(s, t) \in Saver /\ SaverLater(s, t).active = s.active
  BY OlderTyped, ZenonT(40) DEF SaverLater, Saver
<1>4. QED
  BY <1>1, <1>2, <1>3

\* What the loop knows of its samples: the last one used was used once.
LoopUse(s) ==
  s.strategy = "loop" => s.used = s.lastSeq /\ (s.lastSeq # 0 => s.uses = 1)

\* What probing knows of its attempts: there is one left.
ProbeLeft(s) == s.strategy = "probing" => s.probes < ProbeLimit

\* A saver and a write path that belong together.
Sound(s, w) ==
  /\ s \in Saver /\ w \in WritePath /\ Coherent(w)
  /\ LoopUse(s) /\ ProbeLeft(s)

\* A link whose reading is live, as update() requires of it.
Live(e) == e \in LinkData /\ e.seq # 0

\* A live reading has a sequence number and a grid power.
LEMMA LiveTyped == ASSUME NEW e, Live(e)
                   PROVE  e.seq \in Nat /\ e.seq # 0 /\ e.grid \in Int
  BY LinkAssumption DEF Live, LinkData

\* The updates of a saver that the steps of update() are made of.
Sampled(s, x, q) ==
  [s EXCEPT !.target = x, !.lastSeq = q, !.used = q, !.uses = 1]

Timed(s, b, a) == [s EXCEPT !.zeroTiming = b, !.zeroAge = a]

\* A sample was added to the target.
LEMMA SampledTyped ==
  ASSUME NEW s \in Saver, NEW x \in Int, NEW q \in Nat
  PROVE  /\ Sampled(s, x, q) \in Saver
         /\ Sampled(s, x, q).strategy = s.strategy
         /\ Sampled(s, x, q).active = s.active
         /\ Sampled(s, x, q).used = q
         /\ Sampled(s, x, q).lastSeq = q
         /\ Sampled(s, x, q).uses = 1
         /\ Sampled(s, x, q).target = x
<1>1. 1 \in 0 .. 2
  OBVIOUS
<1>2. Sampled(s, x, q) \in Saver
  BY <1>1 DEF Saver, Sampled
<1>3. QED
  BY <1>2 DEF Saver, Sampled

\* The time at zero was started, kept or stopped.
LEMMA TimedTyped ==
  ASSUME NEW s \in Saver, NEW b \in BOOLEAN, NEW a \in Age
  PROVE  /\ Timed(s, b, a) \in Saver
         /\ Timed(s, b, a).strategy = s.strategy
         /\ Timed(s, b, a).active = s.active
         /\ Timed(s, b, a).used = s.used
         /\ Timed(s, b, a).lastSeq = s.lastSeq
         /\ Timed(s, b, a).uses = s.uses
         /\ Timed(s, b, a).target = s.target
  BY ZenonT(40) DEF Saver, Timed

\* Integrating a sample keeps the target in range and uses the sample once.
LEMMA IntegrateTyped ==
  ASSUME NEW s \in Saver, LoopUse(s), s.strategy = "loop",
         NEW e, Live(e), NEW maxPower \in Nat,
         NEW t, t = Integrate(s, e, maxPower)
  PROVE  /\ t \in Saver /\ t.strategy = "loop" /\ t.active = s.active
         /\ t.used = e.seq /\ t.lastSeq = e.seq /\ t.uses = 1
<1>1. e.seq \in Nat /\ e.seq # 0 /\ e.grid \in Int
  BY LiveTyped
<1>2. CASE FreshSample(e.seq, s.lastSeq)
  <2> DEFINE target == AccumulateTarget(s.target, e.grid, maxPower)
  <2>1. target \in Int
    <3>1. s.target \in Int
      BY DEF Saver
    <3>2. target \in 0 .. maxPower
      BY <1>1, <3>1, AccumulateTyped
    <3>3. QED
      BY <3>2
  <2>2. s.used # e.seq
    BY <1>2 DEF FreshSample, LoopUse, Saver
  <2>3. t = Sampled(s, target, e.seq)
    BY <1>2, <2>2 DEF Integrate, Sampled
  <2> HIDE DEF target
  <2>4. QED
    BY <1>1, <2>1, <2>3, SampledTyped
<1>3. CASE ~FreshSample(e.seq, s.lastSeq)
  BY <1>1, <1>3 DEF FreshSample, Integrate, LoopUse
<1>4. QED
  BY <1>2, <1>3

\* Timing the idle lapse touches nothing else.
LEMMA TimeZeroTyped ==
  ASSUME NEW s \in Saver, NEW t, t = TimeZero(s)
  PROVE  /\ t \in Saver /\ t.strategy = s.strategy /\ t.active = s.active
         /\ t.used = s.used /\ t.lastSeq = s.lastSeq /\ t.uses = s.uses
         /\ t.target = s.target
<1> DEFINE zero == s.target = 0
           age == IF s.target = 0 /\ s.zeroTiming THEN s.zeroAge ELSE 0
<1>1. age \in Age
  BY CacheAssumption DEF Saver, Age
<1>2. zero \in BOOLEAN
  OBVIOUS
<1>3. t = Timed(s, zero, age)
  BY DEF TimeZero, Timed
<1> HIDE DEF age, zero
<1>4. QED
  BY <1>1, <1>2, <1>3, TimedTyped

\* A send of the loop: the saver remembers what was acknowledged.
SentTarget(s, slip, ok) ==
  IF ok THEN [SaverLater(s, slip) EXCEPT !.lastSent = s.target, !.sentAge = slip]
  ELSE SaverLater(s, slip)

\* A target was sent, or the attempt failed.
LEMMA SentTyped ==
  ASSUME NEW s \in Saver, NEW slip \in 0 .. MaxSlip, NEW ok
  PROVE  /\ SentTarget(s, slip, ok) \in Saver
         /\ SentTarget(s, slip, ok).strategy = s.strategy
         /\ SentTarget(s, slip, ok).active = s.active
         /\ SentTarget(s, slip, ok).used = s.used
         /\ SentTarget(s, slip, ok).lastSeq = s.lastSeq
         /\ SentTarget(s, slip, ok).uses = s.uses
<1>1. slip \in Nat /\ slip \in Age
  BY SaverAssumption, CacheAssumption DEF Age
<1>2. SaverLater(s, slip) \in Saver
  BY <1>1, SaverTyped
<1>3. /\ SaverLater(s, slip).strategy = s.strategy
      /\ SaverLater(s, slip).active = s.active
      /\ SaverLater(s, slip).used = s.used
      /\ SaverLater(s, slip).lastSeq = s.lastSeq
      /\ SaverLater(s, slip).uses = s.uses
  BY DEF SaverLater, Saver
<1>4. s.target \in Int
  BY DEF Saver
<1> DEFINE later == SaverLater(s, slip)
<1> HIDE DEF later
<1>5. later \in Saver
  BY <1>2 DEF later
<1>6. [later EXCEPT !.lastSent = s.target, !.sentAge = slip] \in Saver
  BY <1>1, <1>4, <1>5 DEF Saver
<1>7. QED
  BY <1>2, <1>3, <1>5, <1>6 DEF SentTarget, Saver, later

\* One call of the loop's half of update().
LEMMA UpdateLoopSound ==
  ASSUME NEW s, NEW w, Sound(s, w), s.strategy = "loop",
         NEW e, Live(e), NEW t \in Tuning, NEW k \in Nat,
         NEW r \in UpdateLoop(s, w, e, t, k)
  PROVE  /\ Sound(r.s, r.w) /\ r.s.active = s.active
         /\ r.s.strategy = "loop" /\ r.s.used = e.seq /\ r.s.uses = 1
<1> DEFINE timed == TimeZero(Integrate(s, e, t.maxPower))
<1>1. t.maxPower \in Nat
  BY ControlAssumption DEF Tuning
<1>2. /\ timed \in Saver /\ timed.strategy = "loop" /\ timed.active = s.active
      /\ timed.used = e.seq /\ timed.lastSeq = e.seq /\ timed.uses = 1
  BY <1>1, IntegrateTyped, TimeZeroTyped DEF Sound
<1> HIDE DEF timed
<1>3. CASE r = Result(timed, w)
  BY <1>2, <1>3 DEF Result, Sound, LoopUse, ProbeLeft
<1>4. CASE \E slip \in 0 .. MaxSlip : r \in SendTarget(timed, w, slip, k)
  <2>1. PICK slip \in 0 .. MaxSlip : r \in SendTarget(timed, w, slip, k)
    BY <1>4
  <2>2. PICK q \in SendPassiveRange(Later(w, slip), timed.target, timed.target, k) :
           r = Result(SentTarget(timed, slip, q.ok), q.w)
    BY <2>1 DEF SendTarget, SentTarget
  <2>3. Later(w, slip) \in WritePath /\ Coherent(Later(w, slip))
    BY SaverAssumption, LaterTyped DEF Sound
  <2>4. timed.target \in Int
    BY <1>2 DEF Saver
  <2>5. q.w \in WritePath /\ Coherent(q.w)
    BY <2>3, <2>4, SendTyped
  <2>6. r.s = SentTarget(timed, slip, q.ok) /\ r.w = q.w
    BY <2>2 DEF Result
  <2>7. QED
    BY <1>2, <2>5, <2>6, SentTyped DEF Sound, LoopUse, ProbeLeft
<1>5. QED
  BY <1>3, <1>4 DEF UpdateLoop, timed

\* A saver in the native window and the register it stands for.
Window(s, w) == s.strategy = "native" /\ w.valid => w.reg = <<0, s.target>>

\* What a call of update() that was not cut short leaves behind.
Outcome(r, s, e) ==
  /\ Sound(r.s, r.w) /\ r.s.active = s.active /\ Window(r.s, r.w)
  /\ r.s.strategy = "loop" => r.s.used = e.seq /\ r.s.uses = 1

\* Starting Option B forgets every sample of Option A.
LEMMA FallbackTyped ==
  ASSUME NEW s \in Saver
  PROVE  /\ LoopFallback(s) \in Saver /\ LoopFallback(s).strategy = "loop"
         /\ LoopFallback(s).active = s.active /\ LoopUse(LoopFallback(s))
<1>1. 0 \in 0 .. 2 /\ 0 \in Nat /\ -1 \in Int /\ 0 \in Int
  OBVIOUS
<1>2. LoopFallback(s) \in Saver
  BY <1>1 DEF LoopFallback, Saver
<1>3. QED
  BY <1>2 DEF LoopFallback, Saver, LoopUse

\* The native window aims at the ceiling, whatever samples say of it.
Aimed(s, x) == [s EXCEPT !.target = x]

Counted(s, q, n) == [s EXCEPT !.lastSeq = q, !.streak = n]

\* The native window was given its present size.
LEMMA AimedTyped ==
  ASSUME NEW s \in Saver, NEW x \in Int
  PROVE  /\ Aimed(s, x) \in Saver /\ Aimed(s, x).strategy = s.strategy
         /\ Aimed(s, x).active = s.active /\ Aimed(s, x).target = x
         /\ Aimed(s, x).streak = s.streak
  BY DEF Aimed, Saver

\* A sample was counted in the streak of violations.
LEMMA CountedTyped ==
  ASSUME NEW s \in Saver, NEW q \in Nat, NEW n \in 0 .. 255
  PROVE  /\ Counted(s, q, n) \in Saver /\ Counted(s, q, n).strategy = s.strategy
         /\ Counted(s, q, n).active = s.active
         /\ Counted(s, q, n).target = s.target
  BY DEF Counted, Saver

\* Watching the native window neither ends it nor changes its size.
LEMMA CountStreakTyped ==
  ASSUME NEW s \in Saver, NEW e, Live(e), NEW t \in Tuning,
         NEW c, c = CountStreak([s EXCEPT !.target = t.maxPower], e, t)
  PROVE  /\ c \in Saver /\ c.strategy = s.strategy /\ c.active = s.active
         /\ c.target = t.maxPower
<1> DEFINE a == Aimed(s, t.maxPower)
           n == NextStreak(a.streak, NativeWindowViolated(e, t.maxPower, t.minDelta))
<1>1. t.maxPower \in Int /\ e.seq \in Nat
  BY ControlAssumption, LiveTyped DEF Tuning
<1>2. /\ a \in Saver /\ a.strategy = s.strategy /\ a.active = s.active
      /\ a.target = t.maxPower
  BY <1>1, AimedTyped
<1>3. n \in 0 .. 255
  BY <1>2 DEF NextStreak, Saver
<1>4. c = Counted(a, e.seq, n) \/ c = a
  BY DEF CountStreak, Counted, Aimed
<1> HIDE DEF n, a
<1>5. /\ Counted(a, e.seq, n) \in Saver
      /\ Counted(a, e.seq, n).strategy = a.strategy
      /\ Counted(a, e.seq, n).active = a.active
      /\ Counted(a, e.seq, n).target = a.target
  BY <1>1, <1>2, <1>3, CountedTyped, ZenonT(40)
<1>6. QED
  BY <1>2, <1>4, <1>5

\* One call of the native half of update(), once the window was asserted.
LEMMA NativeStepSound ==
  ASSUME NEW s \in Saver, s.strategy = "native",
         NEW e, Live(e), NEW t \in Tuning, NEW k \in Nat,
         NEW w \in WritePath, Coherent(w), w.valid => w.reg = <<0, t.maxPower>>,
         NEW r \in NativeStep(s, w, e, t, k)
  PROVE  Outcome(r, s, e)
<1> DEFINE c == CountStreak([s EXCEPT !.target = t.maxPower], e, t)
<1>1. /\ c \in Saver /\ c.strategy = "native" /\ c.active = s.active
      /\ c.target = t.maxPower
  BY CountStreakTyped
<1>2. CASE r = Result(c, w)
  BY <1>1, <1>2 DEF Result, Outcome, Sound, LoopUse, ProbeLeft, Window
<1>3. CASE r \in UpdateLoop(LoopFallback(c), w, e, t, k)
  <2>1. Sound(LoopFallback(c), w) /\ LoopFallback(c).strategy = "loop"
    BY <1>1, FallbackTyped DEF Sound, ProbeLeft
  <2>2. /\ Sound(r.s, r.w) /\ r.s.active = LoopFallback(c).active
        /\ r.s.strategy = "loop" /\ r.s.used = e.seq /\ r.s.uses = 1
    BY <1>3, <2>1, UpdateLoopSound
  <2>3. QED
    BY <1>1, <2>2, FallbackTyped DEF Outcome, Window
<1>4. QED
  BY <1>2, <1>3 DEF NativeStep

\* One call of the native half of update().
LEMMA UpdateNativeSound ==
  ASSUME NEW s, NEW w, Sound(s, w), s.strategy = "native",
         NEW e, Live(e), NEW t \in Tuning, NEW k \in Nat,
         NEW r \in UpdateNative(s, w, e, t, k)
  PROVE  Outcome(r, s, e)
<1>1. t.maxPower \in Int
  BY ControlAssumption DEF Tuning
<1>2. PICK q \in SendPassiveRange(w, 0, t.maxPower, k) :
         r \in NativeStep(s, q.w, e, t, k)
  BY DEF UpdateNative
<1>3. /\ q.w \in WritePath /\ q.ok \in BOOLEAN
      /\ Coherent(w) => Coherent(q.w)
      /\ Coherent(w) /\ q.ok => q.w.valid /\ q.w.reg = <<0, t.maxPower>>
      /\ ~q.ok => ~q.w.valid
  <2>1. w \in WritePath /\ 0 \in Int
    BY DEF Sound
  <2>2. QED
    BY <1>1, <2>1, SendTyped
<1>4. QED
  BY <1>2, <1>3, NativeStepSound DEF Sound

\* A refused probe.
LEMMA RefusedTyped ==
  ASSUME NEW s \in Saver, NEW n \in 0 .. ProbeLimit
  PROVE  /\ [s EXCEPT !.probes = n] \in Saver
         /\ [s EXCEPT !.probes = n].strategy = s.strategy
         /\ [s EXCEPT !.probes = n].active = s.active
  BY DEF Saver

\* An accepted probe.
AcceptedProbe(s, x, q) ==
  [s EXCEPT !.strategy = "native", !.target = x, !.lastSeq = q, !.streak = 0]

\* The inverter acknowledged the probe.
LEMMA AcceptedTyped ==
  ASSUME NEW s \in Saver, NEW x \in Int, NEW q \in Nat
  PROVE  /\ AcceptedProbe(s, x, q) \in Saver
         /\ AcceptedProbe(s, x, q).strategy = "native"
         /\ AcceptedProbe(s, x, q).active = s.active
         /\ AcceptedProbe(s, x, q).target = x
<1>1. 0 \in 0 .. 255
  OBVIOUS
<1>2. AcceptedProbe(s, x, q) \in Saver
  BY <1>1 DEF AcceptedProbe, Saver
<1>3. QED
  BY <1>2 DEF AcceptedProbe, Saver

\* One call of the probing half of update().
LEMMA UpdateProbingSound ==
  ASSUME NEW s, NEW w, Sound(s, w), s.strategy = "probing",
         NEW e, Live(e), NEW t \in Tuning, NEW k \in Nat,
         NEW r \in UpdateProbing(s, w, e, t, k)
  PROVE  Outcome(r, s, e)
<1>1. t.maxPower \in Int /\ e.seq \in Nat
  BY ControlAssumption, LiveTyped DEF Tuning
<1>2. PICK q \in SendPassiveRange(w, 0, t.maxPower, k) :
         r \in ProbeStep(s, q, e, t, k)
  BY DEF UpdateProbing
<1>3. /\ q.w \in WritePath /\ q.ok \in BOOLEAN
      /\ Coherent(w) => Coherent(q.w)
      /\ Coherent(w) /\ q.ok => q.w.valid /\ q.w.reg = <<0, t.maxPower>>
  <2>1. w \in WritePath /\ 0 \in Int
    BY DEF Sound
  <2>2. QED
    BY <1>1, <2>1, SendTyped
<1> DEFINE failed == [s EXCEPT !.probes = s.probes + 1]
<1>4. /\ failed \in Saver /\ failed.strategy = "probing"
      /\ failed.active = s.active /\ failed.probes = s.probes + 1
  <2>1. s.probes + 1 \in 0 .. ProbeLimit
    BY DEF Sound, ProbeLeft, Saver, ProbeLimit
  <2>2. failed.probes = s.probes + 1
    BY DEF Sound, Saver
  <2>3. QED
    BY <2>1, <2>2, RefusedTyped DEF Sound
<1>5. CASE q.ok
  <2>1. r = Result(AcceptedProbe(s, t.maxPower, e.seq), q.w)
    BY <1>2, <1>5 DEF ProbeStep, AcceptedProbe
  <2>2. /\ AcceptedProbe(s, t.maxPower, e.seq) \in Saver
        /\ AcceptedProbe(s, t.maxPower, e.seq).strategy = "native"
        /\ AcceptedProbe(s, t.maxPower, e.seq).active = s.active
        /\ AcceptedProbe(s, t.maxPower, e.seq).target = t.maxPower
    BY <1>1, AcceptedTyped DEF Sound
  <2>3. QED
    BY <1>3, <1>5, <2>1, <2>2
    DEF Result, Outcome, Sound, LoopUse, ProbeLeft, Window
<1>6. CASE ~q.ok /\ failed.probes < ProbeLimit
  <2>1. r = Result(failed, q.w)
    BY <1>2, <1>6 DEF ProbeStep
  <2>2. QED
    BY <1>3, <1>4, <1>6, <2>1
    DEF Result, Outcome, Sound, LoopUse, ProbeLeft, Window
<1>7. CASE ~q.ok /\ ~(failed.probes < ProbeLimit)
  <2>1. r \in UpdateLoop(LoopFallback(failed), q.w, e, t, k)
    BY <1>2, <1>7 DEF ProbeStep
  <2> HIDE DEF failed
  <2>2. Sound(LoopFallback(failed), q.w)
    BY <1>3, <1>4, FallbackTyped DEF Sound, ProbeLeft
  <2>3. /\ Sound(r.s, r.w) /\ r.s.active = LoopFallback(failed).active
        /\ r.s.strategy = "loop" /\ r.s.used = e.seq /\ r.s.uses = 1
    BY <1>4, <2>1, <2>2, UpdateLoopSound, FallbackTyped
  <2>4. QED
    BY <1>4, <2>3, FallbackTyped DEF Outcome, Window
<1>8. QED
  BY <1>3, <1>5, <1>6, <1>7

\* update() as a whole, with the saver on and a live reading.
LEMMA UpdateSound ==
  ASSUME NEW s, NEW w, Sound(s, w), s.active,
         NEW e, Live(e), e.valid, NEW t \in Tuning, NEW k \in Nat,
         NEW r \in Update(s, w, e, t, k)
  PROVE  Outcome(r, s, e)
<1>1. \/ s.strategy = "probing" /\ r \in UpdateProbing(s, w, e, t, k)
      \/ s.strategy = "native" /\ r \in UpdateNative(s, w, e, t, k)
      \/ s.strategy = "loop" /\ r \in UpdateLoop(s, w, e, t, k)
  BY DEF Update, Sound, Saver
<1>2. CASE s.strategy = "probing" /\ r \in UpdateProbing(s, w, e, t, k)
  BY <1>2, UpdateProbingSound
<1>3. CASE s.strategy = "native" /\ r \in UpdateNative(s, w, e, t, k)
  BY <1>3, UpdateNativeSound
<1>4. CASE s.strategy = "loop" /\ r \in UpdateLoop(s, w, e, t, k)
  <2>1. /\ Sound(r.s, r.w) /\ r.s.active = s.active
        /\ r.s.strategy = "loop" /\ r.s.used = e.seq /\ r.s.uses = 1
    BY <1>4, UpdateLoopSound
  <2>2. QED
    BY <2>1 DEF Outcome, Window
<1>5. QED
  BY <1>1, <1>2, <1>3, <1>4

\* update() with the saver off, or without a reading.
LEMMA UpdateIdle ==
  ASSUME NEW s, NEW w, NEW e, ~s.active \/ ~e.valid, NEW t, NEW k,
         NEW r \in Update(s, w, e, t, k)
  PROVE  r.s = s /\ r.w = w
<1>1. Update(s, w, e, t, k) = {Result(s, w)}
  BY Zenon DEF Update
<1>2. r = Result(s, w)
  BY <1>1
<1>3. QED
  BY <1>2 DEF Result

-----------------------------------------------------------------------------
(* The other parts of the control stack.                                   *)

\* What a clamp is for.
LEMMA ClampTyped == ASSUME NEW v \in Int, NEW lo \in Int, NEW hi \in Int, lo <= hi
                    PROVE  Clamp(v, lo, hi) \in lo .. hi
  BY DEF Clamp

\* What the timeout register is turned into.
LEMMA KeepaliveTyped == ASSUME NEW raw \in Nat
                        PROVE  KeepaliveFor(raw) \in 0 .. KeepaliveMax
  BY CacheAssumption, ClampTyped DEF KeepaliveFor, SetKeepaliveMs

\* Tuning that was asked for, or read back, is clamped.
LEMMA TuningTyped ==
  ASSUME NEW t, t.minDelta \in Int, t.maxPower \in Int, t.idleLapse \in Int
  PROVE  ClampTuning(t) \in Tuning
<1>0. /\ DeltaMin \in Int /\ DeltaMax \in Int /\ DeltaMin <= DeltaMax
      /\ LapseMin \in Int /\ LapseMax \in Int /\ LapseMin <= LapseMax
      /\ PowerCap \in Int /\ 0 \in Int /\ 0 <= PowerCap
  BY ControlAssumption
<1>1. Clamp(t.minDelta, DeltaMin, DeltaMax) \in DeltaMin .. DeltaMax
  BY <1>0, ClampTyped
<1>2. Clamp(t.maxPower, 0, PowerCap) \in 0 .. PowerCap
  BY <1>0, ClampTyped
<1>3. Clamp(t.idleLapse, LapseMin, LapseMax) \in LapseMin .. LapseMax
  BY <1>0, ClampTyped
<1>4. QED
  BY <1>1, <1>2, <1>3 DEF ClampTuning, Tuning

\* The counter of samples stays in its width and, once a grid block was read,
\* never shows 0 again.
LEMMA NextSeqTyped == ASSUME NEW seq \in 0 .. SeqMod - 1
                      PROVE  NextSeq(seq) \in 1 .. SeqMod - 1
  BY LinkAssumption DEF NextSeq

\* Before the first sample the link is down.
Counting(e) == e.seq = 0 => ~e.valid /\ e.err

\* A poll step counts a sample before it calls the link up, and an outage does
\* not make it forget that there was one.
LEMMA PollTyped ==
  ASSUME NEW e \in LinkData, Counting(e), NEW f \in PollOutcomes(e)
  PROVE  f \in LinkData /\ Counting(f) /\ (e.seq # 0 => f.seq # 0)
<1>1. CASE f = Down(e)
  BY <1>1 DEF Down, LinkData, Counting
<1>2. CASE \E g \in Grids : f = GridRead(e, g)
  <2>1. PICK g \in Grids : f = GridRead(e, g)
    BY <1>2
  <2>2. NextSeq(e.seq) \in 0 .. SeqMod - 1 /\ NextSeq(e.seq) # 0
    BY LinkAssumption, NextSeqTyped DEF LinkData
  <2>3. QED
    BY <2>1, <2>2, LinkAssumption DEF GridRead, LinkData, Counting
<1>3. CASE f = e
  BY <1>3
<1>4. CASE f = BattLost(e)
  BY <1>4 DEF BattLost, LinkData, Counting
<1>5. CASE \E b \in Batteries : f = BattRead(e, b)
  <2>1. PICK b \in Batteries : f = BattRead(e, b)
    BY <1>5
  <2>2. b.batt \in Int /\ b.soc \in Nat
    BY LinkAssumption
  <2>3. QED
    BY <2>1, <2>2 DEF BattRead, LinkData, Counting
<1>6. QED
  BY <1>1, <1>2, <1>3, <1>4, <1>5 DEF PollOutcomes

\* The range of a static mode.
LEMMA DesiredTyped == ASSUME NEW c \in Control
                      PROVE  DesiredRange(c)[1] \in Int /\ DesiredRange(c)[2] \in Int
  BY ControlAssumption DEF DesiredRange, Control

\* reconcile keeps the cache true, and leaves the saver's range alone.
LEMMA ReconcileTyped ==
  ASSUME NEW c \in Control, NEW w \in WritePath, NEW e, NEW k \in Nat,
         NEW v \in Reconcile(c, w, e, k)
  PROVE  /\ v \in WritePath /\ (Coherent(w) => Coherent(v))
         /\ c.mode = "battery_saver" => v = w
<1>1. CASE e.err \/ c.mode \notin StaticModes
  BY <1>1 DEF Reconcile
<1>2. CASE ~(e.err \/ c.mode \notin StaticModes)
  <2>1. PICK q \in SendPassiveRange(w, DesiredRange(c)[1], DesiredRange(c)[2], k) :
           v = q.w
    BY <1>2 DEF Reconcile
  <2>2. q.w \in WritePath /\ (Coherent(w) => Coherent(q.w))
    BY DesiredTyped, SendTyped
  <2>3. QED
    BY <1>2, <2>1, <2>2 DEF StaticModes
<1>3. QED
  BY <1>1, <1>2

\* The saver after setMode: off, as it was, or freshly enabled.
LEMMA SwitchTyped ==
  ASSUME NEW s \in Saver, NEW mode, NEW t \in SwitchSaver(s, mode)
  PROVE  /\ t \in Saver
         /\ t.active <=> mode = "battery_saver"
         /\ t = s \/ (t.strategy = "probing" /\ t.probes = 0)
<1>1. SaverOff.strategy = "probing" /\ SaverOff.probes = 0 /\ ~SaverOff.active
  BY DEF SaverOff
<1>2. \A age \in Age : /\ Enabled(age).strategy = "probing"
                       /\ Enabled(age).probes = 0
  BY DEF Enabled, SaverOff
<1>3. QED
  BY <1>1, <1>2, SaverTyped, SaverAssumption DEF SwitchSaver

\* Every command asks for a control state the controller can be in.
LEMMA AskedTyped ==
  ASSUME NEW c \in Control, NEW cmd \in Commands
  PROVE  /\ Asked(c, cmd) \in Control
         /\ Asked(c, cmd).charge \in {c.charge} \cup Charges
<1>1. CASE cmd \in [kind: {"SetMode"}, mode: Modes]
  BY <1>1 DEF Asked, Control
<1>2. CASE cmd \in [kind: {"SaverSwitch"}, on: BOOLEAN]
  BY <1>2 DEF Asked, Control, ModeForSaverSwitch, Modes, StaticModes
<1>3. CASE cmd \in [kind: {"SaverToggle"}]
  BY <1>3 DEF Asked, Control, ModeForSaverSwitch, Modes, StaticModes
<1>4. CASE cmd \in [kind: {"SetCharge"}, value: Charges]
  <2>1. cmd.kind = "SetCharge" /\ cmd.value \in Charges /\ cmd.value \in Int
    <3>1. cmd.kind = "SetCharge" /\ cmd.value \in Charges
      BY <1>4
    <3>2. cmd.value \in -PowerCap .. PowerCap
      BY <3>1, ControlAssumption
    <3>3. QED
      BY <3>1, <3>2
  <2>2. Asked(c, cmd) = [c EXCEPT !.mode = "charge", !.charge = cmd.value]
    BY <2>1 DEF Asked
  <2>3. "charge" \in Modes
    BY DEF Modes, StaticModes
  <2>4. QED
    BY <2>1, <2>2, <2>3 DEF Control
<1>5. CASE cmd \in [kind: {"SetAuto"}, value: AutoLimits]
  BY <1>5, ControlAssumption DEF Asked, Control, Modes, StaticModes
<1>6. QED
  BY <1>1, <1>2, <1>3, <1>4, <1>5 DEF Commands

\* The EEPROM holds what the controller can be in, and gives it back.
LEMMA SavedTyped ==
  ASSUME NEW c \in Control, NEW t \in Tuning
  PROVE  Saved(c, t) \in Flash /\ Saved(c, t).tun = t
  BY DEF Saved, Flash, Control

\* An erased EEPROM, and one of an older firmware, are EEPROM images.
LEMMA BlankTyped ==
  \A f \in {Blank, Upgraded} :
    f \in Flash /\ f.tun = TunDefault /\ f.mode = ""
<1>1. TunDefault \in Tuning /\ Unwritten \in Int
  BY ControlAssumption DEF Unwritten
<1>2. Blank \in Flash /\ Blank.tun = TunDefault /\ Blank.mode = ""
  BY <1>1 DEF Blank, Flash
<1>3. \A f \in Flash : /\ [f EXCEPT !.magic = TRUE] \in Flash
                       /\ [f EXCEPT !.magic = TRUE].tun = f.tun
                       /\ [f EXCEPT !.magic = TRUE].mode = f.mode
  BY Zenon DEF Flash
<1>4. Upgraded \in Flash /\ Upgraded.tun = TunDefault /\ Upgraded.mode = ""
  BY <1>2, <1>3 DEF Upgraded
<1>5. QED
  BY <1>2, <1>4

\* Whatever the EEPROM holds, restore() makes a control state of it.
LEMMA RestoredTyped == ASSUME NEW f \in Flash PROVE Restored(f) \in Control
<1>1. AutoDefault \in 1 .. PowerCap /\ "auto" \in Modes
  BY ControlAssumption DEF Modes, StaticModes
<1>2. LoadField(f.auto, AutoDefault) \in 1 .. PowerCap
  BY <1>1 DEF LoadField, Flash
<1>3. LoadField(f.charge, 0) \in Int
  <2>1. f.charge \in Int /\ 0 \in Int
    <3>1. f.charge \in Int
      BY Zenon DEF Flash
    <3>2. 0 \in Int
      OBVIOUS
    <3>3. QED
      BY <3>1, <3>2
  <2>2. QED
    BY <2>1 DEF LoadField
<1>4. CASE ~f.magic
  BY <1>1, <1>4 DEF Restored, Control
<1>5. CASE f.magic
  BY <1>1, <1>2, <1>3, <1>5 DEF Restored, Control
<1>6. QED
  BY <1>4, <1>5 DEF Flash

\* A commit that is cut short leaves an EEPROM image, with each tuning field
\* as it was to be written or at its default.
LEMMA CutTyped ==
  ASSUME NEW f \in Flash, NEW n \in 0 .. 6
  PROVE  /\ CutShort(f, n) \in Flash
         /\ CutShort(f, n).tun \in Tuning
         /\ CutShort(f, n).tun.maxPower \in {f.tun.maxPower, TunDefault.maxPower}
<1>1. TunDefault \in Tuning /\ f.tun \in Tuning
  BY ControlAssumption DEF Flash
<1>2. CutShort(f, n).tun =
        [minDelta  |-> IF n > 1 THEN f.tun.minDelta ELSE TunDefault.minDelta,
         maxPower  |-> IF n > 2 THEN f.tun.maxPower ELSE TunDefault.maxPower,
         idleLapse |-> IF n > 3 THEN f.tun.idleLapse ELSE TunDefault.idleLapse]
  BY DEF CutShort
<1>3. CutShort(f, n).tun \in Tuning
  BY <1>1, <1>2 DEF Tuning
<1>4. CutShort(f, n).tun.maxPower \in {f.tun.maxPower, TunDefault.maxPower}
  BY <1>2
<1>5. f.mode \in Modes \cup {""} /\ f.charge \in Int /\ Unwritten \in Int
  <2>1. f.mode \in Modes \cup {""} /\ f.charge \in Int
    BY Zenon DEF Flash
  <2>2. Unwritten \in Int
    BY DEF Unwritten
  <2>3. QED
    BY <2>1, <2>2
<1>6. CutShort(f, n) =
        [magic |-> n > 0, tun |-> CutShort(f, n).tun,
         mode |-> IF n > 4 THEN f.mode ELSE "",
         charge |-> IF n > 5 THEN f.charge ELSE Unwritten,
         auto |-> Unwritten]
  BY DEF CutShort
<1>7. /\ (n > 0) \in BOOLEAN
      /\ (IF n > 4 THEN f.mode ELSE "") \in Modes \cup {""}
      /\ (IF n > 5 THEN f.charge ELSE Unwritten) \in Int
  <2>1. (n > 0) \in BOOLEAN
    OBVIOUS
  <2>2. (IF n > 4 THEN f.mode ELSE "") \in Modes \cup {""}
    BY <1>5
  <2>3. (IF n > 5 THEN f.charge ELSE Unwritten) \in Int
    BY <1>5
  <2>4. QED
    BY <2>1, <2>2, <2>3, Zenon
<1>8. CutShort(f, n) \in Flash
  <2>1. Unwritten \in {Unwritten} \cup 1 .. PowerCap
    OBVIOUS
  <2>2. \A m, b, x, y : m \in BOOLEAN /\ b \in Modes \cup {""} /\ x \in Int /\ y \in Tuning
          => [magic |-> m, tun |-> y, mode |-> b, charge |-> x,
              auto |-> Unwritten] \in Flash
    BY <2>1, Zenon DEF Flash
  <2>3. QED
    BY <1>3, <1>6, <1>7, <2>2, Zenon
<1>9. QED
  BY <1>3, <1>4, <1>8

\* What is to be left of a control state is one.
LEMMA LeftTyped ==
  ASSUME NEW c \in Control, NEW n \in 0 .. 6
  PROVE  /\ Left(c, n) \in Control
         /\ Left(c, n).charge \in {c.charge, 0}
<1>1. c.mode \in Modes /\ c.charge \in Int /\ "auto" \in Modes
      /\ AutoDefault \in 1 .. PowerCap
  BY ControlAssumption DEF Control, Modes, StaticModes
<1>2. /\ (IF n > 4 THEN c.mode ELSE "auto") \in Modes
      /\ (IF n > 5 THEN c.charge ELSE 0) \in Int
  BY <1>1
<1>3. Left(c, n).charge = (IF n > 5 THEN c.charge ELSE 0)
  BY DEF Left
<1>4. QED
  BY <1>1, <1>2, <1>3 DEF Left, Control

-----------------------------------------------------------------------------
(* The inductive invariant: the invariants to be shown, what the saver     *)
(* knows of its samples and probes, that a sample is counted before the    *)
(* link is called valid, and that the EEPROM always holds the present      *)
(* control state.                                                          *)

IInv ==
  /\ TypeOK /\ CacheCoherent /\ SaverMatchesMode
  /\ SamplesCountOnce /\ NativeWindowHeld
  /\ LoopUse(bs) /\ ProbeLeft(bs) /\ Counting(d)
  /\ flash = Saved(ctl, flash.tun)

\* Whatever is in the EEPROM and the inverter, a boot establishes it.
LEMMA BootIInv ==
  ASSUME timeout \in Nat, want' \in Control,
         NEW f \in Flash, NEW reg \in Range, Boot(f, reg)
  PROVE  IInv'
<1>1. d' \in LinkData /\ Counting(d') /\ d'.valid = FALSE
  BY LinkAssumption DEF Boot, LinkBoot, LinkData, Counting
<1>2. wr' \in WritePath /\ Coherent(wr') /\ wr'.valid = FALSE
  BY ColdTyped DEF Boot, ColdCache
<1>3. keepalive' \in 0 .. KeepaliveMax
  <2>1. 0 \in 0 .. KeepaliveMax
    BY CacheAssumption
  <2>2. QED
    BY <2>1, KeepaliveTyped DEF Boot
<1>4. ctl' \in Control
  BY RestoredTyped DEF Boot
<1>5. f.tun \in Tuning /\ tun' \in Tuning
  <2>1. f.tun \in Tuning
    BY DEF Flash
  <2>2. f.tun.minDelta \in Int /\ f.tun.maxPower \in Int /\ f.tun.idleLapse \in Int
    BY <2>1, ControlAssumption DEF Tuning
  <2>3. QED
    BY <2>1, <2>2, TuningTyped DEF Boot
<1>6. flash' \in Flash /\ flash' = Saved(ctl', flash'.tun)
  BY <1>4, <1>5, SavedTyped DEF Boot
<1>7. /\ bs' \in Saver /\ (bs'.active <=> ctl'.mode = "battery_saver")
      /\ LoopUse(bs') /\ ProbeLeft(bs')
  <2>1. /\ bs' \in Saver /\ (bs'.active <=> ctl'.mode = "battery_saver")
        /\ bs' = SaverOff \/ (bs'.strategy = "probing" /\ bs'.probes = 0)
    BY SaverTyped, SwitchTyped DEF Boot
  <2>2. bs'.strategy = "probing" /\ bs'.probes = 0
    BY <2>1 DEF SaverOff
  <2>3. QED
    BY <2>1, <2>2 DEF LoopUse, ProbeLeft, ProbeLimit
<1>8. timeout' \in Nat
  BY DEF Boot
<1>9. QED
  BY <1>1, <1>2, <1>3, <1>4, <1>5, <1>6, <1>7, <1>8
  DEF IInv, TypeOK, CacheCoherent, SaverMatchesMode, SamplesCountOnce,
      NativeWindowHeld

\* A first boot establishes the invariant.
LEMMA InitIInv == Init => IInv
<1> SUFFICES ASSUME Init PROVE IInv
  OBVIOUS
<1>1. d \in LinkData /\ Counting(d) /\ d.valid = FALSE
  BY LinkAssumption DEF Init, LinkBoot, LinkData, Counting
<1>2. wr \in WritePath /\ Coherent(wr) /\ wr.valid = FALSE
  <2>1. PICK reg \in Leftovers : wr = ColdCache(reg)
    BY DEF Init
  <2>2. reg \in Range
    BY <2>1, ControlAssumption
  <2>3. QED
    BY <2>1, <2>2, ColdTyped DEF ColdCache
<1>3. keepalive \in 0 .. KeepaliveMax /\ timeout \in Nat
  <2>1. 0 \in 0 .. KeepaliveMax
    BY CacheAssumption
  <2>2. timeout \in Nat
    BY ControlAssumption DEF Init
  <2>3. QED
    BY <2>1, <2>2, KeepaliveTyped DEF Init
<1>4. PICK f \in {Blank, Upgraded} : ctl = Restored(f) /\ flash = Saved(ctl, f.tun)
  BY DEF Init
<1>5. f \in Flash /\ f.tun = TunDefault /\ f.mode = ""
  BY BlankTyped
<1>6. ctl \in Control /\ ctl.mode = "auto"
  <2>1. ctl.mode = "auto"
    BY <1>4, <1>5 DEF Restored, Modes, StaticModes
  <2>2. QED
    BY <1>4, <1>5, <2>1, RestoredTyped
<1>7. TunDefault \in Tuning
  BY ControlAssumption
<1>8. flash \in Flash /\ flash = Saved(ctl, flash.tun)
  BY <1>4, <1>5, <1>6, <1>7, SavedTyped
<1>9. tun \in Tuning
  <2>1. /\ TunDefault.minDelta \in Int /\ TunDefault.maxPower \in Int
        /\ TunDefault.idleLapse \in Int
    BY <1>7, ControlAssumption DEF Tuning
  <2>2. QED
    BY <2>1, TuningTyped DEF Init
<1>10. /\ bs \in Saver /\ bs.active = FALSE /\ bs.strategy = "probing"
       /\ bs.probes = 0
  BY SaverTyped DEF Init, SaverOff
<1>11. LoopUse(bs) /\ ProbeLeft(bs)
  BY <1>10 DEF LoopUse, ProbeLeft, ProbeLimit
<1>12. want \in Control
  BY <1>6 DEF Init
<1>13. QED
  BY <1>1, <1>2, <1>3, <1>6, <1>8, <1>9, <1>10, <1>11, <1>12
  DEF IInv, TypeOK, CacheCoherent, SaverMatchesMode, SamplesCountOnce,
      NativeWindowHeld

\* What every step may use of the invariant.
LEMMA Given ==
  ASSUME IInv
  PROVE  /\ d \in LinkData /\ Counting(d)
         /\ wr \in WritePath /\ Coherent(wr) /\ Sound(bs, wr)
         /\ bs \in Saver /\ (bs.active <=> ctl.mode = "battery_saver")
         /\ keepalive \in 0 .. KeepaliveMax /\ keepalive \in Nat
         /\ timeout \in Nat /\ ctl \in Control /\ tun \in Tuning
         /\ flash \in Flash /\ flash.tun \in Tuning
         /\ flash = Saved(ctl, flash.tun) /\ want \in Control
<1>1. keepalive \in 0 .. KeepaliveMax /\ keepalive \in Nat
  BY CacheAssumption DEF IInv, TypeOK
<1>2. flash.tun \in Tuning
  BY Zenon DEF IInv, TypeOK, Flash
<1>3. QED
  BY <1>1, <1>2 DEF IInv, TypeOK, CacheCoherent, SaverMatchesMode, Sound

\* The pieces a step has to deliver.
LEMMA Delivered ==
  ASSUME d' \in LinkData, Counting(d'), Sound(bs', wr'),
         bs'.active <=> ctl'.mode = "battery_saver",
         bs'.active /\ bs'.strategy = "loop" /\ d'.valid
           => bs'.used = d'.seq /\ bs'.uses = 1,
         bs'.active /\ bs'.strategy = "native" /\ wr'.valid
           => wr'.reg = <<0, bs'.target>>,
         keepalive' \in 0 .. KeepaliveMax, timeout' \in Nat, ctl' \in Control,
         tun' \in Tuning, flash' \in Flash, flash' = Saved(ctl', flash'.tun),
         want' \in Control
  PROVE  IInv'
  BY DEF IInv, TypeOK, CacheCoherent, SaverMatchesMode, SamplesCountOnce,
         NativeWindowHeld, Sound

\* The control task: a poll step and a tick of the present mode.
LEMMA TickIInv == ASSUME IInv, ControlTick PROVE IInv'
<1> USE Given
<1>1. d' \in LinkData /\ Counting(d')
  BY PollTyped DEF ControlTick
<1>2. /\ Sound(bs', wr') /\ bs'.active = bs.active
      /\ bs'.active /\ bs'.strategy = "loop" /\ d'.valid
           => bs'.used = d'.seq /\ bs'.uses = 1
      /\ bs'.active /\ bs'.strategy = "native" /\ wr'.valid
           => wr'.reg = <<0, bs'.target>>
  <2>1. CASE ctl.mode = "battery_saver"
    <3>1. PICK r \in Update(bs, wr, d', tun, keepalive) : bs' = r.s /\ wr' = r.w
      BY <2>1 DEF ControlTick
    <3>2. CASE d'.valid
      <4>1. Live(d')
        BY <1>1, <3>2 DEF Live, Counting
      <4>2. Outcome(r, bs, d')
        BY <2>1, <3>2, <4>1, UpdateSound
      <4>3. QED
        BY <3>1, <4>2 DEF Outcome, Window
    <3>3. CASE ~d'.valid
      <4>1. bs' = bs /\ wr' = wr
        BY <3>1, <3>3, UpdateIdle
      <4>2. QED
        BY <3>3, <4>1 DEF IInv, NativeWindowHeld
    <3>4. QED
      BY <3>2, <3>3
  <2>2. CASE ctl.mode # "battery_saver"
    <3>1. bs' = bs /\ wr' \in Reconcile(ctl, wr, d', keepalive)
      BY <2>2 DEF ControlTick
    <3>2. wr' \in WritePath /\ Coherent(wr')
      BY <3>1, ReconcileTyped
    <3>3. QED
      BY <2>2, <3>1, <3>2 DEF Sound
  <2>3. QED
    BY <2>1, <2>2
<1>3. QED
  BY <1>1, <1>2, Delivered DEF ControlTick

\* The write path as reconcile leaves it inside a command.
LEMMA IncomingTyped ==
  ASSUME IInv, NEW c \in Control, NEW v \in Reconcile(c, Incoming(c), d, keepalive)
  PROVE  /\ Incoming(c) \in WritePath /\ v \in WritePath /\ Coherent(v)
         /\ v.reg \in Range
         /\ c.mode = "battery_saver" => v = Incoming(c)
<1>1. Incoming(c) \in WritePath /\ Coherent(Incoming(c))
  BY Given, UnwornTyped DEF Incoming
<1>2. v \in WritePath /\ Coherent(v) /\ (c.mode = "battery_saver" => v = Incoming(c))
  BY <1>1, Given, ReconcileTyped
<1>3. v.reg \in Range
  BY <1>2 DEF WritePath
<1>4. QED
  BY <1>1, <1>2, <1>3

\* A command, whatever it asks for.
LEMMA ApplyIInv == ASSUME IInv, NEW cmd \in Commands, Apply(cmd) PROVE IInv'
<1> USE Given
<1>1. ctl' \in Control /\ want' \in Control
  BY AskedTyped DEF Apply
<1>2. wr' \in WritePath /\ Coherent(wr')
      /\ (ctl'.mode = "battery_saver" => wr' = Incoming(ctl'))
  BY <1>1, IncomingTyped DEF Apply
<1>3. /\ bs' \in Saver /\ (bs'.active <=> ctl'.mode = "battery_saver")
      /\ bs' = bs \/ (bs'.strategy = "probing" /\ bs'.probes = 0)
  BY SwitchTyped DEF Apply
<1>4. LoopUse(bs') /\ ProbeLeft(bs')
  BY <1>3 DEF Sound, LoopUse, ProbeLeft, ProbeLimit
<1>5. Sound(bs', wr')
  BY <1>2, <1>3, <1>4 DEF Sound
<1>6. flash' \in Flash /\ flash' = Saved(ctl', flash'.tun)
  BY <1>1, SavedTyped DEF Apply
<1>7. bs'.active /\ bs'.strategy = "loop" /\ d'.valid
        => bs'.used = d'.seq /\ bs'.uses = 1
  BY <1>3 DEF Apply, IInv, SamplesCountOnce
<1>8. bs'.active /\ bs'.strategy = "native" /\ wr'.valid
        => wr'.reg = <<0, bs'.target>>
  <2>1. wr' = Incoming(ctl') => wr'.valid = wr.valid /\ wr'.reg = wr.reg
    BY DEF Incoming, Unworn, WritePath
  <2>2. QED
    BY <1>2, <1>3, <2>1 DEF IInv, NativeWindowHeld
<1>9. QED
  BY <1>1, <1>3, <1>5, <1>6, <1>7, <1>8, Delivered DEF Apply

\* Tuning is stored beside the control state.
LEMMA RetunedSaved == ASSUME NEW c, NEW t, NEW u
                      PROVE  [Saved(c, t) EXCEPT !.tun = u] = Saved(c, u)
<1>1. \A m, mode, charge, auto :
        [[magic |-> m, mode |-> mode, charge |-> charge, auto |-> auto,
          tun |-> t] EXCEPT !.tun = u]
        = [magic |-> m, mode |-> mode, charge |-> charge, auto |-> auto,
           tun |-> u]
  OBVIOUS
<1>2. QED
  BY <1>1, Zenon DEF Saved

\* New tuning leaves what was claimed of the inverter alone.
LEMMA TuneIInv == ASSUME IInv, NEW t \in Tunings, Tune(t) PROVE IInv'
<1> USE Given
<1>1. tun' \in Tuning
  <2>1. t.minDelta \in Int /\ t.maxPower \in Int /\ t.idleLapse \in Int
    BY ControlAssumption
  <2>2. QED
    BY <2>1, TuningTyped DEF Tune
<1>2. wr' \in WritePath /\ Coherent(wr') /\ wr'.valid = wr.valid /\ wr'.reg = wr.reg
  BY UnwornTyped DEF Tune, Unworn, WritePath
<1>3. flash' = Saved(ctl, tun')
  <2>1. [Saved(ctl, flash.tun) EXCEPT !.tun = tun'] = Saved(ctl, tun')
    BY RetunedSaved
  <2>2. QED
    BY <2>1 DEF Tune
<1>4. flash' \in Flash /\ flash' = Saved(ctl', flash'.tun)
  BY <1>1, <1>3, SavedTyped DEF Tune
<1>5. Sound(bs', wr')
  BY <1>2 DEF Sound, Tune
<1>6. QED
  BY <1>1, <1>2, <1>4, <1>5, Delivered
  DEF Tune, IInv, SamplesCountOnce, NativeWindowHeld

\* So does a look at the timeout register.
LEMMA ReadIInv == ASSUME IInv, ReadPassiveTimeout PROVE IInv'
<1>1. keepalive' \in 0 .. KeepaliveMax
  BY Given, KeepaliveTyped DEF ReadPassiveTimeout
<1>2. QED
  BY <1>1 DEF ReadPassiveTimeout, IInv, TypeOK, CacheCoherent,
              SaverMatchesMode, SamplesCountOnce, NativeWindowHeld

\* Time alone changes no claim.
LEMMA AdvanceIInv == ASSUME IInv, Advance PROVE IInv'
<1> USE Given
<1>1. wr' \in WritePath /\ Coherent(wr') /\ wr'.valid = wr.valid /\ wr'.reg = wr.reg
  BY LaterTyped DEF Advance, Later, WritePath
<1>2. /\ bs' \in Saver /\ bs'.active = bs.active
      /\ bs'.strategy = bs.strategy /\ bs'.target = bs.target
      /\ bs'.used = bs.used /\ bs'.uses = bs.uses
      /\ bs'.lastSeq = bs.lastSeq /\ bs'.probes = bs.probes
  <2>1. /\ SaverLater(bs, 1) \in Saver
        /\ SaverLater(bs, 1).active = bs.active
    BY SaverTyped
  <2>2. /\ SaverLater(bs, 1).strategy = bs.strategy
        /\ SaverLater(bs, 1).target = bs.target
        /\ SaverLater(bs, 1).used = bs.used /\ SaverLater(bs, 1).uses = bs.uses
        /\ SaverLater(bs, 1).lastSeq = bs.lastSeq
        /\ SaverLater(bs, 1).probes = bs.probes
    BY DEF SaverLater, Saver
  <2>3. QED
    BY <2>1, <2>2 DEF Advance
<1>3. Sound(bs', wr')
  BY <1>1, <1>2 DEF Sound, LoopUse, ProbeLeft
<1>4. QED
  BY <1>1, <1>2, <1>3, Delivered DEF Advance, IInv, SamplesCountOnce, NativeWindowHeld

\* The reset actions start from a register the inverter can hold.
LEMMA ResetIInv == ASSUME IInv, Reset PROVE IInv'
<1> USE Given
<1>1. PICK reg \in {wr.reg} \cup UNION {Underway(c) : c \in AskedNow} :
        Boot(flash, reg)
  BY DEF Reset
<1>2. reg \in Range
  BY <1>1, AskedTyped, IncomingTyped DEF Underway, AskedNow, WritePath
<1>3. want' \in Control
  BY DEF Reset
<1>4. QED
  BY <1>1, <1>2, <1>3, BootIInv

\* A commit under way writes an EEPROM image that holds a control state: the
\* present one, or that of the command being saved.
LEMMA CommitTyped ==
  ASSUME IInv, NEW x \in Commits
  PROVE  /\ x.ctl \in Control /\ x.ctl.charge \in {ctl.charge} \cup Charges
         /\ x.image \in Flash /\ x.image = Saved(x.ctl, x.image.tun)
         /\ x.image.tun \in {flash.tun} \cup {ClampTuning(t) : t \in Tunings}
         /\ x.reg \in Range
<1> USE Given
<1>0. wr.reg \in Range
  BY DEF WritePath
<1>1. CASE x = Commit(ctl, flash, wr.reg)
  BY <1>0, <1>1 DEF Commit
<1>2. CASE x \in {Commit(ctl, [flash EXCEPT !.tun = ClampTuning(t)], wr.reg) : t \in Tunings}
  <2>1. PICK t \in Tunings :
          x = Commit(ctl, [flash EXCEPT !.tun = ClampTuning(t)], wr.reg)
    BY <1>2
  <2>2. ClampTuning(t) \in Tuning
    <3>1. t.minDelta \in Int /\ t.maxPower \in Int /\ t.idleLapse \in Int
      BY ControlAssumption
    <3>2. QED
      BY <3>1, TuningTyped
  <2>3. [Saved(ctl, flash.tun) EXCEPT !.tun = ClampTuning(t)]
          = Saved(ctl, ClampTuning(t))
    BY RetunedSaved
  <2>4. x.ctl = ctl /\ x.image = Saved(ctl, ClampTuning(t)) /\ x.reg = wr.reg
    BY <2>1, <2>3 DEF Commit
  <2>5. x.image \in Flash /\ x.image.tun = ClampTuning(t)
    BY <2>2, <2>4, SavedTyped
  <2>6. QED
    BY <1>0, <2>4, <2>5
<1>3. CASE x \in UNION {{Commit(c, Saved(c, flash.tun), reg) : reg \in Underway(c)} :
                          c \in AskedNow}
  <2>1. PICK c \in AskedNow :
          x \in {Commit(c, Saved(c, flash.tun), reg) : reg \in Underway(c)}
    BY <1>3
  <2>2. c \in Control /\ c.charge \in {ctl.charge} \cup Charges
    BY AskedTyped DEF AskedNow
  <2>3. PICK reg \in Underway(c) : x = Commit(c, Saved(c, flash.tun), reg)
    BY <2>1
  <2>4. reg \in Range /\ x.ctl = c /\ x.reg = reg
        /\ x.image = Saved(c, flash.tun)
    BY <2>2, <2>3, IncomingTyped DEF Underway, Commit
  <2>5. x.image \in Flash /\ x.image.tun = flash.tun
    BY <2>2, <2>4, SavedTyped
  <2>6. QED
    BY <2>2, <2>4, <2>5
<1>4. QED
  BY <1>1, <1>2, <1>3 DEF Commits

\* What a power cut leaves of one.
LEMMA CutAtIs ==
  ASSUME NEW x, NEW n
  PROVE  /\ CutAt(x, n).ctl = Left(x.ctl, n)
         /\ CutAt(x, n).image = CutShort(x.image, n)
         /\ CutAt(x, n).reg = x.reg
  BY DEF CutAt, Commit

\* Losing the configuration, or the end of it, establishes the invariant as well.
LEMMA ResetInCommitIInv == ASSUME IInv, ResetInCommit PROVE IInv'
<1>1. PICK y \in Commits, n \in 0 .. 6 :
        Boot(CutAt(y, n).image, CutAt(y, n).reg) /\ want' = CutAt(y, n).ctl
  BY DEF ResetInCommit
<1>2. y.ctl \in Control /\ y.image \in Flash /\ y.reg \in Range
  BY CommitTyped
<1>3. Boot(CutShort(y.image, n), y.reg) /\ want' = Left(y.ctl, n)
  BY <1>1, CutAtIs
<1>4. CutShort(y.image, n) \in Flash /\ want' \in Control
  BY <1>2, <1>3, CutTyped, LeftTyped
<1>5. QED
  BY <1>2, <1>3, <1>4, Given, BootIInv

\* The timeout set at the panel concerns the inverter alone.
LEMMA PanelIInv ==
  ASSUME IInv, NEW t \in Timeouts, PanelSetsTimeout(t) PROVE IInv'
<1>1. timeout' \in Nat
  BY ControlAssumption DEF PanelSetsTimeout
<1>2. QED
  BY <1>1 DEF PanelSetsTimeout, IInv, TypeOK, CacheCoherent, SaverMatchesMode,
              SamplesCountOnce, NativeWindowHeld

\* One step per action.
LEMMA NextIInv == IInv /\ [Next]_vars => IInv'
<1> SUFFICES ASSUME IInv, [Next]_vars PROVE IInv'
  OBVIOUS
<1>1. CASE ControlTick
  BY <1>1, TickIInv
<1>2. ASSUME NEW cmd \in Commands, Apply(cmd) PROVE IInv'
  BY <1>2, ApplyIInv
<1>3. ASSUME NEW t \in Tunings, Tune(t) PROVE IInv'
  BY <1>3, TuneIInv
<1>4. CASE ReadPassiveTimeout
  BY <1>4, ReadIInv
<1>5. ASSUME NEW t \in Timeouts, PanelSetsTimeout(t) PROVE IInv'
  BY <1>5, PanelIInv
<1>6. CASE Advance
  BY <1>6, AdvanceIInv
<1>7. CASE Reset
  BY <1>7, ResetIInv
<1>8. CASE ResetInCommit
  BY <1>8, ResetInCommitIInv
<1>9. CASE UNCHANGED vars
  BY <1>9 DEF vars, IInv, TypeOK, CacheCoherent, SaverMatchesMode,
              SamplesCountOnce, NativeWindowHeld
<1>10. QED
  BY <1>1, <1>2, <1>3, <1>4, <1>5, <1>6, <1>7, <1>8, <1>9 DEF Next

-----------------------------------------------------------------------------
(* The theorems.                                                           *)

\* The inductive invariant holds in every reachable state.
THEOREM InvariantHolds == Spec => []IInv
  BY InitIInv, NextIInv, PTL DEF Spec

\* Every variable of the control stack stays in its set, for any clamps,
\* commands, tunings, timeouts and grid readings.
THEOREM TypeCorrect == Spec => []TypeOK
  BY InvariantHolds, PTL DEF IInv

\* Inverter's command cache is never wrong about the register, so no
\* suppressed write was needed after all.
THEOREM CacheNeverLies == Spec => []CacheCoherent
  BY InvariantHolds, PTL DEF IInv

\* ModeController's mode and BatterySaver's enable flag never disagree.
THEOREM SaverFollowsMode == Spec => []SaverMatchesMode
  BY InvariantHolds, PTL DEF IInv

\* No grid sample is added to the loop's target twice, and none of those the
\* loop has seen is left out.
THEOREM SamplesOnce == Spec => []SamplesCountOnce
  BY InvariantHolds, PTL DEF IInv

\* While the saver reports the native window the inverter holds it.
THEOREM WindowHeld == Spec => []NativeWindowHeld
  BY InvariantHolds, PTL DEF IInv

-----------------------------------------------------------------------------
(* A charge power of -1 cannot be told from an erased EEPROM.  With any    *)
(* other, what is stored is what comes back.                               *)

\* The EEPROM gives back the control state it was given.
LEMMA RoundTrip ==
  ASSUME NEW c \in Control, c.charge # Unwritten, NEW t
  PROVE  Restored(Saved(c, t)) = c
<1>1. /\ Saved(c, t).magic = TRUE /\ Saved(c, t).mode = c.mode
      /\ Saved(c, t).charge = c.charge /\ Saved(c, t).auto = c.auto
  BY Zenon DEF Saved
<1>2. c.auto \in 1 .. PowerCap /\ PowerCap \in Nat
  BY ControlAssumption DEF Control
<1>3. c.auto # Unwritten /\ c.auto > 0
  BY <1>2 DEF Unwritten
<1>4. c.mode \in Modes
  BY DEF Control
<1>5. Restored(Saved(c, t)) =
        [mode |-> c.mode, charge |-> c.charge, auto |-> c.auto]
  BY <1>1, <1>3, <1>4, Zenon DEF Restored, LoadField
<1>6. QED
  BY <1>5 DEF Control

\* What a device without a stored control state starts with is no -1 either.
LEMMA FreshCharge == \A f \in {Blank, Upgraded} : Restored(f).charge # Unwritten
<1>1. 0 # Unwritten
  BY DEF Unwritten
<1>2. Blank.charge = Unwritten /\ Blank.magic = FALSE
  BY Zenon DEF Blank
<1>3. Upgraded.charge = Unwritten
  BY <1>2, Zenon DEF Upgraded, Blank
<1>4. \A f : f.charge = Unwritten => Restored(f).charge = 0
  BY Zenon DEF Restored, LoadField
<1>5. QED
  BY <1>1, <1>2, <1>3, <1>4

\* Of a control state of which only the first fields were written, those come
\* back, with the defaults for the others.
LEMMA CutRoundTrip ==
  ASSUME NEW c \in Control, c.charge # Unwritten, NEW t, NEW n \in 0 .. 6
  PROVE  Restored(CutShort(Saved(c, t), n)) = Left(c, n)
<1> DEFINE f == CutShort(Saved(c, t), n)
<1>1. Saved(c, t).mode = c.mode /\ Saved(c, t).charge = c.charge
  BY Zenon DEF Saved
<1>2. /\ f.magic = (n > 0) /\ f.auto = Unwritten
      /\ f.mode = (IF n > 4 THEN c.mode ELSE "")
      /\ f.charge = (IF n > 5 THEN c.charge ELSE Unwritten)
  <2>1. \A g : /\ CutShort(g, n).magic = (n > 0)
               /\ CutShort(g, n).auto = Unwritten
               /\ CutShort(g, n).mode = (IF n > 4 THEN g.mode ELSE "")
               /\ CutShort(g, n).charge = (IF n > 5 THEN g.charge ELSE Unwritten)
    BY Zenon DEF CutShort
  <2>2. QED
    BY <1>1, <2>1
<1>3. c.mode \in Modes /\ "" \notin Modes /\ AutoDefault > 0
  BY ControlAssumption DEF Control, Modes, StaticModes
<1> HIDE DEF f
<1>4. LoadField(f.charge, 0) = (IF n > 5 THEN c.charge ELSE 0)
      /\ LoadField(f.auto, AutoDefault) = AutoDefault
  <2>1. LoadField(f.auto, AutoDefault) = AutoDefault
    BY <1>2, Zenon DEF LoadField
  <2>2. CASE n > 5
    BY <1>2, <2>1, <2>2, Zenon DEF LoadField
  <2>3. CASE ~(n > 5)
    BY <1>2, <2>1, <2>3, Zenon DEF LoadField
  <2>4. QED
    BY <2>2, <2>3
<1>5. CASE n > 0
  <2>1. f.magic
    BY <1>2, <1>5, Zenon
  <2>2. (IF f.mode \in Modes THEN f.mode ELSE "auto")
          = (IF n > 4 THEN c.mode ELSE "auto")
    BY <1>2, <1>3
  <2>3. Restored(f) = [mode   |-> IF n > 4 THEN c.mode ELSE "auto",
                       charge |-> IF n > 5 THEN c.charge ELSE 0,
                       auto   |-> AutoDefault]
    <3>1. (IF LoadField(f.auto, AutoDefault) > 0
           THEN LoadField(f.auto, AutoDefault) ELSE AutoDefault) = AutoDefault
      BY <1>3, <1>4
    <3>2. Restored(f) = [mode   |-> IF f.mode \in Modes THEN f.mode ELSE "auto",
                         charge |-> LoadField(f.charge, 0),
                         auto   |-> AutoDefault]
      BY <2>1, <3>1, Zenon DEF Restored
    <3>3. QED
      BY <1>4, <2>2, <3>2
  <2>4. QED
    BY <2>3 DEF Left, f
<1>6. CASE ~(n > 0)
  <2>1. ~(n > 4) /\ ~(n > 5)
    BY <1>6
  <2>2. ~f.magic
    BY <1>2, <1>6, Zenon
  <2>3. Restored(f) = [mode |-> "auto", charge |-> 0, auto |-> AutoDefault]
    BY <2>2, Zenon DEF Restored
  <2>4. Left(c, n) = [mode |-> "auto", charge |-> 0, auto |-> AutoDefault]
    BY <2>1 DEF Left
  <2>5. QED
    BY <2>3, <2>4 DEF f
<1>7. QED
  BY <1>5, <1>6

RInv == IInv /\ ResumesIntent /\ ctl.charge # Unwritten

\* Every step keeps the intent, with no charge power of -1 about.
LEMMA NextRInv ==
  ASSUME Unwritten \notin Charges, RInv, [Next]_vars
  PROVE  RInv'
<1>1. IInv' /\ ctl \in Control /\ flash = Saved(ctl, flash.tun)
  BY NextIInv, Given DEF RInv
<1>2. ASSUME NEW cmd \in Commands, Apply(cmd) PROVE RInv'
  BY <1>1, <1>2, AskedTyped DEF Apply, RInv, ResumesIntent
<1>3. CASE Reset
  <2>1. ctl' = Restored(flash) /\ want' = want
    BY <1>3 DEF Reset, Boot
  <2>2. ctl' = ctl
    BY <1>1, <2>1, RoundTrip DEF RInv
  <2>3. QED
    BY <1>1, <2>1, <2>2 DEF RInv, ResumesIntent
<1>4. CASE ResetInCommit
  <2>1. PICK y \in Commits, n \in 0 .. 6 :
          Boot(CutAt(y, n).image, CutAt(y, n).reg) /\ want' = CutAt(y, n).ctl
    BY <1>4 DEF ResetInCommit
  <2>2. /\ y.ctl \in Control /\ y.ctl.charge \in {ctl.charge} \cup Charges
        /\ y.image = Saved(y.ctl, y.image.tun)
    BY CommitTyped DEF RInv
  <2>3. y.ctl.charge # Unwritten
    BY <2>2 DEF RInv
  <2>4. ctl' = Restored(CutShort(y.image, n)) /\ want' = Left(y.ctl, n)
    BY <2>1, CutAtIs DEF Boot
  <2>5. ctl' = want'
    BY <2>2, <2>3, <2>4, CutRoundTrip
  <2>6. ctl'.charge # Unwritten
    BY <2>2, <2>3, <2>4, <2>5, LeftTyped DEF Unwritten
  <2>7. QED
    BY <1>1, <2>5, <2>6 DEF RInv, ResumesIntent
<1>5. CASE \/ ControlTick \/ (\E t \in Tunings : Tune(t)) \/ ReadPassiveTimeout
           \/ (\E t \in Timeouts : PanelSetsTimeout(t)) \/ Advance
           \/ UNCHANGED vars
  <2>1. ctl' = ctl /\ want' = want
    BY <1>5 DEF ControlTick, Tune, ReadPassiveTimeout, PanelSetsTimeout,
                Advance, vars
  <2>2. QED
    BY <1>1, <2>1 DEF RInv, ResumesIntent
<1>6. QED
  BY <1>2, <1>3, <1>4, <1>5 DEF Next

\* Unless a charge power of -1 is ever asked for, no reset at any point of any
\* command leaves the controller in another state than that of the last
\* completed command, and no power cut inside a commit in another than what was
\* written of the command being saved, with the defaults for the rest.
THEOREM IntentSurvives ==
  ASSUME Unwritten \notin Charges
  PROVE  Spec => []ResumesIntent
<1>1. Init => RInv
  <2>1. Init => ctl.charge # Unwritten /\ want = ctl
    BY FreshCharge DEF Init
  <2>2. QED
    BY <2>1, InitIInv DEF RInv, ResumesIntent
<1>2. RInv /\ [Next]_vars => RInv'
  BY NextRInv
<1>3. RInv => ResumesIntent
  BY DEF RInv
<1>4. QED
  BY <1>1, <1>2, <1>3, PTL DEF Spec
=============================================================================
