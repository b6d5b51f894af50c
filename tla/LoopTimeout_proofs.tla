------------------------- MODULE LoopTimeout_proofs -------------------------
(***************************************************************************)
(* The two clocks of the software loop: BatterySaver::_lastSentMs, from    *)
(* which it asks for a refresh, and Inverter::_cmdLastWriteMs, from which  *)
(* the request is granted.  The inverter's passive timeout does not run    *)
(* out between them, whatever is added, sent, dropped or lost.             *)
(***************************************************************************)
EXTENDS ControlRefinement_proofs

-----------------------------------------------------------------------------
(* Both clocks, in one send.                                               *)

\* A send that reports success was made just now, or was not due.
LEMMA SendClock ==
  ASSUME NEW w \in WritePath, NEW lo \in Int, NEW hi \in Int, NEW k \in Nat,
         NEW r \in SendPassiveRange(w, lo, hi, k), r.ok
  PROVE  /\ r.w.valid /\ r.w.lo = lo /\ r.w.hi = hi
         /\ r.w.age = 0 \/ (r.w = w /\ ~PassiveWriteDue(w, lo, hi, k))
<1>1. CASE ~PassiveWriteDue(w, lo, hi, k)
  <2>1. r = [ok |-> TRUE, w |-> w]
    BY <1>1 DEF SendPassiveRange
  <2>2. w.valid /\ w.lo = lo /\ w.hi = hi
    BY <1>1 DEF PassiveWriteDue, WritePath
  <2>3. QED
    BY <1>1, <2>1, <2>2
<1>2. CASE PassiveWriteDue(w, lo, hi, k)
  <2>1. \A reg : r # [ok |-> FALSE, w |-> Failed(w, reg)]
    OBVIOUS
  <2>2. r = [ok |-> TRUE, w |-> Acked(w, lo, hi, k)]
    BY <1>2, <2>1 DEF SendPassiveRange
  <2>3. QED
    BY <2>2, AckedTyped, AckedFields
<1>3. QED
  BY <1>1, <1>2

\* Neither integrating a sample nor timing an idle target touches the clock.
LEMMA TimedClock ==
  ASSUME NEW s \in Saver, NEW e, NEW m
  PROVE  TimeZero(Integrate(s, e, m)).sentAge = s.sentAge
<1> DEFINE i == Integrate(s, e, m)
<1>1. i.sentAge = s.sentAge /\ DOMAIN i = DOMAIN s
  BY DEF Integrate, Saver
<1> HIDE DEF i
<1>2. TimeZero(i).sentAge = i.sentAge
  <2>1. DOMAIN i = {"active", "strategy", "target", "lastSent", "sentAge", "zeroTiming",
                    "zeroAge", "lastSeq", "probes", "streak", "used", "uses"}
    BY <1>1 DEF Saver
  <2>2. QED
    BY <2>1, Zenon DEF TimeZero
<1>3. QED
  BY <1>1, <1>2 DEF i

\* An acknowledged send restarts the saver's clock as of the reading update()
\* began with.
LEMMA SentClock ==
  ASSUME NEW s \in Saver, NEW slip
  PROVE  SentTarget(s, slip, TRUE).sentAge = slip
<1> DEFINE l == SaverLater(s, slip)
<1>1. DOMAIN l = {"active", "strategy", "target", "lastSent", "sentAge", "zeroTiming",
                  "zeroAge", "lastSeq", "probes", "streak", "used", "uses"}
  BY DEF SaverLater, Saver
<1>2. SentTarget(s, slip, TRUE) = [l EXCEPT !.lastSent = s.target, !.sentAge = slip]
  BY DEF SentTarget
<1> HIDE DEF l
<1>3. QED
  BY <1>1, <1>2

-----------------------------------------------------------------------------
(* The two clocks between updates.                                         *)

\* With the cache valid, the last write is less than a keep-alive older than
\* the saver's last send.  A loop that has not sent yet finds the window it was
\* left with, which no target of its own can be taken for.
Clocked(s, w, lim) ==
  s.strategy = "loop" /\ w.valid =>
    /\ s.lastSent = -1 => w.lo = 0 /\ w.hi > 0
    /\ s.lastSent # -1 => /\ w.lo = s.lastSent /\ w.hi = s.lastSent
                          /\ w.age <= s.sentAge + lim - 1

\* The loop is in an idle lapse: it has said zero and is to stay silent.
Idle(s, t) == s.target = 0 /\ s.zeroTiming /\ s.zeroAge >= t.idleLapse

\* The last write is younger than the inverter's timeout, if one is in force.
InTime(s, w, t, k) ==
  w.valid /\ s.lastSent # -1 /\ k # 0 /\ ~Idle(s, t) => w.age < 2 * k

\* What the loop has a reason to send, other than the keep-alive, is not what
\* the cache holds.
LEMMA ReasonIsDue ==
  ASSUME NEW c \in Saver, NEW w \in WritePath, w.valid, c.strategy = "loop", NEW lim,
         Clocked(c, w, lim), NEW t \in Tuning, ShouldSend(c, t, 0)
  PROVE  c.target # w.lo \/ c.target # w.hi
<1>1. w.lo \in Int /\ w.hi \in Int /\ c.target \in Int /\ c.lastSent \in Int
  BY DEF WritePath, Saver
<1>2. CASE c.lastSent = -1
  BY <1>1, <1>2 DEF Clocked
<1>3. CASE c.lastSent # -1
  <2>1. \/ c.target - c.lastSent >= t.minDelta \/ c.target - c.lastSent <= -t.minDelta
        \/ (c.target = 0) # (c.lastSent = 0)
    BY DEF ShouldSend
  <2>2. t.minDelta \in Nat /\ t.minDelta > 0
    BY TuningFields
  <2>3. c.target # c.lastSent
    <3>1. CASE (c.target = 0) # (c.lastSent = 0)
      BY <3>1
    <3>2. CASE c.target - c.lastSent >= t.minDelta \/ c.target - c.lastSent <= -t.minDelta
      BY <1>1, <2>2, <3>2
    <3>3. QED
      BY <2>1, <3>1, <3>2
  <2>4. w.lo = c.lastSent
    BY <1>3 DEF Clocked
  <2>5. QED
    BY <2>3, <2>4
<1>4. QED
  BY <1>2, <1>3

\* What the loop's half of update() does to the two clocks.
LEMMA UpdateLoopClock ==
  ASSUME NEW K \in Nat \ {0}, NEW k \in {0, K}, NEW t \in Tuning,
         NEW s, NEW w, Sound(s, w), s.strategy = "loop", Aims(s), Clocked(s, w, K),
         NEW e, Live(e), NEW r \in UpdateLoop(s, w, e, t, k)
  PROVE  Clocked(r.s, r.w, K) /\ InTime(r.s, r.w, t, k)
<1> DEFINE c == TimeZero(Integrate(s, e, t.maxPower))
<1>1. t.maxPower \in Nat /\ t.maxPower \in 0 .. PowerCap
  BY TuningFields
<1>2. /\ c \in Saver /\ Aims(c) /\ c.strategy = "loop"
      /\ c.lastSent = s.lastSent /\ c.sentAge = s.sentAge
  BY <1>1, IntegrateTyped, TimeZeroTyped, TimedFields, TimedClock DEF Sound
<1>3. /\ ShouldSend(c, t, k) =>
           \E slip \in 0 .. MaxSlip : r \in SendTarget(c, w, slip, k)
      /\ ~ShouldSend(c, t, k) => r = Result(c, w)
  BY DEF UpdateLoop
<1> HIDE DEF c
<1>4. w \in WritePath /\ w.age \in Nat /\ c.sentAge \in Nat /\ k \in Nat
  BY <1>2, CacheAssumption DEF Sound, WritePath, Saver, Age
<1>5. Clocked(c, w, K)
  BY <1>2 DEF Clocked
<1>6. CASE ~ShouldSend(c, t, k)
  <2>1. r.s = c /\ r.w = w
    BY <1>3, <1>6 DEF Result
  <2>2. InTime(c, w, t, k)
    <3> SUFFICES ASSUME w.valid, c.lastSent # -1, k # 0, ~Idle(c, t)
                 PROVE  w.age < 2 * k
      BY DEF InTime
    <3>1. c.sentAge < k
      BY <1>4, <1>6 DEF ShouldSend, Idle
    <3>2. w.age <= c.sentAge + K - 1 /\ k = K
      BY <1>2, <1>5 DEF Clocked
    <3>3. QED
      BY <1>4, <3>1, <3>2
  <2>3. QED
    BY <1>5, <2>1, <2>2
<1>7. CASE ShouldSend(c, t, k)
  <2>1. PICK slip \in 0 .. MaxSlip : r \in SendTarget(c, w, slip, k)
    BY <1>3, <1>7
  <2> DEFINE v == Later(w, slip)
             z == SentTarget(c, slip, TRUE)
  <2>2. PICK q \in SendPassiveRange(v, c.target, c.target, k) :
           r = Result(SentTarget(c, slip, q.ok), q.w)
    BY <2>1 DEF SendTarget, SentTarget
  <2>3. /\ v \in WritePath /\ slip \in Nat /\ v.valid = w.valid
        /\ v.lo = w.lo /\ v.hi = w.hi
    BY <1>4, SaverAssumption, LaterTyped, LaterFields
  <2>4. v.age \in Nat
    BY <2>3, CacheAssumption DEF WritePath, Age
  <2>5. /\ z.lastSent = c.target /\ z.sentAge = slip /\ c.target \in Int
        /\ z.lastSent # -1
    <3>1. z.lastSent = c.target /\ z.sentAge = slip
      BY <1>2, SentFields, SentClock, ZenonT(40)
    <3>2. c.target \in Int /\ c.target # -1
      BY <1>2, ControlAssumption DEF Saver, Aims
    <3> HIDE DEF z
    <3>3. QED
      BY <3>1, <3>2
  <2> HIDE DEF v, z
  <2>6. q.ok \in BOOLEAN /\ (~q.ok => ~q.w.valid)
    BY <2>3, <2>5, SendTyped
  <2>7. CASE ~q.ok
    <3>1. r.w = q.w
      BY <2>2 DEF Result
    <3>2. QED
      BY <2>6, <2>7, <3>1 DEF Clocked, InTime
  <2>8. CASE q.ok
    <3>1. r.s = z /\ r.w = q.w
      BY <2>2, <2>6, <2>8 DEF Result, z
    <3>2. /\ q.w.lo = c.target /\ q.w.hi = c.target
          /\ q.w.age = 0 \/ (q.w = v /\ ~PassiveWriteDue(v, c.target, c.target, k))
      BY <2>3, <2>5, <2>8, SendClock
    <3>3. q.w.age \in Nat /\ q.w.age < K
      <4>1. CASE q.w.age = 0
        BY <4>1
      <4>2. CASE q.w = v /\ ~PassiveWriteDue(v, c.target, c.target, k)
        <5>1. v.valid /\ c.target = v.lo /\ c.target = v.hi /\ ~(k # 0 /\ v.age >= k)
          BY <2>3, <4>2 DEF PassiveWriteDue, WritePath
        <5>2. k # 0
          <6> SUFFICES ASSUME k = 0 PROVE FALSE
            OBVIOUS
          <6>1. c.target # w.lo \/ c.target # w.hi
            BY <1>2, <1>4, <1>5, <1>7, <2>3, <5>1, ReasonIsDue
          <6>2. QED
            BY <2>3, <5>1, <6>1
        <5>3. QED
          BY <2>4, <4>2, <5>1, <5>2
      <4>3. QED
        BY <3>2, <4>1, <4>2
    <3>4. Clocked(z, q.w, K)
      <4>1. q.w.age <= slip + K - 1
        BY <2>3, <3>3
      <4>2. QED
        BY <2>5, <3>2, <4>1 DEF Clocked
    <3>5. InTime(z, q.w, t, k)
      <4>1. k # 0 => q.w.age < 2 * k
        BY <3>3
      <4>2. QED
        BY <4>1 DEF InTime
    <3>6. QED
      BY <3>1, <3>4, <3>5
  <2>9. QED
    BY <2>6, <2>7, <2>8
<1>8. QED
  BY <1>6, <1>7

-----------------------------------------------------------------------------
(* The saver as a whole.                                                   *)

\* What a call of update() leaves of the two clocks.
Timely(r, t, k, lim) ==
  /\ Clocked(r.s, r.w, lim)
  /\ r.s.strategy = "loop" => InTime(r.s, r.w, t, k)

\* A loop that was just begun has sent nothing.
LEMMA FallbackClock ==
  ASSUME NEW K \in Nat \ {0}, NEW k \in {0, K}, NEW t \in Tuning,
         NEW s \in Saver, NEW w \in WritePath, Coherent(w),
         w.valid => w.lo = 0 /\ w.hi > 0,
         NEW e, Live(e), NEW r \in UpdateLoop(LoopFallback(s), w, e, t, k)
  PROVE  Timely(r, t, k, K)
<1> DEFINE l == LoopFallback(s)
<1>1. l \in Saver /\ l.strategy = "loop" /\ LoopUse(l)
  BY FallbackTyped
<1>2. l.target = 0 /\ l.lastSent = -1
  BY DEF LoopFallback, Saver
<1>3. r \in UpdateLoop(l, w, e, t, k)
  OBVIOUS
<1> HIDE DEF l
<1>4. Sound(l, w) /\ Aims(l)
  BY <1>1, <1>2, ControlAssumption DEF Sound, ProbeLeft, Aims
<1>5. Clocked(l, w, K)
  BY <1>2 DEF Clocked
<1>6. QED
  BY <1>1, <1>3, <1>4, <1>5, UpdateLoopClock DEF Timely

\* The window that a send leaves in the cache.
LEMMA WindowCached ==
  ASSUME NEW w \in WritePath, NEW t \in Tuning, t.maxPower > 0, NEW k \in Nat,
         NEW q \in SendPassiveRange(w, 0, t.maxPower, k)
  PROVE  q.w.valid => q.w.lo = 0 /\ q.w.hi > 0
<1>1. t.maxPower \in Int /\ 0 \in Int
  BY TuningFields
<1>2. q.ok \in BOOLEAN /\ (~q.ok => ~q.w.valid)
  BY <1>1, SendTyped
<1>3. q.ok => q.w.lo = 0 /\ q.w.hi = t.maxPower
  BY <1>1, SendClock
<1>4. QED
  BY <1>2, <1>3

\* The native half of update().
LEMMA UpdateNativeClock ==
  ASSUME NEW K \in Nat \ {0}, NEW k \in {0, K}, NEW t \in Tuning, t.maxPower > 0,
         NEW s, NEW w, Sound(s, w), s.strategy = "native",
         NEW e, Live(e), NEW r \in UpdateNative(s, w, e, t, k)
  PROVE  Timely(r, t, k, K)
<1>1. k \in Nat /\ t.maxPower \in Int /\ 0 \in Int /\ w \in WritePath /\ Coherent(w) /\ s \in Saver
  BY TuningFields DEF Sound
<1>2. PICK q \in SendPassiveRange(w, 0, t.maxPower, k) : r \in NativeStep(s, q.w, e, t, k)
  BY DEF UpdateNative
<1>3. /\ q.w \in WritePath /\ Coherent(q.w)
      /\ q.w.valid => q.w.lo = 0 /\ q.w.hi > 0
  BY <1>1, SendTyped, WindowCached
<1> DEFINE c == CountStreak([s EXCEPT !.target = t.maxPower], e, t)
<1>4. c \in Saver /\ c.strategy = "native"
  BY <1>1, CountStreakTyped
<1>5. r = Result(c, q.w) \/ r \in UpdateLoop(LoopFallback(c), q.w, e, t, k)
  BY <1>2 DEF NativeStep
<1> HIDE DEF c
<1>6. CASE r = Result(c, q.w)
  BY <1>4, <1>6 DEF Result, Timely, Clocked
<1>7. CASE r \in UpdateLoop(LoopFallback(c), q.w, e, t, k)
  BY <1>3, <1>4, <1>7, FallbackClock
<1>8. QED
  BY <1>5, <1>6, <1>7

\* The probing half of update(): the loop begins after a refusal, with the cache
\* dropped.
LEMMA UpdateProbingClock ==
  ASSUME NEW K \in Nat \ {0}, NEW k \in {0, K}, NEW t \in Tuning,
         NEW s, NEW w, Sound(s, w), s.strategy = "probing",
         NEW e, Live(e), NEW r \in UpdateProbing(s, w, e, t, k)
  PROVE  Timely(r, t, k, K)
<1>1. k \in Nat /\ t.maxPower \in Int /\ 0 \in Int /\ w \in WritePath /\ Coherent(w) /\ s \in Saver
  BY TuningFields DEF Sound
<1>2. PICK q \in SendPassiveRange(w, 0, t.maxPower, k) : r \in ProbeStep(s, q, e, t, k)
  BY DEF UpdateProbing
<1>3. /\ q.w \in WritePath /\ Coherent(q.w)
      /\ q.ok \in BOOLEAN /\ (~q.ok => ~q.w.valid)
  BY <1>1, SendTyped
<1> DEFINE failed == [s EXCEPT !.probes = s.probes + 1]
           a      == AcceptedProbe(s, t.maxPower, e.seq)
<1>4. \/ q.ok /\ r = Result(a, q.w)
      \/ ~q.ok /\ r = Result(failed, q.w)
      \/ ~q.ok /\ r \in UpdateLoop(LoopFallback(failed), q.w, e, t, k)
  BY <1>2, <1>3 DEF ProbeStep, AcceptedProbe
<1>5. failed \in Saver
  <2>1. s.probes + 1 \in 0 .. ProbeLimit
    BY DEF Sound, ProbeLeft, Saver, ProbeLimit
  <2>2. QED
    BY <1>1, <2>1, RefusedTyped
<1>6. a.strategy = "native"
  BY <1>1, LiveTyped, AcceptedTyped
<1> HIDE DEF failed, a
<1>7. CASE q.ok /\ r = Result(a, q.w)
  BY <1>6, <1>7 DEF Result, Timely, Clocked
<1>8. CASE ~q.ok /\ r = Result(failed, q.w)
  BY <1>3, <1>8 DEF Result, Timely, Clocked, InTime
<1>9. CASE ~q.ok /\ r \in UpdateLoop(LoopFallback(failed), q.w, e, t, k)
  BY <1>3, <1>5, <1>9, FallbackClock
<1>10. QED
  BY <1>4, <1>7, <1>8, <1>9

\* update() as a whole, with the saver on and a live reading.
LEMMA UpdateClock ==
  ASSUME NEW K \in Nat \ {0}, NEW k \in {0, K}, NEW t \in Tuning, t.maxPower > 0,
         NEW s, NEW w, Sound(s, w), s.active, Aims(s), Clocked(s, w, K),
         NEW e, Live(e), e.valid, NEW r \in Update(s, w, e, t, k)
  PROVE  Timely(r, t, k, K)
<1>1. \/ s.strategy = "probing" /\ r \in UpdateProbing(s, w, e, t, k)
      \/ s.strategy = "native" /\ r \in UpdateNative(s, w, e, t, k)
      \/ s.strategy = "loop" /\ r \in UpdateLoop(s, w, e, t, k)
  BY DEF Update, Sound, Saver
<1>2. QED
  BY <1>1, UpdateProbingClock, UpdateNativeClock, UpdateLoopClock DEF Timely

-----------------------------------------------------------------------------
(* The inductive invariant.                                                *)

\* The inverter's timeout is disabled, or is the one of keep-alive K.
OneTimeout(K) == \A t \in Timeouts : KeepaliveFor(t) \in {0, K}

\* The saver is not set to a ceiling of nothing.
Charging == TunDefault.maxPower > 0 /\ \A t \in Tunings : t.maxPower > 0

\* Beyond what fits the mode and the saver: the two clocks, the keep-alive one
\* or none, and a window that is not empty, now and after a reset.
KInv(K) ==
  /\ CInv
  /\ timeout \in Timeouts /\ keepalive \in {0, K}
  /\ tun.maxPower > 0 /\ flash.tun.maxPower > 0
  /\ bs.active => Clocked(bs, wr, K)

\* Clamping leaves a ceiling above nothing where it is, or at the cap.
LEMMA ClampedCharging ==
  ASSUME NEW t, t.maxPower \in Int, t.maxPower > 0
  PROVE  ClampTuning(t).maxPower > 0
<1>1. ClampTuning(t).maxPower = Clamp(t.maxPower, 0, PowerCap)
  BY DEF ClampTuning
<1>2. PowerCap \in Nat /\ PowerCap > 0
  BY ControlAssumption
<1>3. QED
  BY <1>1, <1>2 DEF Clamp

\* Time passes on both clocks, and stops on both at AgeCap.
LEMMA ClockedLater ==
  ASSUME NEW K \in Nat \ {0}, NEW s \in Saver, NEW w \in WritePath, Clocked(s, w, K)
  PROVE  Clocked(SaverLater(s, 1), Later(w, 1), K)
<1> DEFINE l == SaverLater(s, 1)
           v == Later(w, 1)
<1>1. /\ l.strategy = s.strategy /\ l.lastSent = s.lastSent
      /\ l.sentAge = Older(s.sentAge, 1)
  BY DEF SaverLater, Saver
<1>2. v.valid = w.valid /\ v.lo = w.lo /\ v.hi = w.hi
  BY LaterFields
<1>3. v.age = Older(w.age, 1)
  BY DEF Later, WritePath
<1>4. s.sentAge \in Age /\ w.age \in Age
  BY DEF Saver, WritePath
<1> HIDE DEF l, v
<1>5. w.age <= s.sentAge + K - 1 => v.age <= l.sentAge + K - 1
  BY <1>1, <1>3, <1>4, CacheAssumption DEF Older, Age
<1>6. Clocked(l, v, K)
  BY <1>1, <1>2, <1>5 DEF Clocked
<1>7. QED
  BY <1>6 DEF l, v

\* A saver that is off, or was just enabled, has not sent anything.
LEMMA SwitchClocked ==
  ASSUME NEW s, NEW mode, NEW x \in SwitchSaver(s, mode), NEW w, NEW K,
         s.active => Clocked(s, w, K)
  PROVE  x.active => Clocked(x, w, K)
<1>1. ~SaverOff.active
  BY DEF SaverOff
<1>2. \A age : Clocked(Enabled(age), w, K)
  BY DEF Enabled, SaverOff, Clocked
<1>3. QED
  BY <1>1, <1>2 DEF SwitchSaver

\* A boot, whatever is in the EEPROM, if its ceiling is not nothing.
LEMMA BootKInv ==
  ASSUME NEW K \in Nat \ {0}, OneTimeout(K), CInv', timeout \in Timeouts,
         NEW f, f.tun.maxPower \in Int, f.tun.maxPower > 0, NEW reg, Boot(f, reg)
  PROVE  KInv(K)'
<1>1. timeout' \in Timeouts /\ keepalive' \in {0, K}
  BY DEF Boot, OneTimeout
<1>2. tun'.maxPower > 0
  BY ClampedCharging DEF Boot
<1>3. flash'.tun.maxPower > 0
  <2>1. flash' = Saved(ctl', f.tun)
    BY DEF Boot
  <2>2. flash'.tun = f.tun
    BY <2>1 DEF Saved
  <2>3. QED
    BY <2>2
<1>4. bs'.active => Clocked(bs', wr', K)
  <2>1. wr'.valid = FALSE
    BY DEF Boot, ColdCache
  <2>2. QED
    BY <2>1 DEF Clocked
<1>5. QED
  BY <1>1, <1>2, <1>3, <1>4 DEF KInv

LEMMA InitKInv ==
  ASSUME NEW K \in Nat \ {0}, OneTimeout(K), Charging, Init
  PROVE  KInv(K)
<1>1. CInv
  BY InitCInv
<1>2. timeout \in Timeouts /\ keepalive \in {0, K} /\ ~bs.active
  BY DEF Init, OneTimeout, SaverOff
<1>3. TunDefault.maxPower \in Int /\ TunDefault.maxPower > 0
  BY ControlAssumption DEF Charging, Tuning
<1>4. tun.maxPower > 0
  BY <1>3, ClampedCharging DEF Init
<1>5. flash.tun = TunDefault
  <2>1. PICK f \in {Blank, Upgraded} : flash = Saved(ctl, f.tun)
    BY DEF Init
  <2>2. f.tun = TunDefault
    BY BlankTyped
  <2>3. flash.tun = f.tun
    BY <2>1 DEF Saved
  <2>4. QED
    BY <2>2, <2>3
<1>6. QED
  BY <1>1, <1>2, <1>3, <1>4, <1>5 DEF KInv

\* The control task.  The second half is what the theorem is about.
LEMMA TickKInv ==
  ASSUME NEW K \in Nat \ {0}, KInv(K), CInv', ControlTick
  PROVE  /\ KInv(K)'
         /\ LoopRuns => InTime(bs', wr', tun, keepalive)
<1>1. /\ d \in LinkData /\ Counting(d) /\ Sound(bs, wr) /\ tun \in Tuning
      /\ bs.active <=> ctl.mode = "battery_saver"
  BY Given DEF KInv, CInv
<1>2. CASE ctl.mode = "battery_saver" /\ d'.valid
  <2>1. PICK r \in Update(bs, wr, d', tun, keepalive) : bs' = r.s /\ wr' = r.w
    BY <1>2 DEF ControlTick
  <2>2. Live(d')
    BY <1>1, <1>2, PollTyped DEF ControlTick, Live, Counting
  <2>3. /\ bs.active /\ Aims(bs) /\ Clocked(bs, wr, K) /\ keepalive \in {0, K}
        /\ tun.maxPower > 0
    BY <1>1, <1>2 DEF KInv, CInv, Steady
  <2>4. Timely(r, tun, keepalive, K)
    BY <1>1, <1>2, <2>2, <2>3, UpdateClock
  <2>5. Clocked(bs', wr', K) /\ (bs'.strategy = "loop" => InTime(bs', wr', tun, keepalive))
    BY <2>1, <2>4 DEF Timely
  <2>6. QED
    BY <2>5 DEF KInv, ControlTick, LoopRuns
<1>3. CASE ctl.mode = "battery_saver" /\ ~d'.valid
  <2>1. bs' = bs /\ wr' = wr
    BY <1>3, UpdateIdle DEF ControlTick
  <2>2. QED
    BY <1>3, <2>1 DEF KInv, ControlTick, LoopRuns
<1>4. CASE ctl.mode # "battery_saver"
  <2>1. ~bs'.active
    BY <1>1, <1>4 DEF ControlTick
  <2>2. QED
    BY <1>4, <2>1 DEF KInv, ControlTick, LoopRuns
<1>5. QED
  BY <1>2, <1>3, <1>4

\* A command leaves the saver and its write path alone, or begins afresh.
LEMMA ApplyKInv ==
  ASSUME NEW K \in Nat \ {0}, KInv(K), CInv', NEW cmd \in Commands, Apply(cmd)
  PROVE  KInv(K)'
<1>1. /\ wr \in WritePath /\ bs' \in SwitchSaver(bs, ctl'.mode)
      /\ wr' \in Reconcile(ctl', Incoming(ctl'), d, keepalive)
      /\ bs'.active <=> ctl'.mode = "battery_saver"
  BY Given DEF KInv, CInv, IInv, SaverMatchesMode, Apply
<1>2. bs'.active => Clocked(bs', wr', K)
  <2> SUFFICES ASSUME bs'.active PROVE Clocked(bs', wr', K)
    OBVIOUS
  <2>1. wr' \in {wr, Unworn(wr)}
    BY <1>1 DEF Reconcile, StaticModes, Incoming
  <2>2. /\ wr'.valid = wr.valid /\ wr'.lo = wr.lo /\ wr'.hi = wr.hi
        /\ wr'.age = wr.age
    BY <1>1, <2>1 DEF Unworn, WritePath
  <2>3. bs.active => Clocked(bs, wr', K)
    BY <2>2 DEF KInv, Clocked
  <2>4. QED
    BY <1>1, <2>3, SwitchClocked
<1>3. flash'.tun = flash.tun
  BY DEF Apply, Saved
<1>4. QED
  BY <1>2, <1>3 DEF KInv, Apply

\* A tuning page that asks for more than nothing.
LEMMA TuneKInv ==
  ASSUME NEW K \in Nat \ {0}, Charging, KInv(K), CInv', NEW t \in Tunings, Tune(t)
  PROVE  KInv(K)'
<1>1. t.maxPower \in Int /\ t.maxPower > 0
  BY ControlAssumption DEF Charging
<1>2. tun'.maxPower > 0
  BY <1>1, ClampedCharging DEF Tune
<1>3. flash \in Flash
  BY Given DEF KInv, CInv
<1>4. flash'.tun = tun'
  BY <1>3 DEF Tune, Flash
<1>5. /\ wr \in WritePath /\ wr' = Unworn(wr) /\ bs' = bs
  BY Given DEF KInv, CInv, Tune
<1>6. wr'.valid = wr.valid /\ wr'.lo = wr.lo /\ wr'.hi = wr.hi /\ wr'.age = wr.age
  BY <1>5 DEF Unworn, WritePath
<1>7. bs'.active => Clocked(bs', wr', K)
  BY <1>5, <1>6 DEF KInv, Clocked
<1>8. QED
  BY <1>2, <1>4, <1>7 DEF KInv, Tune

LEMMA NextKInv ==
  ASSUME NEW K \in Nat \ {0}, OneTimeout(K), Charging, KInv(K), [Next]_vars
  PROVE  KInv(K)'
<1>1. CInv'
  BY NextCInv DEF KInv
<1>2. CASE ControlTick
  BY <1>1, <1>2, TickKInv
<1>3. ASSUME NEW cmd \in Commands, Apply(cmd) PROVE KInv(K)'
  BY <1>1, <1>3, ApplyKInv
<1>4. ASSUME NEW t \in Tunings, Tune(t) PROVE KInv(K)'
  BY <1>1, <1>4, TuneKInv
<1>5. CASE ReadPassiveTimeout
  BY <1>1, <1>5 DEF ReadPassiveTimeout, KInv, OneTimeout
<1>6. ASSUME NEW t \in Timeouts, PanelSetsTimeout(t) PROVE KInv(K)'
  BY <1>1, <1>6 DEF PanelSetsTimeout, KInv
<1>7. CASE Advance
  <2>1. bs \in Saver /\ wr \in WritePath
    BY Given DEF KInv, CInv
  <2>2. bs'.active => Clocked(bs', wr', K)
    <3>1. CASE bs.active
      BY <1>7, <2>1, <3>1, ClockedLater DEF Advance, KInv
    <3>2. CASE ~bs.active
      BY <1>7, <3>2 DEF Advance
    <3>3. QED
      BY <3>1, <3>2
  <2>3. QED
    BY <1>1, <1>7, <2>2 DEF Advance, KInv
<1>8. CASE Reset
  <2>1. PICK reg : Boot(flash, reg)
    BY <1>8 DEF Reset
  <2>2. flash.tun.maxPower \in Int /\ flash.tun.maxPower > 0
    BY Given, TuningFields DEF KInv, CInv
  <2>3. QED
    BY <1>1, <2>1, <2>2, BootKInv DEF KInv
<1>9. CASE ResetInCommit
  <2>1. PICK y \in Commits, n \in 0 .. 6 :
          Boot(CutAt(y, n).image, CutAt(y, n).reg)
    BY <1>9 DEF ResetInCommit
  <2>2. /\ y.image \in Flash
        /\ y.image.tun \in {flash.tun} \cup {ClampTuning(t) : t \in Tunings}
    BY CommitTyped DEF KInv, CInv
  <2>3. y.image.tun.maxPower > 0
    <3>1. flash.tun.maxPower > 0
      BY DEF KInv
    <3>2. ASSUME NEW t \in Tunings PROVE ClampTuning(t).maxPower > 0
      <4>1. t.maxPower \in Int /\ t.maxPower > 0
        BY ControlAssumption DEF Charging
      <4>2. QED
        BY <4>1, ClampedCharging
    <3>3. QED
      BY <2>2, <3>1, <3>2
  <2>4. CutShort(y.image, n).tun \in Tuning /\ CutShort(y.image, n).tun.maxPower > 0
    BY <2>2, <2>3, CutTyped DEF Charging
  <2>5. CutShort(y.image, n).tun.maxPower \in Int
    BY <2>4, TuningFields
  <2>6. Boot(CutShort(y.image, n), y.reg)
    BY <2>1, CutAtIs
  <2>7. QED
    BY <1>1, <2>4, <2>5, <2>6, BootKInv DEF KInv
<1>10. CASE UNCHANGED vars
  BY <1>1, <1>10 DEF KInv, vars
<1>11. QED
  BY <1>2, <1>3, <1>4, <1>5, <1>6, <1>7, <1>8, <1>9, <1>10 DEF Next

-----------------------------------------------------------------------------
(* The theorem.                                                            *)

\* inverterKeepaliveMs: with one timeout at the inverter, or none, and a ceiling
\* above nothing, a tick of the running loop never leaves the last write as old
\* as the inverter's timeout (two keep-alives), though the saver and Inverter
\* time the refresh each by a clock of its own.
THEOREM LoopIsInTime ==
  ASSUME NEW K \in Nat \ {0}, OneTimeout(K), Charging
  PROVE  Spec => LoopOutlivesTimeout
<1>1. Init => KInv(K)
  BY InitKInv
<1>2. KInv(K) /\ [Next]_vars => KInv(K)'
  BY NextKInv
<1>3. KInv(K) /\ [Next]_vars =>
        [LoopRuns /\ ~Lapsed /\ bs'.lastSent # -1 /\ keepalive # 0
           /\ wr'.valid /\ ControlTick
           => wr'.age < 2 * keepalive]_vars
  <2> SUFFICES ASSUME KInv(K), [Next]_vars, LoopRuns, ~Lapsed, bs'.lastSent # -1,
                      keepalive # 0, wr'.valid, ControlTick
               PROVE  wr'.age < 2 * keepalive
    OBVIOUS
  <2>1. CInv'
    BY NextCInv DEF KInv
  <2>2. InTime(bs', wr', tun, keepalive)
    BY <2>1, TickKInv
  <2>3. ~Idle(bs', tun)
    BY DEF Lapsed, Idle
  <2>4. QED
    BY <2>2, <2>3 DEF InTime
<1>4. QED
  BY <1>1, <1>2, <1>3, PTL DEF Spec, LoopOutlivesTimeout
==============================================================================
