-------------------------- MODULE Supervisor_proofs --------------------------
(***************************************************************************)
(* Proofs about the restarts, for every limit and wherever the clock       *)
(* wraps: the watchdog catches every stall and resets nothing else, a      *)
(* reset is reported once, and the health task restarts the device neither *)
(* too early nor too late.                                                 *)
(***************************************************************************)
EXTENDS Supervisor, TLAPS

-----------------------------------------------------------------------------
(* The clock.  Since is exact for a span shorter than the clock's period.  *)

LEMMA Constants ==
  /\ Stall \in Nat /\ Stall > 0 /\ RetryAfter \in Nat /\ RetryAfter > 0
  /\ RebootAfter \in Nat /\ RebootAfter > RetryAfter
  /\ Wrap \in Nat /\ Wrap > RebootAfter + 4 * Stall /\ Longest = 2 * Wrap
  /\ LowStreak \in Nat /\ LowStreak > 0 /\ "loop" \notin TaskStages
  BY SupervisorAssumption DEF Longest

\* The remainder of a number in reach of the modulus.
LEMMA ModTyped ==
  ASSUME NEW m \in Nat, m > 0, NEW a \in Int
  PROVE  a % m \in 0 .. m - 1
  OBVIOUS

LEMMA ModBelow ==
  ASSUME NEW m \in Nat, m > 0, NEW a \in Int, 0 <= a, a < m
  PROVE  a % m = a
  OBVIOUS

LEMMA ModBorrows ==
  ASSUME NEW m \in Nat, m > 0, NEW a \in Int, -m <= a, a < 0
  PROVE  a % m = a + m
  OBVIOUS

LEMMA ModWraps ==
  ASSUME NEW m \in Nat, m > 0
  PROVE  m % m = 0
  OBVIOUS

LEMMA SinceTyped ==
  ASSUME NEW t \in Clock, NEW s \in Clock
  PROVE  Since(t, s) \in 0 .. Wrap - 1 /\ Since(t, t) = 0
<1>1. Wrap \in Nat /\ Wrap > 0 /\ t - s \in Int /\ t - t = 0
  BY Constants DEF Clock
<1>2. (t - s) % Wrap \in 0 .. Wrap - 1 /\ 0 % Wrap = 0
  BY <1>1, ModTyped, ModBelow
<1>3. QED
  BY <1>1, <1>2 DEF Since

\* A tick adds one to every span that stays below the clock's period.
LEMMA SinceTicks ==
  ASSUME NEW t \in Clock, NEW s \in Clock
  PROVE  /\ (t + 1) % Wrap \in Clock
         /\ Since(t, s) + 1 < Wrap => Since((t + 1) % Wrap, s) = Since(t, s) + 1
<1> DEFINE u == (t + 1) % Wrap
<1>1. /\ Wrap \in Nat /\ Wrap > 1 /\ t \in Nat /\ t < Wrap /\ s \in Nat /\ s < Wrap
  BY Constants DEF Clock
<1>2. u = IF t + 1 = Wrap THEN 0 ELSE t + 1
  <2>1. CASE t + 1 = Wrap
    BY <1>1, <2>1, ModWraps
  <2>2. CASE t + 1 # Wrap
    <3>1. t + 1 \in Int /\ 0 <= t + 1 /\ t + 1 < Wrap
      BY <1>1, <2>2
    <3>2. QED
      BY <1>1, <2>2, <3>1, ModBelow
  <2>3. QED
    BY <2>1, <2>2
<1> HIDE DEF u
<1>3. /\ t >= s => Since(t, s) = t - s
      /\ t < s => Since(t, s) = t - s + Wrap
  BY <1>1, ModBelow, ModBorrows DEF Since
<1>4. u \in Nat /\ u < Wrap
  BY <1>1, <1>2
<1>5. /\ u >= s => Since(u, s) = u - s
      /\ u < s => Since(u, s) = u - s + Wrap
  BY <1>1, <1>4, ModBelow, ModBorrows DEF Since
<1>6. Since(t, s) + 1 < Wrap => Since(u, s) = Since(t, s) + 1
  BY <1>1, <1>2, <1>3, <1>5
<1>7. u \in Clock
  BY <1>1, <1>4 DEF Clock
<1>8. QED
  BY <1>6, <1>7 DEF u

-----------------------------------------------------------------------------
(* What the health task knows of an outage, against its true age.          *)

HealthStates == [wifiDown: BOOLEAN, downSince: Clock, lastRetry: Clock,
                 retried: BOOLEAN, low: 0 .. LowStreak - 1]

\* State h of the health task accounts at time t for a WiFi unseen for u units
\* and a patience of p, where the last sample is at most lag units old.
Accounted(h, t, u, p, lag) ==
  /\ ~h.wifiDown => u <= lag
  /\ h.wifiDown => /\ Since(t, h.downSince) <= u
                   /\ u <= Since(t, h.downSince) + 2 * Stall
                   /\ Since(t, h.downSince) <= RebootAfter - 1 + lag
                   /\ p <= RetryAfter - 1 + lag
                   /\ ~h.retried => p = Since(t, h.downSince)
                   /\ h.retried => /\ p = Since(t, h.lastRetry)
                                   /\ Since(t, h.downSince) >= RetryAfter

\* A sample is no account of what comes later, but a looser bound always holds.
LEMMA LooserAccount ==
  ASSUME NEW h \in HealthStates, NEW t \in Clock, NEW u \in Nat, NEW p \in Nat,
         NEW lag \in Nat, NEW more \in Nat, lag <= more,
         Accounted(h, t, u, p, lag)
  PROVE  Accounted(h, t, u, p, more)
<1>1. Since(t, h.downSince) \in 0 .. Wrap - 1
  BY SinceTyped DEF HealthStates
<1>2. QED
  BY <1>1, Constants DEF Accounted

\* Time passes for the record and for the truth alike.
LEMMA AccountTicks ==
  ASSUME NEW h \in HealthStates, NEW t \in Clock, NEW u \in Nat, NEW p \in Nat,
         NEW lag \in 0 .. 2 * Stall, NEW more \in Nat, lag < more,
         Accounted(h, t, u, p, lag)
  PROVE  Accounted(h, (t + 1) % Wrap, Older(u), Older(p), more)
<1> DEFINE n == (t + 1) % Wrap
           out == Since(t, h.downSince)
           wait == Since(t, h.lastRetry)
<1>1. /\ out \in 0 .. Wrap - 1 /\ wait \in 0 .. Wrap - 1
      /\ n \in Clock
      /\ out + 1 < Wrap => Since(n, h.downSince) = out + 1
      /\ wait + 1 < Wrap => Since(n, h.lastRetry) = wait + 1
  BY SinceTyped, SinceTicks DEF HealthStates
<1>2. /\ u < Longest => Older(u) = u + 1
      /\ p < Longest => Older(p) = p + 1
  BY DEF Older
<1>3. CASE ~h.wifiDown
  <2>1. u <= lag
    BY <1>3 DEF Accounted
  <2>2. Older(u) = u + 1
    BY <1>2, <2>1, Constants
  <2>3. QED
    BY <1>3, <2>1, <2>2 DEF Accounted
<1>4. CASE h.wifiDown
  <2>1. /\ out <= u /\ u <= out + 2 * Stall
        /\ out <= RebootAfter - 1 + lag /\ p <= RetryAfter - 1 + lag
        /\ ~h.retried => p = out
        /\ h.retried => p = wait /\ out >= RetryAfter
    BY <1>4 DEF Accounted
  <2> DEFINE out2 == Since(n, h.downSince)
             wait2 == Since(n, h.lastRetry)
  <2>2. out2 = out + 1 /\ Older(u) = u + 1 /\ Older(p) = p + 1
    BY <1>1, <1>2, <2>1, Constants
  <2>3. h.retried => wait2 = wait + 1
    BY <1>1, <2>1, Constants
  <2> HIDE DEF out, wait, out2, wait2, n
  <2>4. /\ out2 <= Older(u) /\ Older(u) <= out2 + 2 * Stall
        /\ out2 <= RebootAfter - 1 + more /\ Older(p) <= RetryAfter - 1 + more
        /\ ~h.retried => Older(p) = out2
        /\ h.retried => Older(p) = wait2 /\ out2 >= RetryAfter
    BY <1>1, <2>1, <2>2, <2>3, Constants
  <2>5. Accounted(h, n, Older(u), Older(p), more)
    BY <1>4, <2>4 DEF Accounted, out2, wait2
  <2>6. QED
    BY <2>5 DEF n
<1>5. QED
  BY <1>3, <1>4

\* A sample that does not restart the device renews the account.
LEMMA SampleAccounted ==
  ASSUME NEW h \in HealthStates, NEW t \in Clock, NEW u \in Nat, NEW p \in Nat,
         NEW lag \in 0 .. 2 * Stall, Accounted(h, t, u, p, lag),
         NEW up \in BOOLEAN, NEW low \in BOOLEAN,
         NEW e, e = Evaluate(h, up, low, t)
  PROVE  /\ e.act = "reboot" => u >= RebootAfter \/ h.low = LowStreak - 1
         /\ e.act # "reboot" =>
              /\ e.st \in HealthStates
              /\ Accounted(e.st, t, IF up THEN 0 ELSE u,
                           IF up \/ Noticed(h) \/ e.act = "retry" THEN 0 ELSE p, 0)
<1> DEFINE s == [h EXCEPT !.low = IF low THEN @ + 1 ELSE 0]
           out == Since(t, h.downSince)
           wait == Since(t, h.lastRetry)
<1>1. /\ s.wifiDown = h.wifiDown /\ s.downSince = h.downSince /\ s.lastRetry = h.lastRetry
      /\ s.retried = h.retried /\ s.low = (IF low THEN h.low + 1 ELSE 0)
      /\ s = [wifiDown |-> s.wifiDown, downSince |-> s.downSince,
              lastRetry |-> s.lastRetry, retried |-> s.retried, low |-> s.low]
  BY DEF HealthStates
<1>2. h.low \in 0 .. LowStreak - 1 /\ s.low \in 0 .. LowStreak
  BY <1>1, Constants DEF HealthStates
<1>3. s.low < LowStreak => s \in HealthStates
  BY <1>1, <1>2, Constants DEF HealthStates
<1>4. out \in 0 .. Wrap - 1 /\ wait \in 0 .. Wrap - 1 /\ Since(t, t) = 0
  BY SinceTyped DEF HealthStates
<1>5. e = IF s.low >= LowStreak THEN [act |-> "reboot", st |-> s] ELSE EvaluateWifi(s, up, t)
  BY DEF Evaluate
<1> HIDE DEF s
<1>6. CASE s.low >= LowStreak
  BY <1>1, <1>2, <1>5, <1>6, Constants
<1>7. CASE s.low < LowStreak /\ up
  <2>1. e = [act |-> "ok", st |-> WifiUp(s)]
    BY <1>2, <1>5, <1>7, Constants DEF EvaluateWifi
  <2>2. WifiUp(s) \in HealthStates /\ WifiUp(s).wifiDown = FALSE
    BY <1>3, <1>7 DEF WifiUp, HealthStates
  <2>3. Accounted(WifiUp(s), t, 0, 0, 0)
    BY <2>2 DEF Accounted
  <2>4. e.act = "ok" /\ e.st = WifiUp(s)
    BY <2>1
  <2>5. QED
    BY <1>7, <2>2, <2>3, <2>4
<1>8. CASE s.low < LowStreak /\ ~up /\ ~h.wifiDown
  <2> DEFINE n == [s EXCEPT !.wifiDown = TRUE, !.downSince = t, !.retried = FALSE]
  <2>1. e = [act |-> "ok", st |-> n]
    BY <1>1, <1>2, <1>5, <1>8, Constants DEF EvaluateWifi, Noticed
  <2>2. n \in HealthStates /\ n.wifiDown = TRUE /\ n.downSince = t /\ n.retried = FALSE
    BY <1>3, <1>8 DEF HealthStates
  <2> HIDE DEF n
  <2>3. u <= 2 * Stall
    <3>1. u <= lag
      BY <1>8 DEF Accounted
    <3>2. QED
      BY <3>1, Constants
  <2>4. Accounted(n, t, u, 0, 0)
    BY <1>4, <2>2, <2>3, Constants DEF Accounted
  <2>5. QED
    BY <1>8, <2>1, <2>2, <2>4 DEF Noticed
<1>9. CASE s.low < LowStreak /\ ~up /\ h.wifiDown
  <2>1. /\ out <= u /\ u <= out + 2 * Stall
        /\ ~h.retried => p = out
        /\ h.retried => p = wait /\ out >= RetryAfter
    BY <1>9 DEF Accounted
  <2>2. CASE out >= RebootAfter
    <3>1. e.act = "reboot"
      BY <1>1, <1>2, <1>5, <1>9, <2>2, Constants DEF EvaluateWifi, Noticed
    <3>2. QED
      BY <1>4, <2>1, <2>2, <3>1, Constants
  <2>3. CASE out \in RetryAfter .. RebootAfter - 1 /\ (~h.retried \/ wait >= RetryAfter)
    <3> DEFINE n == [s EXCEPT !.retried = TRUE, !.lastRetry = t]
    <3>1. e = [act |-> "retry", st |-> n]
      BY <1>1, <1>2, <1>5, <1>9, <2>3, Constants DEF EvaluateWifi, Noticed, RetryDue
    <3>2. /\ n \in HealthStates /\ n.wifiDown = TRUE /\ n.retried = TRUE
          /\ n.downSince = h.downSince /\ n.lastRetry = t
      BY <1>1, <1>3, <1>9 DEF HealthStates
    <3> HIDE DEF n
    <3>3. Accounted(n, t, u, 0, 0)
      BY <1>4, <2>1, <2>3, <3>2, Constants DEF Accounted
    <3>4. QED
      BY <1>9, <3>1, <3>2, <3>3
  <2>4. CASE ~(out >= RebootAfter) /\ ~(out \in RetryAfter .. RebootAfter - 1
                                        /\ (~h.retried \/ wait >= RetryAfter))
    <3>1. e = [act |-> "ok", st |-> s]
      BY <1>1, <1>2, <1>4, <1>5, <1>9, <2>4, Constants DEF EvaluateWifi, Noticed, RetryDue
    <3>2. p <= RetryAfter - 1 /\ out <= RebootAfter - 1
      BY <1>4, <2>1, <2>4, Constants
    <3>3. Accounted(s, t, u, p, 0)
      BY <1>1, <1>4, <1>9, <2>1, <3>2, Constants DEF Accounted
    <3>4. QED
      BY <1>3, <1>9, <3>1, <3>3 DEF Noticed
  <2>5. QED
    BY <2>2, <2>3, <2>4
<1>10. QED
  BY <1>2, <1>6, <1>7, <1>8, <1>9, Constants

-----------------------------------------------------------------------------
(* The inductive invariant.                                                *)

\* How old the last sample can be.  A pass samples unless it blocks before the
\* health task, and it starts right when the pass before it ends.
Lag == IF "health" \notin due THEN 0
       ELSE IF stuck /\ stage \in TaskStages THEN Stall + idle ELSE idle

\* Nothing of the loop's is in use before the loop runs.
Asleep ==
  phase # "loop" => /\ now = 0 /\ beat = 0 /\ stuck = FALSE /\ due = {}
                    /\ health = Healthy /\ idle = 0 /\ unseen = 0 /\ patience = 0

\* The record in RTC memory tells a stall from any other restart.
Recorded ==
  /\ phase = "boot" => /\ rtc.stalled = (reset.kind = "watchdog")
                       /\ rtc.stalled => rtc.stage = reset.stage
  /\ phase = "loop" => reset = Nothing

\* The watchdog's clock reads the loop's true absence, which is the shorter
\* once the timer has fired; a blocked pass is over before the next one.
Beating ==
  phase = "loop" => /\ Since(now, beat) = idle /\ idle <= Stall
                    /\ "timer" \notin due => idle < Stall
                    /\ stuck => "pass" \notin due
                    /\ ~stuck /\ "pass" \notin due => "health" \notin due

\* The health task's record accounts for the outage.
Watching == phase = "loop" => Accounted(health, now, unseen, patience, Lag)

SupervisorIInv ==
  SupervisorTypeOK /\ StallReportedOnce /\ Asleep /\ Recorded /\ Beating /\ Watching

\* The types, one by one.
LEMMA SupervisorTyped ==
  ASSUME SupervisorTypeOK
  PROVE  /\ now \in Clock /\ beat \in Clock /\ stage \in Stages /\ health \in HealthStates
         /\ idle \in Nat /\ unseen \in Nat /\ patience \in Nat
         /\ idle <= Longest /\ unseen <= Longest /\ patience <= Longest
         /\ rtc \in [stage: Stages \cup {"none"}, stalled: BOOLEAN]
         /\ rtc.stalled => phase = "boot"
  BY Constants DEF SupervisorTypeOK, HealthStates

LEMMA StartTyped ==
  0 \in Clock /\ Healthy \in HealthStates /\ "loop" \in Stages /\ 0 <= Longest
  BY Constants DEF Clock, Healthy, HealthStates, Stages

LEMMA InitSupervisorIInv ==
  ASSUME SupervisorInit
  PROVE  SupervisorIInv
<1>1. SupervisorTypeOK
  <2>1. rtc \in [stage: Stages \cup {"none"}, stalled: BOOLEAN] /\ rtc.stalled = FALSE
    BY DEF SupervisorInit, NoRecord
  <2>2. report.kind = "none"
    BY DEF SupervisorInit, Nothing
  <2>3. {idle, unseen, patience} \subseteq 0 .. Longest
    BY StartTyped, Constants DEF SupervisorInit
  <2>4. QED
    BY <2>1, <2>2, <2>3, StartTyped DEF SupervisorInit, SupervisorTypeOK, HealthStates
<1>2. QED
  BY <1>1 DEF SupervisorInit, SupervisorIInv, StallReportedOnce, Asleep, Recorded,
              Beating, Watching, NoRecord

\* A restart keeps the invariant if the record tells its cause.
LEMMA RestartKeeps ==
  ASSUME NEW cause, Restart(cause), stage' \in Stages,
         rtc' \in [stage: Stages \cup {"none"}, stalled: BOOLEAN],
         rtc'.stalled = (cause = "watchdog"), rtc'.stalled => rtc'.stage = stage'
  PROVE  SupervisorIInv'
<1>1. SupervisorTypeOK'
  <2>1. report'.kind = "none"
    BY DEF Restart, Nothing
  <2>2. {idle', unseen', patience'} \subseteq 0 .. Longest
    BY StartTyped, Constants DEF Restart
  <2>3. QED
    BY <2>1, <2>2, StartTyped DEF Restart, SupervisorTypeOK, HealthStates
<1>2. reset'.kind = cause /\ reset'.stage = stage'
  BY DEF Restart
<1>3. QED
  BY <1>1, <1>2 DEF Restart, SupervisorIInv, StallReportedOnce, Asleep, Recorded,
              Beating, Watching

-----------------------------------------------------------------------------
(* Every step keeps the invariant.                                         *)

\* The last sample is at most two stalls old.
LEMMA LagBounded ==
  ASSUME SupervisorIInv, phase = "loop"
  PROVE  Lag \in 0 .. 2 * Stall
<1>1. idle \in Nat /\ idle <= Stall
  BY SupervisorTyped DEF SupervisorIInv, Beating
<1>2. QED
  BY <1>1, Constants DEF Lag

\* A step inside loop() keeps the invariant if the watchdog's view and the
\* health task's account of it are true.
LEMMA LoopStepKeeps ==
  ASSUME SupervisorIInv, phase = "loop", phase' = "loop",
         now' \in Clock, beat' \in Clock, stage' \in Stages, stuck' \in BOOLEAN,
         due' \subseteq {"timer", "pass", "health"}, health' \in HealthStates,
         idle' \in 0 .. Longest, unseen' \in 0 .. Longest, patience' \in 0 .. Longest,
         rtc' \in [stage: Stages \cup {"none"}, stalled: BOOLEAN], ~rtc'.stalled,
         reset' = reset, report' = report,
         Beating', Watching'
  PROVE  SupervisorIInv'
<1>1. report'.kind \in {"none", "stalled", "crashed"}
  BY DEF SupervisorIInv, SupervisorTypeOK
<1>2. {idle', unseen', patience'} \subseteq 0 .. Longest
  OBVIOUS
<1>3. SupervisorTypeOK'
  BY <1>1, <1>2 DEF SupervisorTypeOK, HealthStates
<1>4. QED
  BY <1>3 DEF SupervisorIInv, StallReportedOnce, Asleep, Recorded

\* The health task restarts the device with reason, or renews its account.
LEMMA HealthTaskAccounts ==
  ASSUME SupervisorIInv, phase = "loop", NEW up \in BOOLEAN, NEW low \in BOOLEAN,
         HealthTask(up, low)
  PROVE  \/ /\ Restart("restart")
            /\ unseen >= RebootAfter \/ health.low = LowStreak - 1
         \/ /\ UNCHANGED <<phase, now, reset, report>>
            /\ health' \in HealthStates
            /\ unseen' \in 0 .. Longest /\ patience' \in 0 .. Longest
            /\ Accounted(health', now', unseen', patience', 0)
<1> DEFINE e == Evaluate(health, up, low, now)
<1>1. /\ now \in Clock /\ health \in HealthStates
      /\ unseen \in Nat /\ unseen <= Longest /\ patience \in Nat /\ patience <= Longest
  BY SupervisorTyped DEF SupervisorIInv
<1>2. /\ e.act = "reboot" => unseen >= RebootAfter \/ health.low = LowStreak - 1
      /\ e.act # "reboot" =>
           /\ e.st \in HealthStates
           /\ Accounted(e.st, now, IF up THEN 0 ELSE unseen,
                        IF up \/ Noticed(health) \/ e.act = "retry" THEN 0 ELSE patience, 0)
  <2>1. Accounted(health, now, unseen, patience, Lag) /\ Lag \in 0 .. 2 * Stall
    BY LagBounded DEF SupervisorIInv, Watching
  <2>2. QED
    BY <1>1, <2>1, SampleAccounted
<1>3. /\ e.act = "reboot" => Restart("restart")
      /\ e.act # "reboot" =>
           /\ health' = e.st /\ unseen' = (IF up THEN 0 ELSE unseen)
           /\ patience' = (IF up \/ Noticed(health) \/ e.act = "retry" THEN 0 ELSE patience)
           /\ UNCHANGED <<phase, now, reset, report>>
  BY DEF HealthTask
<1> HIDE DEF e
<1>4. e.act # "reboot" => unseen' \in 0 .. Longest /\ patience' \in 0 .. Longest
  BY <1>1, <1>3, Constants
<1>5. QED
  BY <1>2, <1>3, <1>4

\* The chip restarts: at any time, after any stage.
LEMMA RestartsKeep ==
  ASSUME SupervisorIInv, Crash \/ PowerCut \/ (Setup /\ Restart("crash"))
  PROVE  SupervisorIInv'
<1>1. /\ stage \in Stages /\ rtc \in [stage: Stages \cup {"none"}, stalled: BOOLEAN]
      /\ rtc.stalled => phase = "boot"
  BY SupervisorTyped DEF SupervisorIInv
<1>2. CASE PowerCut
  <2>1. /\ rtc' \in [stage: Stages \cup {"none"}, stalled: BOOLEAN] /\ ~rtc'.stalled
        /\ stage' \in Stages /\ Restart("power")
    BY <1>2, StartTyped DEF PowerCut, NoRecord
  <2>2. QED
    BY <2>1, RestartKeeps
<1>3. CASE Crash
  <2>1. rtc' = rtc /\ ~rtc.stalled /\ stage' \in Stages /\ Restart("crash")
    BY <1>1, <1>3 DEF Crash
  <2>2. QED
    BY <1>1, <2>1, RestartKeeps
<1>4. CASE Setup /\ Restart("crash")
  <2>1. rtc' = rtc /\ ~rtc.stalled /\ stage' = stage
    BY <1>1, <1>4 DEF Setup
  <2>2. QED
    BY <1>1, <1>4, <2>1, RestartKeeps
<1>5. QED
  BY <1>2, <1>3, <1>4

\* What the boot reports is what the record tells.
LEMMA ReportKeeps ==
  ASSUME SupervisorIInv, ReportPreviousStall
  PROVE  SupervisorIInv'
<1>1. /\ phase = "boot" /\ phase' = "setup" /\ stage' = "loop" /\ rtc' = NoRecord
      /\ report' = Report(rtc, reset.kind)
      /\ UNCHANGED <<now, beat, stuck, due, health, reset, idle, unseen, patience>>
  BY DEF ReportPreviousStall, Spent
<1>2. /\ rtc \in [stage: Stages \cup {"none"}, stalled: BOOLEAN]
      /\ rtc.stalled = (reset.kind = "watchdog")
      /\ rtc.stalled => rtc.stage = reset.stage
  BY <1>1, SupervisorTyped DEF SupervisorIInv, Recorded
<1>3. NoRecord \in [stage: Stages \cup {"none"}, stalled: BOOLEAN] /\ ~NoRecord.stalled
  BY DEF NoRecord
<1>4. /\ report'.kind \in {"none", "stalled", "crashed"}
      /\ report'.kind = "stalled" <=> rtc.stalled
      /\ report'.kind = "stalled" => report'.stage = rtc.stage
      /\ report'.kind = "crashed" => reset.kind = "crash"
  <2>1. CASE rtc = NoRecord
    BY <1>1, <1>3, <2>1 DEF Report, Nothing
  <2>2. CASE rtc # NoRecord
    BY <1>1, <2>2 DEF Report
  <2>3. QED
    BY <2>1, <2>2
<1>5. SupervisorTypeOK'
  BY <1>1, <1>3, <1>4, StartTyped DEF SupervisorIInv, SupervisorTypeOK
<1>6. StallReportedOnce'
  BY <1>1, <1>2, <1>4 DEF StallReportedOnce
<1>7. QED
  BY <1>1, <1>5, <1>6 DEF SupervisorIInv, Asleep, Recorded, Beating, Watching

\* The watchdog starts with the loop's clock and the health task's state fresh.
LEMMA SetupKeeps ==
  ASSUME SupervisorIInv, Setup, ~Restart("crash")
  PROVE  SupervisorIInv'
<1>1. /\ phase = "setup" /\ UNCHANGED <<stage, rtc>>
      /\ phase' = "loop" /\ beat' = now /\ due' = {}
      /\ report' = Nothing /\ reset' = Nothing
      /\ UNCHANGED <<now, stuck, health, idle, unseen, patience>>
  BY DEF Setup
<1>2. /\ now = 0 /\ stuck = FALSE /\ health = Healthy
      /\ idle = 0 /\ unseen = 0 /\ patience = 0
  BY <1>1 DEF SupervisorIInv, Asleep
<1>3. SupervisorTypeOK'
  <2>1. report'.kind = "none"
    BY <1>1 DEF Nothing
  <2>2. ~rtc.stalled
    BY <1>1 DEF SupervisorIInv, SupervisorTypeOK
  <2>3. QED
    BY <1>1, <2>1, <2>2 DEF SupervisorIInv, SupervisorTypeOK
<1>4. Since(now, now) = 0
  BY <1>2, StartTyped, SinceTyped
<1>5. Beating'
  BY <1>1, <1>2, <1>4, Constants DEF Beating
<1>6. Lag' = 0
  BY <1>1 DEF Lag
<1>7. Watching'
  BY <1>1, <1>2, <1>6 DEF Watching, Accounted, Healthy
<1>8. QED
  BY <1>1, <1>3, <1>5, <1>7 DEF SupervisorIInv, StallReportedOnce, Asleep, Recorded

\* Every clock and every true age advances by one, and the bounds hold because
\* time waits for the timer and for the pass.
LEMMA TickKeeps ==
  ASSUME SupervisorIInv, Tick
  PROVE  SupervisorIInv'
<1>1. /\ phase = "loop" /\ due \subseteq {"health"}
      /\ now' = (now + 1) % Wrap
      /\ idle' = Older(idle) /\ unseen' = Older(unseen) /\ patience' = Older(patience)
      /\ due' = {"timer", "health"} \cup (IF stuck THEN {} ELSE {"pass"})
      /\ UNCHANGED <<phase, beat, stage, stuck, health, rtc, reset, report>>
  BY DEF Tick
<1>2. /\ now \in Clock /\ beat \in Clock /\ stage \in Stages /\ stuck \in BOOLEAN
      /\ health \in HealthStates
      /\ idle \in Nat /\ unseen \in Nat /\ patience \in Nat
      /\ unseen <= Longest /\ patience <= Longest
      /\ rtc \in [stage: Stages \cup {"none"}, stalled: BOOLEAN] /\ ~rtc.stalled
  BY <1>1, SupervisorTyped DEF SupervisorIInv, SupervisorTypeOK
<1>3. /\ Since(now, beat) = idle /\ idle < Stall
      /\ ~stuck => "health" \notin due
  BY <1>1 DEF SupervisorIInv, Beating
<1>4. idle' = idle + 1 /\ idle' \in 0 .. Longest
  BY <1>1, <1>2, <1>3, Constants DEF Older
<1>5. unseen' \in 0 .. Longest /\ patience' \in 0 .. Longest
  BY <1>1, <1>2, Constants DEF Older
<1>6. Beating'
  <2>1. Since(now', beat') = idle'
    BY <1>1, <1>2, <1>3, <1>4, SinceTicks, Constants
  <2>2. idle' <= Stall
    BY <1>2, <1>3, <1>4, Constants
  <2>3. "timer" \in due' /\ (stuck' => "pass" \notin due') /\ (~stuck' => "pass" \in due')
    BY <1>1
  <2>4. QED
    BY <2>1, <2>2, <2>3 DEF Beating
<1>7. Lag \in 0 .. 2 * Stall /\ Lag' \in Nat /\ Lag < Lag'
  <2>1. "health" \in due'
    BY <1>1
  <2>2. Lag' = IF stuck /\ stage \in TaskStages THEN Stall + idle + 1 ELSE idle + 1
    BY <1>1, <1>2, <1>4, <2>1, Constants DEF Lag
  <2>3. QED
    BY <1>1, <1>2, <1>3, <2>2, LagBounded, Constants DEF Lag
<1>8. Watching'
  <2>1. Accounted(health, now, unseen, patience, Lag)
    BY <1>1 DEF SupervisorIInv, Watching
  <2> DEFINE more == Lag'
  <2>2. more \in Nat /\ Lag < more
    BY <1>7
  <2> HIDE DEF more
  <2>3. Accounted(health, (now + 1) % Wrap, Older(unseen), Older(patience), more)
    BY <1>2, <1>7, <2>1, <2>2, AccountTicks
  <2>4. QED
    BY <1>1, <2>3 DEF Watching, more
<1>9. now' \in Clock
  BY <1>1, <1>2, SinceTicks
<1>10. due' \subseteq {"timer", "pass", "health"}
  BY <1>1
<1>11. QED
  BY <1>1, <1>2, <1>4, <1>5, <1>6, <1>8, <1>9, <1>10, LoopStepKeeps

\* The timer finds the loop alive, or seals the record and resets the chip.
LEMMA LoopWdTickKeeps ==
  ASSUME SupervisorIInv, LoopWdTick
  PROVE  /\ SupervisorIInv'
         /\ reset'.kind = "watchdog" => idle >= Stall
<1>1. /\ phase = "loop" /\ "timer" \in due /\ stage' = stage
      /\ rtc' = [stage |-> stage, stalled |-> LoopStalled(now, beat)]
  BY DEF LoopWdTick, Seal
<1>2. /\ now \in Clock /\ beat \in Clock /\ stage \in Stages /\ stuck \in BOOLEAN
      /\ health \in HealthStates
      /\ idle \in 0 .. Longest /\ unseen \in 0 .. Longest /\ patience \in 0 .. Longest
      /\ due \subseteq {"timer", "pass", "health"}
  BY SupervisorTyped DEF SupervisorIInv, SupervisorTypeOK
<1>3. LoopStalled(now, beat) <=> idle >= Stall
  BY <1>1 DEF SupervisorIInv, Beating, LoopStalled
<1>4. CASE LoopStalled(now, beat)
  <2>1. Restart("watchdog")
    BY <1>4 DEF LoopWdTick
  <2>2. rtc' = [stage |-> stage, stalled |-> TRUE]
    <3>1. LoopStalled(now, beat) = TRUE
      BY <1>4 DEF LoopStalled
    <3>2. QED
      BY <1>1, <3>1
  <2>3. /\ rtc' \in [stage: Stages \cup {"none"}, stalled: BOOLEAN]
        /\ rtc'.stalled = TRUE /\ rtc'.stage = stage'
    <3>1. stage' = stage
      BY <1>1
    <3>2. QED
      BY <1>2, <2>2, <3>1
  <2>4. rtc'.stalled = ("watchdog" = "watchdog")
    BY <2>3
  <2>5. QED
    BY <1>1, <1>2, <1>3, <1>4, <2>1, <2>2, <2>3, <2>4, RestartKeeps
<1>5. CASE ~LoopStalled(now, beat)
  <2>1. /\ due' = due \ {"timer"}
        /\ UNCHANGED <<phase, now, beat, stuck, health, reset, report, idle,
                       unseen, patience>>
    BY <1>5 DEF LoopWdTick
  <2>2. rtc' \in [stage: Stages \cup {"none"}, stalled: BOOLEAN] /\ ~rtc'.stalled
    <3>1. LoopStalled(now, beat) = FALSE
      BY <1>5 DEF LoopStalled
    <3>2. rtc' = [stage |-> stage, stalled |-> FALSE]
      BY <1>1, <3>1
    <3>3. QED
      BY <1>2, <3>2
  <2>3. Beating'
    <3>1. idle < Stall
      BY <1>2, <1>3, <1>5, Constants
    <3>2. QED
      BY <1>1, <2>1, <3>1 DEF SupervisorIInv, Beating
  <2>4. Lag' = Lag
    BY <1>1, <2>1 DEF Lag
  <2>5. Watching'
    BY <1>1, <2>1, <2>4 DEF SupervisorIInv, Watching
  <2>6. SupervisorIInv'
    BY <1>1, <1>2, <2>1, <2>2, <2>3, <2>5, LoopStepKeeps
  <2>7. reset'.kind = "none"
    BY <1>1, <2>1 DEF SupervisorIInv, Recorded, Nothing
  <2>8. QED
    BY <2>6, <2>7
<1>6. QED
  BY <1>4, <1>5

\* A pass samples WiFi if a sample is due, unless it blocks before the health
\* task; then the sample before it is as old as the pass before it.
LEMMA PassKeeps ==
  ASSUME SupervisorIInv, Pass
  PROVE  /\ SupervisorIInv'
         /\ phase' = "loop" => reset' = reset
         /\ phase' # "loop" => /\ reset'.kind = "restart"
                               /\ unseen >= RebootAfter \/ health.low = LowStreak - 1
<1>1. phase = "loop" /\ "pass" \in due
  BY DEF Pass
<1>2. PICK s \in Stages, skipped \in SUBSET (due \cap {"health"}) :
        /\ skipped # {} => s \in TaskStages
        /\ stage' = s /\ rtc' = rtc
        /\ IF "health" \in due \ skipped THEN \E up, low \in BOOLEAN : HealthTask(up, low)
           ELSE NoHealthTask
        /\ phase' = "loop" => /\ beat' = now /\ idle' = 0 /\ stuck' = (s # "loop")
                              /\ due' = (due \ {"pass", "health"}) \cup skipped
  BY DEF Pass
<1>3. /\ now \in Clock /\ health \in HealthStates
      /\ unseen \in 0 .. Longest /\ patience \in 0 .. Longest /\ idle \in Nat
      /\ due \subseteq {"timer", "pass", "health"}
      /\ rtc \in [stage: Stages \cup {"none"}, stalled: BOOLEAN] /\ ~rtc.stalled
  BY <1>1, SupervisorTyped DEF SupervisorIInv, SupervisorTypeOK
<1>4. ~stuck /\ Lag \in 0 .. 2 * Stall /\ idle <= Stall
  BY <1>1, LagBounded DEF SupervisorIInv, Beating
<1>5. ASSUME phase' = "loop", now' = now, reset' = reset, report' = report,
             health' \in HealthStates,
             unseen' \in 0 .. Longest, patience' \in 0 .. Longest,
             Accounted(health', now, unseen', patience',
                       IF "health" \in due \ skipped THEN 0 ELSE Lag)
      PROVE  SupervisorIInv'
  <2>1. /\ beat' = now /\ idle' = 0 /\ stuck' = (s # "loop") /\ stuck' \in BOOLEAN
        /\ due' = (due \ {"pass", "health"}) \cup skipped
    BY <1>2, <1>5
  <2>2. skipped \in SUBSET {"health"} /\ "pass" \notin due'
        /\ ("health" \in due' <=> skipped # {})
    BY <2>1
  <2>3. skipped # {} => /\ stage' \in TaskStages /\ stuck' = TRUE
                        /\ "health" \in due /\ "health" \notin due \ skipped
    BY <1>2, <2>1, Constants
  <2>4. Beating'
    <3>1. Since(now, now) = 0
      BY <1>3, SinceTyped
    <3>2. QED
      BY <1>5, <2>1, <2>2, <2>3, <3>1, Constants DEF Beating
  <2>5. CASE skipped # {}
    <3>1. Lag <= Stall /\ Lag' = Stall
      <4>1. Lag = idle
        BY <1>4, <2>3, <2>5 DEF Lag
      <4>2. Lag' = Stall + 0
        BY <2>1, <2>2, <2>3, <2>5 DEF Lag
      <4>3. QED
        BY <1>4, <4>1, <4>2, Constants
    <3>2. Accounted(health', now, unseen', patience', Lag)
      BY <1>5, <2>3, <2>5
    <3>3. Accounted(health', now, unseen', patience', Stall)
      BY <1>3, <1>4, <1>5, <3>1, <3>2, LooserAccount, Constants
    <3>4. Watching'
      BY <1>5, <3>1, <3>3 DEF Watching
    <3>5. QED
      BY <1>1, <1>2, <1>3, <1>5, <2>1, <2>4, <3>4, LoopStepKeeps, Constants
  <2>6. CASE skipped = {}
    <3>1. Lag' = 0
      BY <2>2, <2>6 DEF Lag
    <3>2. Accounted(health', now, unseen', patience', 0)
      <4>1. CASE "health" \in due
        BY <1>5, <2>6, <4>1
      <4>2. CASE "health" \notin due
        BY <1>5, <2>6, <4>2 DEF Lag
      <4>3. QED
        BY <4>1, <4>2
    <3>3. Watching'
      BY <1>5, <3>1, <3>2 DEF Watching
    <3>4. QED
      BY <1>1, <1>2, <1>3, <1>5, <2>1, <2>4, <3>3, LoopStepKeeps, Constants
  <2>7. QED
    BY <2>5, <2>6
<1>6. CASE "health" \in due \ skipped
  <2>1. PICK up \in BOOLEAN, low \in BOOLEAN : HealthTask(up, low)
    BY <1>2, <1>6
  <2>2. CASE /\ Restart("restart")
             /\ unseen >= RebootAfter \/ health.low = LowStreak - 1
    <3>1. phase' = "boot" /\ reset'.kind = "restart"
      BY <2>2 DEF Restart
    <3>2. SupervisorIInv'
      BY <1>2, <1>3, <2>2, RestartKeeps
    <3>3. QED
      BY <2>2, <3>1, <3>2
  <2>3. CASE /\ UNCHANGED <<phase, now, reset, report>>
             /\ health' \in HealthStates
             /\ unseen' \in 0 .. Longest /\ patience' \in 0 .. Longest
             /\ Accounted(health', now', unseen', patience', 0)
    BY <1>1, <1>5, <1>6, <2>3
  <2>4. QED
    BY <1>1, <2>1, <2>2, <2>3, HealthTaskAccounts
<1>7. CASE ~("health" \in due \ skipped)
  <2>1. UNCHANGED <<phase, now, health, reset, report, unseen, patience>>
    BY <1>2, <1>7 DEF NoHealthTask
  <2>2. Accounted(health, now, unseen, patience, Lag)
    BY <1>1 DEF SupervisorIInv, Watching
  <2>3. QED
    BY <1>1, <1>3, <1>5, <1>7, <2>1, <2>2
<1>8. QED
  BY <1>6, <1>7

\* A pass goes on behind the call it blocked in, and samples if that was before
\* the health task.
LEMMA ResumeKeeps ==
  ASSUME SupervisorIInv, Resume
  PROVE  /\ SupervisorIInv'
         /\ phase' = "loop" => reset' = reset
         /\ phase' # "loop" => /\ reset'.kind = "restart"
                               /\ unseen >= RebootAfter \/ health.low = LowStreak - 1
<1> DEFINE samples == stage \in TaskStages /\ "health" \in due
<1>1. /\ phase = "loop" /\ stuck /\ stage' = "loop" /\ rtc' = rtc
      /\ IF samples THEN \E up, low \in BOOLEAN : HealthTask(up, low) ELSE NoHealthTask
      /\ phase' = "loop" =>
           /\ stuck' = FALSE /\ beat' = beat /\ idle' = idle
           /\ due' = (IF stage \in TaskStages THEN due \ {"health"} ELSE due) \cup {"pass"}
  BY DEF Resume
<1>2. /\ now \in Clock /\ beat \in Clock /\ health \in HealthStates
      /\ unseen \in 0 .. Longest /\ patience \in 0 .. Longest /\ idle \in 0 .. Longest
      /\ due \subseteq {"timer", "pass", "health"} /\ stage' \in Stages
      /\ rtc \in [stage: Stages \cup {"none"}, stalled: BOOLEAN] /\ ~rtc.stalled
  BY <1>1, StartTyped, SupervisorTyped DEF SupervisorIInv, SupervisorTypeOK
<1>3. ASSUME phase' = "loop", now' = now, reset' = reset, report' = report,
             health' \in HealthStates,
             unseen' \in 0 .. Longest, patience' \in 0 .. Longest,
             Accounted(health', now, unseen', patience', IF samples THEN 0 ELSE Lag)
      PROVE  SupervisorIInv'
  <2>1. /\ stuck' = FALSE /\ beat' = beat /\ idle' = idle
        /\ due' = (IF stage \in TaskStages THEN due \ {"health"} ELSE due) \cup {"pass"}
    BY <1>1, <1>3
  <2>2. /\ "pass" \in due' /\ ("timer" \notin due' => "timer" \notin due)
        /\ due' \subseteq {"timer", "pass", "health"}
    BY <1>2, <2>1
  <2>3. Beating'
    BY <1>1, <1>3, <2>1, <2>2 DEF SupervisorIInv, Beating
  <2>4. Lag' = IF samples THEN 0 ELSE Lag
    <3>1. CASE stage \in TaskStages
      <4>1. "health" \notin due'
        BY <2>1, <3>1
      <4>2. Lag' = 0
        BY <4>1 DEF Lag
      <4>3. QED
        BY <3>1, <4>2 DEF Lag
    <3>2. CASE stage \notin TaskStages
      <4>1. "health" \in due' <=> "health" \in due
        BY <2>1, <3>2
      <4>2. QED
        BY <2>1, <3>2, <4>1 DEF Lag
    <3>3. QED
      BY <3>1, <3>2
  <2>5. Watching'
    BY <1>3, <2>4 DEF Watching
  <2>6. QED
    BY <1>1, <1>2, <1>3, <2>1, <2>2, <2>3, <2>5, LoopStepKeeps
<1>4. CASE samples
  <2>1. PICK up \in BOOLEAN, low \in BOOLEAN : HealthTask(up, low)
    BY <1>1, <1>4
  <2>2. CASE /\ Restart("restart")
             /\ unseen >= RebootAfter \/ health.low = LowStreak - 1
    <3>1. phase' = "boot" /\ reset'.kind = "restart"
      BY <2>2 DEF Restart
    <3>2. SupervisorIInv'
      BY <1>1, <1>2, <2>2, RestartKeeps
    <3>3. QED
      BY <2>2, <3>1, <3>2
  <2>3. CASE /\ UNCHANGED <<phase, now, reset, report>>
             /\ health' \in HealthStates
             /\ unseen' \in 0 .. Longest /\ patience' \in 0 .. Longest
             /\ Accounted(health', now', unseen', patience', 0)
    BY <1>1, <1>3, <1>4, <2>3
  <2>4. QED
    BY <1>1, <2>1, <2>2, <2>3, HealthTaskAccounts
<1>5. CASE ~samples
  <2>1. UNCHANGED <<phase, now, health, reset, report, unseen, patience>>
    BY <1>1, <1>5 DEF NoHealthTask
  <2>2. Accounted(health, now, unseen, patience, Lag)
    BY <1>1 DEF SupervisorIInv, Watching
  <2>3. QED
    BY <1>1, <1>2, <1>3, <1>5, <2>1, <2>2
<1>6. QED
  BY <1>4, <1>5

\* Every step of the device keeps the invariant.
LEMMA StepSupervisorIInv ==
  ASSUME SupervisorIInv, [SupervisorNext]_svars
  PROVE  SupervisorIInv'
<1>1. CASE UNCHANGED svars
  BY <1>1 DEF svars, SupervisorIInv, SupervisorTypeOK, StallReportedOnce, Asleep,
              Recorded, Beating, Watching, Lag
<1>2. CASE Setup
  BY <1>2, RestartsKeep, SetupKeeps
<1>3. QED
  BY <1>1, <1>2, ReportKeeps, TickKeeps, LoopWdTickKeeps, PassKeeps, ResumeKeeps,
     RestartsKeep DEF SupervisorNext

\* What the invariant says of an outage.
LEMMA OutageBounded ==
  ASSUME SupervisorIInv
  PROVE  OutageIsActedOn
<1> SUFFICES ASSUME phase = "loop"
             PROVE  /\ unseen <= RebootAfter + 4 * Stall
                    /\ health.wifiDown => patience <= RetryAfter + 2 * Stall
  BY DEF OutageIsActedOn
<1> DEFINE out == Since(now, health.downSince)
<1>1. Accounted(health, now, unseen, patience, Lag) /\ Lag \in 0 .. 2 * Stall
  BY LagBounded DEF SupervisorIInv, Watching
<1>2. out \in 0 .. Wrap - 1 /\ unseen \in Nat /\ patience \in Nat
  BY SupervisorTyped, SinceTyped DEF SupervisorIInv, HealthStates
<1>3. /\ health.wifiDown => /\ unseen <= out + 2 * Stall /\ out <= RebootAfter - 1 + Lag
                            /\ patience <= RetryAfter - 1 + Lag
      /\ ~health.wifiDown => unseen <= Lag
  BY <1>1 DEF Accounted
<1> HIDE DEF out
<1>4. QED
  BY <1>1, <1>2, <1>3, Constants

-----------------------------------------------------------------------------
(* The theorems.                                                           *)

\* The inductive invariant: the watchdog's clock, the health task's record and
\* the record in RTC memory tell the truth of what they stand for.
THEOREM SupervisorInvariant == SupervisorSpec => []SupervisorIInv
<1>1. SupervisorInit => SupervisorIInv
  BY InitSupervisorIInv
<1>2. SupervisorIInv /\ [SupervisorNext]_svars => SupervisorIInv'
  BY StepSupervisorIInv
<1>3. QED
  BY <1>1, <1>2, PTL DEF SupervisorSpec

\* Types; the stalled flag is set only between a watchdog reset and its report.
THEOREM SupervisorTypeCorrect == SupervisorSpec => []SupervisorTypeOK
<1>1. SupervisorIInv => SupervisorTypeOK
  BY DEF SupervisorIInv
<1>2. QED
  BY <1>1, SupervisorInvariant, PTL

\* loopWdTick: no loop stays away longer than LOOP_STALL_MS.
THEOREM StallAlwaysCaught == SupervisorSpec => []StallIsCaught
<1>1. SupervisorIInv => StallIsCaught
  BY DEF SupervisorIInv, Beating, StallIsCaught
<1>2. QED
  BY <1>1, SupervisorInvariant, PTL

\* reportPreviousStall: a watchdog reset is reported at the next boot, with the
\* stage the loop was in, and at no other.
THEOREM StallAlwaysReported == SupervisorSpec => []StallReportedOnce
<1>1. SupervisorIInv => StallReportedOnce
  BY DEF SupervisorIInv
<1>2. QED
  BY <1>1, SupervisorInvariant, PTL

\* loopWdTick: only a loop that was away for LOOP_STALL_MS is reset, wherever
\* millis() wraps.
THEOREM OnlyStallsAreReset == SupervisorSpec => ResetsOnlyStalls
<1>1. SupervisorIInv /\ [SupervisorNext]_svars =>
        [phase = "loop" /\ reset'.kind = "watchdog" => idle >= Stall]_svars
  <2> SUFFICES ASSUME SupervisorIInv, SupervisorNext, phase = "loop",
                      reset'.kind = "watchdog"
               PROVE  idle >= Stall
    OBVIOUS
  <2>1. reset.kind # "watchdog"
    BY DEF SupervisorIInv, Recorded, Nothing
  <2>2. CASE LoopWdTick
    BY <2>2, LoopWdTickKeeps
  <2>3. CASE Pass
    BY <2>1, <2>3, PassKeeps
  <2>4. CASE Resume
    BY <2>1, <2>4, ResumeKeeps
  <2>5. CASE Tick
    BY <2>1, <2>5 DEF Tick
  <2>6. CASE Crash \/ PowerCut
    BY <2>6 DEF Crash, PowerCut, Restart
  <2>7. QED
    BY <2>2, <2>3, <2>4, <2>5, <2>6 DEF SupervisorNext, ReportPreviousStall, Setup
<1>2. QED
  BY <1>1, SupervisorInvariant, PTL DEF SupervisorSpec, ResetsOnlyStalls

\* healthEvaluate: a reboot follows a full streak of low heap or a whole limit
\* in which no sample found WiFi up.
THEOREM RebootsAreEarned == SupervisorSpec => RebootIsEarned
<1>1. SupervisorIInv /\ [SupervisorNext]_svars =>
        [phase = "loop" /\ reset'.kind = "restart" =>
           unseen >= RebootAfter \/ health.low = LowStreak - 1]_svars
  <2> SUFFICES ASSUME SupervisorIInv, SupervisorNext, phase = "loop",
                      reset'.kind = "restart"
               PROVE  unseen >= RebootAfter \/ health.low = LowStreak - 1
    OBVIOUS
  <2>1. reset.kind # "restart"
    BY DEF SupervisorIInv, Recorded, Nothing
  <2>2. CASE LoopWdTick
    BY <2>1, <2>2 DEF LoopWdTick, Restart
  <2>3. CASE Pass
    BY <2>1, <2>3, PassKeeps
  <2>4. CASE Resume
    BY <2>1, <2>4, ResumeKeeps
  <2>5. CASE Tick
    BY <2>1, <2>5 DEF Tick
  <2>6. CASE Crash \/ PowerCut
    BY <2>6 DEF Crash, PowerCut, Restart
  <2>7. QED
    BY <2>2, <2>3, <2>4, <2>5, <2>6 DEF SupervisorNext, ReportPreviousStall, Setup
<1>2. QED
  BY <1>1, SupervisorInvariant, PTL DEF SupervisorSpec, RebootIsEarned

\* healthEvaluate and the scheduler: an outage is retried, and ends in a reboot,
\* within bounds that missed samples stretch by a few stalls at most.
THEOREM OutagesAreActedOn == SupervisorSpec => []OutageIsActedOn
<1>1. SupervisorIInv => OutageIsActedOn
  BY OutageBounded
<1>2. QED
  BY <1>1, SupervisorInvariant, PTL
=============================================================================
