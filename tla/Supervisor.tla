----------------------------- MODULE Supervisor -----------------------------
(***************************************************************************)
(* What restarts the device: the loop watchdog (src/util/LoopWatchdog.h    *)
(* with loopWdTick and reportPreviousStall of main.cpp), and the health    *)
(* task (src/util/Health.h), which runs in the very loop the watchdog      *)
(* supervises.  A unit of time is one period of the health task; the       *)
(* watchdog's timer fires at least once in it.  Clocks are unsigned and    *)
(* wrap, as millis() does.                                                 *)
(***************************************************************************)
EXTENDS Integers

CONSTANTS
  TaskStages,   \* stages of the tasks taskManager runs, the health task among them
  LaterStages,  \* stages of loop() behind them
  Stall,        \* LOOP_STALL_MS
  RetryAfter,   \* HEALTH_WIFI_RETRY_MS
  RebootAfter,  \* HEALTH_WIFI_REBOOT_MS
  LowStreak,    \* HEALTH_LOW_STREAK
  Wrap          \* clocks count modulo this (2^32 ms)

ASSUME SupervisorAssumption ==
  /\ "loop" \notin TaskStages
  /\ Stall \in Nat \ {0} /\ LowStreak \in Nat \ {0}
  /\ RetryAfter \in Nat \ {0} /\ RebootAfter \in Nat /\ RebootAfter > RetryAfter
  /\ Wrap \in Nat /\ Wrap > RebootAfter + 4 * Stall

VARIABLES
  phase,    \* "boot": before reportPreviousStall, "setup", or "loop"
  now,      \* millis()
  beat,     \* loopBeatAt
  stage,    \* loopStage
  stuck,    \* a call in loop() blocks, yielding all the while
  due,      \* "timer", "pass", "health": what is to happen in this unit
  health,   \* HealthState
  rtc,      \* the record in RTC memory, NoRecord if it is not valid
  reset,    \* what caused the last restart, and the stage it found
  report,   \* history: what reportPreviousStall logged, cleared after setup
  idle,     \* history: true age of the loop's last pass
  unseen,   \* history: true time since a sample found WiFi up, or since boot
  patience  \* history: true time since the outage was noticed or last retried

svars == <<phase, now, beat, stage, stuck, due, health, rtc, reset, report,
           idle, unseen, patience>>

Stages == TaskStages \cup LaterStages \cup {"loop"}
NoRecord == [stage |-> "none", stalled |-> FALSE]
Nothing == [kind |-> "none", stage |-> "none"]
Healthy == [wifiDown |-> FALSE, downSince |-> 0, lastRetry |-> 0, retried |-> FALSE, low |-> 0]
Longest == 2 * Wrap
Older(t) == IF t < Longest THEN t + 1 ELSE t

\* Unsigned difference of two clock readings.
Since(t, start) == (t - start) % Wrap

\* Mutant: the sum is compared, not the difference.
LoopStalledSum(t, last) == t >= (last + Stall) % Wrap

\* Mutant: the difference is not taken modulo the clock.
LoopStalledWide(t, last) == t - last >= Stall

LoopStalled(t, last) == Since(t, last) >= Stall

\* Mutant: the flag is left to the next boot to guess.
SealUnflagged(s, stalled) == [stage |-> s, stalled |-> FALSE]

Seal(s, stalled) == [stage |-> s, stalled |-> stalled]
-----------------------------------------------------------------------------
\* Mutant: a sample that finds WiFi up does not end the outage.
WifiUpForgotten(h) == [h EXCEPT !.retried = FALSE]

WifiUp(h) == [h EXCEPT !.wifiDown = FALSE, !.retried = FALSE]

\* Mutant: every sample starts the outage anew.
NoticedAlways(h) == TRUE

\* The outage is new.
Noticed(h) == ~h.wifiDown

\* Mutant: the first retry, too, waits for the one of an earlier outage.
RetryDueAfterLast(h, t) == Since(t, h.lastRetry) >= RetryAfter

RetryDue(h, t) == ~h.retried \/ Since(t, h.lastRetry) >= RetryAfter

\* healthEvaluate behind its heap check.
EvaluateWifi(h, up, t) ==
  CASE up          -> [act |-> "ok", st |-> WifiUp(h)]
    [] ~up /\ Noticed(h) ->
         [act |-> "ok", st |-> [h EXCEPT !.wifiDown = TRUE, !.downSince = t, !.retried = FALSE]]
    [] ~up /\ ~Noticed(h) /\ Since(t, h.downSince) >= RebootAfter ->
         [act |-> "reboot", st |-> h]
    [] ~up /\ ~Noticed(h) /\ Since(t, h.downSince) \in RetryAfter .. RebootAfter - 1
           /\ RetryDue(h, t) ->
         [act |-> "retry", st |-> [h EXCEPT !.retried = TRUE, !.lastRetry = t]]
    [] OTHER -> [act |-> "ok", st |-> h]

\* healthEvaluate: low tells whether the heap or its largest block is too small.
Evaluate(h, up, low, t) ==
  LET s == [h EXCEPT !.low = IF low THEN @ + 1 ELSE 0]
  IN  IF s.low >= LowStreak THEN [act |-> "reboot", st |-> s] ELSE EvaluateWifi(s, up, t)
-----------------------------------------------------------------------------
\* A restart: RAM and clocks are lost, the RTC memory is not.
Restart(cause) ==
  /\ phase' = "boot" /\ reset' = [kind |-> cause, stage |-> stage']
  /\ now' = 0 /\ beat' = 0 /\ stuck' = FALSE /\ due' = {} /\ health' = Healthy
  /\ report' = Nothing /\ idle' = 0 /\ unseen' = 0 /\ patience' = 0

SupervisorInit ==
  /\ phase = "boot" /\ reset = [kind |-> "power", stage |-> "loop"]
  /\ now = 0 /\ beat = 0 /\ stage = "loop" /\ stuck = FALSE /\ due = {} /\ health = Healthy
  /\ rtc = NoRecord /\ report = Nothing /\ idle = 0 /\ unseen = 0 /\ patience = 0

\* reportPreviousStall, the first thing setup() does.
Report(r, cause) ==
  IF r = NoRecord THEN Nothing
  ELSE [kind  |-> IF r.stalled THEN "stalled" ELSE IF cause = "crash" THEN "crashed" ELSE "none",
        stage |-> IF r.stalled \/ cause = "crash" THEN r.stage ELSE "none"]

\* Mutant: the record stays valid after it has been reported.
SpentNever(r) == r

Spent(r) == NoRecord

ReportPreviousStall ==
  /\ phase = "boot" /\ phase' = "setup" /\ stage' = "loop"
  /\ report' = Report(rtc, reset.kind) /\ rtc' = Spent(rtc)
  /\ UNCHANGED <<now, beat, stuck, due, health, reset, idle, unseen, patience>>

\* The rest of setup() ends by starting the watchdog, or crashes.
Setup ==
  /\ phase = "setup" /\ UNCHANGED <<stage, rtc>>
  /\ \/ Restart("crash")
     \/ /\ phase' = "loop" /\ beat' = now /\ due' = {}
        /\ report' = Nothing /\ reset' = Nothing
        /\ UNCHANGED <<now, stuck, health, idle, unseen, patience>>

\* Time passes once everything due has happened; a blocked loop makes no pass.
Tick ==
  /\ phase = "loop" /\ due \subseteq {"health"}
  /\ now' = (now + 1) % Wrap
  /\ idle' = Older(idle) /\ unseen' = Older(unseen) /\ patience' = Older(patience)
  /\ due' = {"timer", "health"} \cup (IF stuck THEN {} ELSE {"pass"})
  /\ UNCHANGED <<phase, beat, stage, stuck, health, rtc, reset, report>>

\* loopWdTick
LoopWdTick ==
  /\ phase = "loop" /\ "timer" \in due /\ stage' = stage
  /\ LET stalled == LoopStalled(now, beat) IN
     /\ rtc' = Seal(stage, stalled)
     /\ IF stalled THEN Restart("watchdog")
        ELSE /\ due' = due \ {"timer"}
             /\ UNCHANGED <<phase, now, beat, stuck, health, reset, report, idle,
                            unseen, patience>>

\* The health task, when it is due.
HealthTask(up, low) ==
  LET e == Evaluate(health, up, low, now) IN
  IF e.act = "reboot" THEN Restart("restart")
  ELSE /\ health' = e.st
       /\ unseen' = IF up THEN 0 ELSE unseen
       /\ patience' = IF up \/ Noticed(health) \/ e.act = "retry" THEN 0 ELSE patience
       /\ UNCHANGED <<phase, now, reset, report>>

NoHealthTask == UNCHANGED <<phase, now, health, reset, report, unseen, patience>>

\* A pass of loop() that ends, or blocks in stage s, which may come before the
\* health task.  A pass blocks in one stage at most.
Pass ==
  /\ phase = "loop" /\ "pass" \in due
  /\ \E s \in Stages, skipped \in SUBSET (due \cap {"health"}) :
       /\ skipped # {} => s \in TaskStages
       /\ stage' = s /\ rtc' = rtc
       /\ IF "health" \in due \ skipped THEN \E up, low \in BOOLEAN : HealthTask(up, low)
          ELSE NoHealthTask
       /\ phase' = "loop" => /\ beat' = now /\ idle' = 0 /\ stuck' = (s # "loop")
                             /\ due' = (due \ {"pass", "health"}) \cup skipped

\* The blocking call returns and the pass goes on to its end, where loop() comes
\* round at once.
Resume ==
  /\ phase = "loop" /\ stuck /\ stage' = "loop" /\ rtc' = rtc
  /\ IF stage \in TaskStages /\ "health" \in due
     THEN \E up, low \in BOOLEAN : HealthTask(up, low)
     ELSE NoHealthTask
  /\ phase' = "loop" =>
       /\ stuck' = FALSE /\ UNCHANGED <<beat, idle>>
       /\ due' = (IF stage \in TaskStages THEN due \ {"health"} ELSE due) \cup {"pass"}

\* The hardware watchdog or an exception, in any stage of a pass; power is cut.
Crash ==
  /\ phase = "loop"
  /\ \/ "pass" \in due /\ stage' \in Stages
     \/ stuck /\ stage' = stage
  /\ rtc' = rtc /\ Restart("crash")

PowerCut ==
  /\ stage' = "loop" /\ rtc' = NoRecord /\ Restart("power")

SupervisorNext == \/ ReportPreviousStall \/ Setup \/ Tick \/ LoopWdTick \/ Pass
                  \/ Resume \/ Crash \/ PowerCut

SupervisorSpec == SupervisorInit /\ [][SupervisorNext]_svars
-----------------------------------------------------------------------------
Clock == 0 .. Wrap - 1

SupervisorTypeOK ==
  /\ phase \in {"boot", "setup", "loop"}
  /\ now \in Clock /\ beat \in Clock /\ stage \in Stages /\ stuck \in BOOLEAN
  /\ due \subseteq {"timer", "pass", "health"}
  /\ health \in [wifiDown: BOOLEAN, downSince: Clock, lastRetry: Clock,
                 retried: BOOLEAN, low: 0 .. LowStreak - 1]
  /\ rtc \in [stage: Stages \cup {"none"}, stalled: BOOLEAN]
  /\ (rtc.stalled => phase = "boot")
  /\ report.kind \in {"none", "stalled", "crashed"}
  /\ {idle, unseen, patience} \subseteq 0 .. Longest

\* The watchdog resets the chip only after the loop has truly been away for the
\* limit, wherever the clock wraps, and never later than the limit: a loop that
\* hangs while yielding does not hang for ever (README, "Loop watchdog").
StallIsCaught == phase = "loop" => idle <= Stall

ResetsOnlyStalls ==
  [][phase = "loop" /\ reset'.kind = "watchdog" => idle >= Stall]_svars

\* The boot after a watchdog reset, and no other, reports a stall, and in the
\* stage where the loop was.
StallReportedOnce ==
  phase = "setup" => /\ (report.kind = "stalled") = (reset.kind = "watchdog")
                     /\ report.kind = "stalled" => report.stage = reset.stage
                     /\ report.kind = "crashed" => reset.kind = "crash"

\* The health task restarts the device only for an exhausted heap or when no
\* sample has found WiFi up for the whole limit; so an access point that comes
\* and goes causes no loop of reboots (README, "Supervisor").
RebootIsEarned ==
  [][phase = "loop" /\ reset'.kind = "restart" =>
       unseen >= RebootAfter \/ health.low = LowStreak - 1]_svars

\* An outage without end does end in a restart, though samples are missed while
\* the loop is blocked and the clock wraps, and until then retries go on.  Two
\* samples are at most twice Stall apart: a pass that blocks behind the health
\* task may be followed by one that blocks before it.
OutageIsActedOn ==
  phase = "loop" => /\ unseen <= RebootAfter + 4 * Stall
                    /\ health.wifiDown => patience <= RetryAfter + 2 * Stall
=============================================================================
