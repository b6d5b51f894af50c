--------------------------- MODULE SaverAlgorithm ---------------------------
(***************************************************************************)
(* The pure decisions of src/control/SaverAlgorithm.h.  Powers are in any  *)
(* unit the constants below are given in.                                  *)
(***************************************************************************)
EXTENDS Integers

CONSTANTS
  Tolerance,    \* 300 W: of discharge, and the least export that counts
  ChargeFloor,  \* 100 W: below this the battery is "not charging"
  SocFull,      \* 95 %
  FailStreak    \* BSAVE_NATIVE_FAIL_STREAK

ASSUME AlgorithmAssumption ==
  /\ Tolerance \in Nat /\ ChargeFloor \in Nat /\ SocFull \in Nat
  /\ FailStreak \in Nat \ {0}

AccumulateTarget(target, gridPower, maxPower) ==
  LET sum == target + gridPower
  IN  IF sum < 0 THEN 0 ELSE IF sum > maxPower THEN maxPower ELSE sum

\* Whether a sample has been read at all, and not been used yet.
FreshSample(sampleSeq, lastSampleSeq) ==
  sampleSeq # 0 /\ sampleSeq # lastSampleSeq

\* d: grid (+export), batt (+charge) and soc as last read.
NativeWindowViolated(d, maxPower, minDelta) ==
  LET export == IF minDelta > Tolerance THEN minDelta ELSE Tolerance
  IN  \/ d.batt < -Tolerance
      \/ /\ maxPower >= export /\ d.grid > export
         /\ d.soc < SocFull /\ d.batt < ChargeFloor

NextStreak(streak, violated) ==
  IF ~violated THEN 0 ELSE IF streak < 255 THEN streak + 1 ELSE streak

\* Mutant: reaching zero is a change like any other.
SendWithoutZeroCrossing(s, tun, keepalive) ==
  LET delta == s.target - s.lastSent
  IN  /\ ~(s.target = 0 /\ s.zeroTiming /\ s.zeroAge >= tun.idleLapse)
      /\ \/ delta >= tun.minDelta \/ delta <= -tun.minDelta
         \/ keepalive # 0 /\ s.sentAge >= keepalive

\* Mutant: no keep-alive.
SendWithoutKeepalive(s, tun, keepalive) ==
  LET delta == s.target - s.lastSent
  IN  /\ ~(s.target = 0 /\ s.zeroTiming /\ s.zeroAge >= tun.idleLapse)
      /\ \/ delta >= tun.minDelta \/ delta <= -tun.minDelta
         \/ (s.target = 0) # (s.lastSent = 0)

\* s: target, lastSent, sentAge, zeroTiming, zeroAge; tun: minDelta, idleLapse.
ShouldSend(s, tun, keepalive) ==
  LET delta == s.target - s.lastSent
  IN  /\ ~(s.target = 0 /\ s.zeroTiming /\ s.zeroAge >= tun.idleLapse)
      /\ \/ delta >= tun.minDelta \/ delta <= -tun.minDelta
         \/ (s.target = 0) # (s.lastSent = 0)
         \/ keepalive # 0 /\ s.sentAge >= keepalive
=============================================================================
