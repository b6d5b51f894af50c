------------------------- MODULE PassiveWriteCache -------------------------
(***************************************************************************)
(* The write side of src/inverter/Inverter.cpp: every command to the       *)
(* inverter's passive-control register goes through sendPassiveRange,      *)
(* which suppresses a range the inverter is believed to hold already.      *)
(*                                                                         *)
(* Time is counted in half-units of the inverter's passive-timeout         *)
(* register: a timeout of T lasts 2*T clock units and the firmware         *)
(* re-sends after T of them.  A timestamp t of the code is represented by  *)
(* its age millis() - t, which stops growing at AgeCap.                    *)
(***************************************************************************)
EXTENDS Integers

CONSTANTS
  AgeCap,        \* ages saturate here; no smaller than any interval compared
  KeepaliveMin,  \* 5 s and 600 s of setKeepaliveMs, in clock units
  KeepaliveMax,
  Uninitialised  \* 0xFFFF, read from a timeout register never written

ASSUME CacheAssumption ==
  /\ KeepaliveMin \in Nat \ {0}
  /\ KeepaliveMax \in Nat /\ KeepaliveMin <= KeepaliveMax
  /\ AgeCap \in Nat /\ KeepaliveMax <= AgeCap
  /\ Uninitialised \in Nat

Clamp(v, lo, hi) == IF v < lo THEN lo ELSE IF v > hi THEN hi ELSE v

Age == 0 .. AgeCap

Older(age, t) == IF age + t > AgeCap THEN AgeCap ELSE age + t

Range == Int \X Int

(***************************************************************************)
(* The write path: the four cache fields of Inverter, the register behind  *)
(* it, and, as history, wear: the acknowledged writes since the last event *)
(* that called for one (counted to 2, and only without keep-alive).        *)
(***************************************************************************)
WritePath ==
  [valid: BOOLEAN, lo: Int, hi: Int, age: Age,
   reg: Range, wear: 0 .. 2]

ColdCache(reg) ==
  [valid |-> FALSE, lo |-> 0, hi |-> 0, age |-> 0,
   reg |-> reg, wear |-> 0]

Unworn(w) == [w EXCEPT !.wear = 0]

Later(w, t) == [w EXCEPT !.age = Older(@, t)]

-----------------------------------------------------------------------------
SetKeepaliveMs(ms) ==
  IF ms = 0 THEN 0 ELSE Clamp(ms, KeepaliveMin, KeepaliveMax)

\* What readPassiveTimeout makes of the raw register value.
KeepaliveFor(raw) == SetKeepaliveMs(IF raw = Uninitialised THEN 0 ELSE raw)

\* Mutant: a keep-alive of 0 taken for "always due".
ZeroMeansAlways(w, lo, hi, keepalive) ==
  ~w.valid \/ lo # w.lo \/ hi # w.hi \/ w.age >= keepalive

\* Mutant: one clock unit late.
DueTooLate(w, lo, hi, keepalive) ==
  \/ ~w.valid \/ lo # w.lo \/ hi # w.hi
  \/ keepalive # 0 /\ w.age > keepalive

PassiveWriteDue(w, lo, hi, keepalive) ==
  \/ ~w.valid
  \/ lo # w.lo \/ hi # w.hi
  \/ keepalive # 0 /\ w.age >= keepalive

Acked(w, lo, hi, keepalive) ==
  [w EXCEPT !.valid = TRUE, !.lo = lo, !.hi = hi, !.age = 0,
            !.reg = <<lo, hi>>,
            !.wear = IF keepalive = 0 /\ @ < 2 THEN @ + 1 ELSE @]

\* Mutant: the cache is left valid by a failed write.
FailedKeepsCache(w, reg) == [w EXCEPT !.reg = reg, !.wear = 0]

\* A refused, lost or garbled transaction.  The inverter may have executed a
\* request whose acknowledgement was lost.
Failed(w, reg) == [w EXCEPT !.valid = FALSE, !.reg = reg, !.wear = 0]

\* sendPassiveRange: the set of its possible results, each with its return
\* value and the write path it leaves.
SendPassiveRange(w, lo, hi, keepalive) ==
  IF PassiveWriteDue(w, lo, hi, keepalive)
  THEN {[ok |-> TRUE, w |-> Acked(w, lo, hi, keepalive)]} \cup
       {[ok |-> FALSE, w |-> Failed(w, reg)] : reg \in {w.reg, <<lo, hi>>}}
  ELSE {[ok |-> TRUE, w |-> w]}

\* What the cache is for: it never claims a range the inverter does not hold.
Coherent(w) == w.valid => w.reg = <<w.lo, w.hi>>
=============================================================================
