------------------------------ MODULE TouchCal ------------------------------
(* The touch calibration arithmetic of display/TouchCal.h: three raw         *)
(* readings, one per crosshair, become a mapping from raw readings to        *)
(* screen pixels.  Pure operators: the wizard that takes the readings is     *)
(* TouchScreen.                                                              *)
EXTENDS Integers

CONSTANT MinSpan        \* raw counts of travel below which a span is noise

ASSUME MinSpanAssumption == MinSpan \in Nat \ {0}

(* Where the crosshairs stand on the screen. *)
LoX == 24
HiX == 216
LoY == 48
HiY == 288

NoCal == [valid |-> FALSE]

Abs(v) == IF v < 0 THEN -v ELSE v

(* touchCalBuild: A->B moves screen X only, so the raw axis that changes     *)
(* more drives X; A->C must then move the other one.  NoCal when a span is   *)
(* too short or both screen axes follow one raw axis.                        *)
CalBuild(a, b, c) ==
    LET db    == [x |-> b.x - a.x, y |-> b.y - a.y]
        dc    == [x |-> c.x - a.x, y |-> c.y - a.y]
        swap  == Abs(db.y) > Abs(db.x)
        xSpan == IF swap THEN db.y ELSE db.x
        ySpan == IF swap THEN dc.x ELSE dc.y
        other == IF swap THEN dc.y ELSE dc.x
    IN  IF \/ Abs(xSpan) < MinSpan
           \/ Abs(ySpan) < MinSpan
           \/ Abs(ySpan) <= Abs(other)
        THEN NoCal
        ELSE [valid |-> TRUE, swap |-> swap,
              xLo |-> IF swap THEN a.y ELSE a.x,
              xHi |-> IF swap THEN b.y ELSE b.x,
              yLo |-> IF swap THEN a.x ELSE a.y,
              yHi |-> IF swap THEN c.x ELSE c.y]

(* One axis of touchCalApply: linear through the two crosshairs, the         *)
(* division of two numbers of either sign written on positive divisors.      *)
Scaled(v, lo, hi, low, high) ==
    low + (IF hi > lo THEN ((v - lo) * (high - low)) \div (hi - lo)
                      ELSE ((lo - v) * (high - low)) \div (lo - hi))

(* touchCalApply, for readings inside the screen (its clamp to the edges     *)
(* does nothing there).  Off the screen when an axis has no travel.          *)
CalApply(cal, raw) ==
    IF cal.xHi = cal.xLo \/ cal.yHi = cal.yLo
    THEN [x |-> -1, y |-> -1]
    ELSE [x |-> Scaled(IF cal.swap THEN raw.y ELSE raw.x,
                       cal.xLo, cal.xHi, LoX, HiX),
          y |-> Scaled(IF cal.swap THEN raw.x ELSE raw.y,
                       cal.yLo, cal.yHi, LoY, HiY)]
=============================================================================
