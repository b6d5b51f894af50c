------------------------------- MODULE MCTouch -------------------------------
(* The touch screen on two overlays: one turned and mirrored, and one whose  *)
(* second channel is dead.  The vertical span is the longer one: only then   *)
(* do late taps on the second, first and third crosshair look like a panel.  *)
(* (All eight orders and directions are compared by the first assumption     *)
(* below: they differ in the arithmetic only.)                               *)
EXTENDS TouchScreen

Overlay(swap, flipX, flipY, dead) ==
    [spanX |-> 3, spanY |-> 4, swap |-> swap, flipX |-> flipX, flipY |-> flipY,
     dead |-> dead]

MCPasses == {1, 6}
MCPanels == {Overlay(TRUE, TRUE, FALSE, "none"),
             Overlay(FALSE, FALSE, TRUE, "y")}

MCStrays == {[x |-> 0, y |-> 0], [x |-> 1, y |-> 1]}

(* Over all eight axis orders and directions, and any readings: the three    *)
(* aimed samples build a mapping that is true at every corner; what is built *)
(* from any readings maps them to the crosshairs they were taken for, along  *)
(* the axis each of them fixes; and a dead channel never builds one.         *)
ASSUME TrueOnEveryOverlay ==
    \A swap, flipX, flipY \in BOOLEAN, dead \in {"none", "x", "y"} :
        LET p   == Overlay(swap, flipX, flipY, dead)
            built == CalBuild(Raw(p, Target[1]), Raw(p, Target[2]),
                            Raw(p, Target[3]))
        IN  /\ built.valid = (dead = "none")
            /\ built.valid => \A corner \in Corners :
                                CalApply(built, Raw(p, corner)) = OnScreen(corner)

ASSUME HitsItsOwnCrosshairs ==
    LET Points == [x : 0..3, y : 0..3]
    IN  \A a, b, c \in Points :
            LET built == CalBuild(a, b, c)
            IN  built.valid => /\ CalApply(built, a) = [x |-> LoX, y |-> LoY]
                             /\ CalApply(built, b).x = HiX
                             /\ CalApply(built, c).y = HiY
=============================================================================
