-------------------------- MODULE TouchScreen_proofs --------------------------
(***************************************************************************)
(* Proofs about the touch screen, for every overlay, every set of times    *)
(* and every rhythm of the main loop: what a press is taken for, and that  *)
(* the wizard's calibration is true of the panel.                          *)
(***************************************************************************)
EXTENDS TouchScreen, TLAPS

-----------------------------------------------------------------------------
(* The calibration arithmetic of TouchCal.                                 *)

Point(a) == a.x \in Int /\ a.y \in Int

\* A span divided into itself.
LEMMA DivExact ==
  ASSUME NEW d \in Nat, d > 0, NEW k \in Nat
  PROVE  (d * k) \div d = k /\ (0 * k) \div d = 0
  OBVIOUS

\* The linear map through two points meets both.
LEMMA ScaledMeets ==
  ASSUME NEW lo \in Int, NEW hi \in Int, lo # hi,
         NEW low \in Nat, NEW high \in Nat, low <= high
  PROVE  Scaled(lo, lo, hi, low, high) = low /\ Scaled(hi, lo, hi, low, high) = high
<1> DEFINE k == high - low
<1> k \in Nat
  OBVIOUS
<1>1. CASE hi > lo
  <2>1. /\ ((hi - lo) * k) \div (hi - lo) = k
        /\ (0 * k) \div (hi - lo) = 0
    <3>1. hi - lo \in Nat /\ hi - lo > 0
      BY <1>1
    <3> QED BY <3>1, DivExact
  <2>2. lo - lo = 0 /\ low + 0 = low /\ low + k = high
    OBVIOUS
  <2> QED BY <1>1, <2>1, <2>2 DEF Scaled
<1>2. CASE hi < lo
  <2>1. /\ ((lo - hi) * k) \div (lo - hi) = k
        /\ (0 * k) \div (lo - hi) = 0
    <3>1. lo - hi \in Nat /\ lo - hi > 0
      BY <1>2
    <3> QED BY <3>1, DivExact
  <2>2. lo - lo = 0 /\ low + 0 = low /\ low + k = high /\ ~(hi > lo)
    BY <1>2
  <2> QED BY <2>1, <2>2 DEF Scaled
<1> QED BY <1>1, <1>2

LEMMA CrosshairsMet ==
  ASSUME NEW lo \in Int, NEW hi \in Int, lo # hi
  PROVE  /\ Scaled(lo, lo, hi, LoX, HiX) = LoX /\ Scaled(hi, lo, hi, LoX, HiX) = HiX
         /\ Scaled(lo, lo, hi, LoY, HiY) = LoY /\ Scaled(hi, lo, hi, LoY, HiY) = HiY
<1>1. 24 \in Nat /\ 216 \in Nat /\ 24 <= 216
  OBVIOUS
<1>2. 48 \in Nat /\ 288 \in Nat /\ 48 <= 288
  OBVIOUS
<1>3. Scaled(lo, lo, hi, 24, 216) = 24 /\ Scaled(hi, lo, hi, 24, 216) = 216
  BY <1>1, ScaledMeets
<1>4. Scaled(lo, lo, hi, 48, 288) = 48 /\ Scaled(hi, lo, hi, 48, 288) = 288
  BY <1>2, ScaledMeets
<1> QED BY <1>3, <1>4 DEF LoX, HiX, LoY, HiY

\* What touchCalBuild accepts, and what it then keeps.
Usable(s, t, other) == Abs(s) >= MinSpan /\ Abs(t) >= MinSpan /\ Abs(t) > Abs(other)

LEMMA BuildAccepts ==
  ASSUME NEW a, NEW b, NEW c, Point(a), Point(b), Point(c), CalBuild(a, b, c).valid
  PROVE  \/ /\ Abs(b.y - a.y) > Abs(b.x - a.x)
            /\ Usable(b.y - a.y, c.x - a.x, c.y - a.y)
            /\ CalBuild(a, b, c) = [valid |-> TRUE, swap |-> TRUE, xLo |-> a.y,
                                    xHi |-> b.y, yLo |-> a.x, yHi |-> c.x]
         \/ /\ ~(Abs(b.y - a.y) > Abs(b.x - a.x))
            /\ Usable(b.x - a.x, c.y - a.y, c.x - a.x)
            /\ CalBuild(a, b, c) = [valid |-> TRUE, swap |-> FALSE, xLo |-> a.x,
                                    xHi |-> b.x, yLo |-> a.y, yHi |-> c.y]
<1> DEFINE swap == Abs(b.y - a.y) > Abs(b.x - a.x)
           Short(u, v, w) == \/ Abs(u) < MinSpan \/ Abs(v) < MinSpan
                             \/ Abs(v) <= Abs(w)
<1>1. \A u, v, w \in Int : ~Short(u, v, w) => Usable(u, v, w)
  BY MinSpanAssumption DEF Usable, Abs
<1>2. /\ b.x - a.x \in Int /\ b.y - a.y \in Int
      /\ c.x - a.x \in Int /\ c.y - a.y \in Int
  BY DEF Point
<1>3. CASE swap
  <2>1. swap = TRUE
    BY <1>3
  <2>2. CalBuild(a, b, c) =
          IF Short(b.y - a.y, c.x - a.x, c.y - a.y) THEN [valid |-> FALSE]
          ELSE [valid |-> TRUE, swap |-> TRUE, xLo |-> a.y,
                xHi |-> b.y, yLo |-> a.x, yHi |-> c.x]
    BY <2>1, Zenon DEF CalBuild, NoCal
  <2>3. ~Short(b.y - a.y, c.x - a.x, c.y - a.y)
    BY <2>2
  <2> QED BY <2>2, <2>3, <1>1, <1>2, <1>3, Zenon
<1>4. CASE ~swap
  <2>1. swap = FALSE
    BY <1>4
  <2>2. CalBuild(a, b, c) =
          IF Short(b.x - a.x, c.y - a.y, c.x - a.x) THEN [valid |-> FALSE]
          ELSE [valid |-> TRUE, swap |-> FALSE, xLo |-> a.x,
                xHi |-> b.x, yLo |-> a.y, yHi |-> c.y]
    BY <2>1, Zenon DEF CalBuild, NoCal
  <2>3. ~Short(b.x - a.x, c.y - a.y, c.x - a.x)
    BY <2>2
  <2> QED BY <2>2, <2>3, <1>1, <1>2, <1>4, Zenon
<1> QED BY <1>3, <1>4

\* Two samples of one spot are never accepted.
LEMMA BuildSeparates ==
  ASSUME NEW a, NEW b, NEW c, Point(a), Point(b), Point(c), CalBuild(a, b, c).valid
  PROVE  a # b /\ a # c /\ b # c
<1>1. MinSpan \in Nat /\ MinSpan > 0
  BY MinSpanAssumption
<1>2. /\ a.x \in Int /\ a.y \in Int /\ b.x \in Int /\ b.y \in Int
      /\ c.x \in Int /\ c.y \in Int
  BY DEF Point
<1>3. CASE /\ Abs(b.y - a.y) > Abs(b.x - a.x)
           /\ Usable(b.y - a.y, c.x - a.x, c.y - a.y)
  <2>1. b.y # a.y /\ c.x # a.x
    BY <1>1, <1>2, <1>3 DEF Usable, Abs
  <2>2. ~(b.x = c.x /\ b.y = c.y)
    BY <1>1, <1>2, <1>3 DEF Usable, Abs
  <2> QED BY <2>1, <2>2
<1>4. CASE /\ ~(Abs(b.y - a.y) > Abs(b.x - a.x))
           /\ Usable(b.x - a.x, c.y - a.y, c.x - a.x)
  <2>1. b.x # a.x /\ c.y # a.y
    BY <1>1, <1>2, <1>4 DEF Usable, Abs
  <2>2. ~(b.x = c.x /\ b.y = c.y)
    BY <1>1, <1>2, <1>4 DEF Usable, Abs
  <2> QED BY <2>1, <2>2
<1> QED BY <1>3, <1>4, BuildAccepts

-----------------------------------------------------------------------------
(* The overlay.                                                            *)

Panel == [spanX : Nat, spanY : Nat, swap : BOOLEAN, flipX : BOOLEAN,
          flipY : BOOLEAN, dead : {"none", "x", "y"}]

LEMMA Times ==
  /\ MinTap \in Nat /\ Long \in Nat /\ CalHold \in Nat /\ Settle \in Nat
  /\ DimAfter \in Nat /\ Long <= CalHold
  /\ Release \in Nat /\ Release > 0 /\ Full \in Nat /\ Full > 0
  /\ Passes \subseteq Nat /\ Strays \subseteq Corners /\ Panels \subseteq Panel
  BY TouchAssumption DEF Panel

\* What a channel reads at one edge and at the other.
Along(span, flip, end) == IF flip THEN IF end = 0 THEN span ELSE 0
                          ELSE IF end = 0 THEN 0 ELSE span

LEMMA AlongTyped ==
  ASSUME NEW span \in Nat, NEW flip \in BOOLEAN, NEW end \in {0, 1}
  PROVE  /\ Along(span, flip, end) \in Nat
         /\ span * (IF flip THEN 1 - end ELSE end) = Along(span, flip, end)
<1>1. span * 1 = span /\ span * 0 = 0
  OBVIOUS
<1>2. CASE flip = TRUE /\ end = 0
  BY <1>1, <1>2 DEF Along
<1>3. CASE flip = TRUE /\ end = 1
  BY <1>1, <1>3 DEF Along
<1>4. CASE flip = FALSE /\ end = 0
  BY <1>1, <1>4 DEF Along
<1>5. CASE flip = FALSE /\ end = 1
  BY <1>1, <1>5 DEF Along
<1> QED BY <1>2, <1>3, <1>4, <1>5

Across(p, end) == Along(p.spanX, p.flipX, end)
Downward(p, end) == Along(p.spanY, p.flipY, end)
Reads(p, u, v) == [x |-> IF p.dead = "x" THEN 0 ELSE IF p.swap THEN v ELSE u,
                   y |-> IF p.dead = "y" THEN 0 ELSE IF p.swap THEN u ELSE v]

LEMMA ChannelsTyped ==
  ASSUME NEW p \in Panel, NEW end \in {0, 1}
  PROVE  Across(p, end) \in Nat /\ Downward(p, end) \in Nat
<1>1. p.spanX \in Nat /\ p.spanY \in Nat /\ p.flipX \in BOOLEAN /\ p.flipY \in BOOLEAN
  BY DEF Panel
<1> QED BY <1>1, AlongTyped DEF Across, Downward

\* A reading: the channel across and the channel down the screen.
LEMMA RawIs ==
  ASSUME NEW p \in Panel, NEW corner \in Corners
  PROVE  Raw(p, corner) = Reads(p, Across(p, corner.x), Downward(p, corner.y))
<1> DEFINE u == Across(p, corner.x)
           v == Downward(p, corner.y)
<1>1. /\ p.spanX \in Nat /\ p.spanY \in Nat /\ p.flipX \in BOOLEAN /\ p.flipY \in BOOLEAN
      /\ corner.x \in {0, 1} /\ corner.y \in {0, 1}
  BY DEF Panel, Corners
<1>2. /\ p.spanX * (IF p.flipX THEN 1 - corner.x ELSE corner.x) = u
      /\ p.spanY * (IF p.flipY THEN 1 - corner.y ELSE corner.y) = v
  BY <1>1, AlongTyped DEF Across, Downward
<1> HIDE DEF u, v
<1>3. Raw(p, corner) = Reads(p, u, v)
  BY <1>2 DEF Raw, Reads
<1> QED BY <1>3 DEF u, v

LEMMA RawPoint ==
  ASSUME NEW p \in Panel, NEW corner \in Corners
  PROVE  Point(Raw(p, corner))
<1>1. corner.x \in {0, 1} /\ corner.y \in {0, 1}
  BY DEF Corners
<1>2. Across(p, corner.x) \in Int /\ Downward(p, corner.y) \in Int
  BY <1>1, ChannelsTyped
<1> QED BY <1>2, RawIs DEF Point, Reads

\* The three samples of taps on the three crosshairs.
Sample(p, s) == Raw(p, Target[s + 1])

LEMMA TargetIs ==
  /\ Target[1] = [x |-> 0, y |-> 0] /\ Target[2] = [x |-> 1, y |-> 0]
  /\ Target[3] = [x |-> 0, y |-> 1]
  /\ \A s \in 0 .. 2 : Target[s + 1] \in Corners
<1>1. /\ Target[1] = [x |-> 0, y |-> 0] /\ Target[2] = [x |-> 1, y |-> 0]
      /\ Target[3] = [x |-> 0, y |-> 1]
  BY DEF Target
<1>2. Target[1] \in Corners /\ Target[2] \in Corners /\ Target[3] \in Corners
  BY <1>1 DEF Corners
<1>3. \A s \in 0 .. 2 : s + 1 = 1 \/ s + 1 = 2 \/ s + 1 = 3
  OBVIOUS
<1> QED BY <1>1, <1>2, <1>3

LEMMA SamplePoint ==
  ASSUME NEW p \in Panel, NEW s \in 0 .. 2
  PROVE  Point(Sample(p, s))
  BY TargetIs, RawPoint DEF Sample

\* The samples by channel: A and B differ across the screen, A and C down it.
LEMMA SamplesAre ==
  ASSUME NEW p \in Panel
  PROVE  /\ Sample(p, 0) = Reads(p, Across(p, 0), Downward(p, 0))
         /\ Sample(p, 1) = Reads(p, Across(p, 1), Downward(p, 0))
         /\ Sample(p, 2) = Reads(p, Across(p, 0), Downward(p, 1))
<1>1. /\ Target[1] \in Corners /\ Target[1].x = 0 /\ Target[1].y = 0
      /\ Target[2] \in Corners /\ Target[2].x = 1 /\ Target[2].y = 0
      /\ Target[3] \in Corners /\ Target[3].x = 0 /\ Target[3].y = 1
  BY TargetIs DEF Corners
<1>2. 0 + 1 = 1 /\ 1 + 1 = 2 /\ 2 + 1 = 3
  OBVIOUS
<1> QED BY <1>1, <1>2, RawIs DEF Sample

\* What is built from the three timely samples is true at every corner.
LEMMA MapsTrue ==
  ASSUME NEW p \in Panel, NEW corner \in Corners,
         CalBuild(Sample(p, 0), Sample(p, 1), Sample(p, 2)).valid
  PROVE  CalApply(CalBuild(Sample(p, 0), Sample(p, 1), Sample(p, 2)), Raw(p, corner))
           = OnScreen(corner)
<1> DEFINE a == Sample(p, 0)
           b == Sample(p, 1)
           c == Sample(p, 2)
           u0 == Across(p, 0)
           u1 == Across(p, 1)
           v0 == Downward(p, 0)
           v1 == Downward(p, 1)
           u == Across(p, corner.x)
           v == Downward(p, corner.y)
           raw == Raw(p, corner)
           built == CalBuild(a, b, c)
<1>1. /\ a = Reads(p, u0, v0) /\ b = Reads(p, u1, v0) /\ c = Reads(p, u0, v1)
      /\ raw = Reads(p, u, v)
  BY SamplesAre, RawIs
<1>2. /\ u0 \in Int /\ u1 \in Int /\ v0 \in Int /\ v1 \in Int
      /\ u = (IF corner.x = 0 THEN u0 ELSE u1) /\ v = (IF corner.y = 0 THEN v0 ELSE v1)
  BY ChannelsTyped DEF Corners
<1>3. Point(a) /\ Point(b) /\ Point(c)
  BY SamplePoint
<1>4. \/ /\ Abs(b.y - a.y) > Abs(b.x - a.x)
         /\ Usable(b.y - a.y, c.x - a.x, c.y - a.y)
         /\ built = [valid |-> TRUE, swap |-> TRUE, xLo |-> a.y,
                     xHi |-> b.y, yLo |-> a.x, yHi |-> c.x]
      \/ /\ ~(Abs(b.y - a.y) > Abs(b.x - a.x))
         /\ Usable(b.x - a.x, c.y - a.y, c.x - a.x)
         /\ built = [valid |-> TRUE, swap |-> FALSE, xLo |-> a.x,
                     xHi |-> b.x, yLo |-> a.y, yHi |-> c.y]
  BY <1>3, BuildAccepts
<1>5. MinSpan \in Nat /\ MinSpan > 0 /\ p.swap \in BOOLEAN
  BY MinSpanAssumption DEF Panel
<1> HIDE DEF a, b, c, u0, u1, v0, v1, u, v, raw, built
\* The channels are the right ones, and both have travel.
<1>6. /\ built.xLo = u0 /\ built.xHi = u1 /\ built.yLo = v0 /\ built.yHi = v1
      /\ u0 # u1 /\ v0 # v1
      /\ (IF built.swap THEN raw.y ELSE raw.x) = u
      /\ (IF built.swap THEN raw.x ELSE raw.y) = v
  <2>1. CASE /\ Abs(b.y - a.y) > Abs(b.x - a.x)
             /\ Usable(b.y - a.y, c.x - a.x, c.y - a.y)
             /\ built = [valid |-> TRUE, swap |-> TRUE, xLo |-> a.y,
                         xHi |-> b.y, yLo |-> a.x, yHi |-> c.x]
    <3>1. b.y # a.y /\ c.x # a.x
      BY <2>1, <1>3, <1>5 DEF Usable, Abs, Point
    <3>2. p.swap /\ p.dead # "x" /\ p.dead # "y"
      BY <3>1, <1>1 DEF Reads
    <3> QED BY <2>1, <3>1, <3>2, <1>1 DEF Reads
  <2>2. CASE /\ ~(Abs(b.y - a.y) > Abs(b.x - a.x))
             /\ Usable(b.x - a.x, c.y - a.y, c.x - a.x)
             /\ built = [valid |-> TRUE, swap |-> FALSE, xLo |-> a.x,
                         xHi |-> b.x, yLo |-> a.y, yHi |-> c.y]
    <3>1. b.x # a.x /\ c.y # a.y
      BY <2>2, <1>3, <1>5 DEF Usable, Abs, Point
    <3>2. ~p.swap /\ p.dead # "x" /\ p.dead # "y"
      BY <3>1, <1>1 DEF Reads
    <3> QED BY <2>2, <3>1, <3>2, <1>1 DEF Reads
  <2> QED BY <2>1, <2>2, <1>4
<1>7. /\ Scaled(u, u0, u1, LoX, HiX) = (IF corner.x = 0 THEN LoX ELSE HiX)
      /\ Scaled(v, v0, v1, LoY, HiY) = (IF corner.y = 0 THEN LoY ELSE HiY)
  <2>1. u0 \in Int /\ u1 \in Int /\ v0 \in Int /\ v1 \in Int /\ u0 # u1 /\ v0 # v1
    BY <1>2, <1>6
  <2>2. Scaled(u0, u0, u1, LoX, HiX) = LoX /\ Scaled(u1, u0, u1, LoX, HiX) = HiX
    BY <2>1, CrosshairsMet, Zenon
  <2>3. Scaled(v0, v0, v1, LoY, HiY) = LoY /\ Scaled(v1, v0, v1, LoY, HiY) = HiY
    BY <2>1, CrosshairsMet, Zenon
  <2> QED BY <1>2, <2>2, <2>3
<1>8. CalApply(built, raw) = OnScreen(corner)
  BY <1>6, <1>7 DEF CalApply, OnScreen
<1> QED BY <1>8 DEF a, b, c, raw, built

-----------------------------------------------------------------------------
(* The inductive invariant.                                                *)

ClocksOK ==
  /\ prev \in BOOLEAN /\ gap \in 0 .. Release - 1
  /\ held \in 0 .. CalHold /\ quiet \in 0 .. DimAfter + 1

LightOK == bright \in 0 .. Full /\ screenOn \in BOOLEAN /\ (screenOn <=> bright > 0)

GlassOK ==
  /\ panel \in Panels /\ longFired \in BOOLEAN
  /\ tab \in {"flow", "sys"} /\ calDrawn \in BOOLEAN /\ shown \in 0 .. Tabs
  /\ used \subseteq {"wake", "long", "start", "tap", "toggle", "sample"}

Spots == [at : Readings, aimed : BOOLEAN, right : BOOLEAN]
Aims == [all : BOOLEAN, one : BOOLEAN, kept : BOOLEAN]

WizardTyped ==
  /\ calStep \in 0 .. Done /\ ignore \in BOOLEAN /\ count \in 0 .. 2
  /\ raws \in Seq(Readings) /\ Len(raws) = (IF calStep = Done THEN 0 ELSE calStep)
  /\ spot \in Spots
  /\ cal.valid \in BOOLEAN /\ stored.valid \in BOOLEAN
  /\ aim \in Aims

\* What a press has been taken for while it lasts: the flag that mutes its tap is
\* up as soon as it means anything, and a press of the wizard means nothing yet.
Meanings ==
  /\ ignore => Calibrating /\ prev
  /\ prev => used \subseteq {"wake", "long", "start"}
  /\ prev /\ ~Calibrating => "start" \notin used /\ (used # {} => longFired)
  /\ prev /\ Calibrating /\ ~ignore => used = {}
  /\ OneMeaningPerPress

\* A press that will be a sample, on a glass that shows one of S or crosshair k.
Live == Calibrating /\ prev /\ ~ignore
Pressed(S, k) ==
  Live /\ spot.aimed =>
    \E s \in S : /\ s \in 0 .. 2 /\ spot.at = Sample(panel, s)
                 /\ (spot.right => s = k) /\ shown \in {s, k}

\* The crosshairs the samples were taken on.  The glass only ever goes on to the
\* crosshair of the present step, so it shows that one or an earlier one.
SampledNone == calStep = 0 => ~aim.one /\ Pressed(0 .. 2, 0)
SampledOne ==
  calStep = 1 /\ aim.all =>
    \E s0 \in 0 .. 2 :
      /\ raws[1] = Sample(panel, s0) /\ (aim.one => s0 = 0)
      /\ shown \in {s0, 0, 1} /\ Pressed({s0, 0, 1}, 1)
SampledTwo ==
  calStep = 2 /\ aim.all /\ aim.one =>
    \E s0, s1 \in 0 .. 2 :
      /\ raws[1] = Sample(panel, s0) /\ raws[2] = Sample(panel, s1)
      /\ s0 = 0 \/ s1 = 1
      /\ s1 \in {s0, 0, 1} /\ shown \in {s1, 1, 2} /\ Pressed({s1, 1, 2}, 2)
Sampled == SampledNone /\ SampledOne /\ SampledTwo /\ CalibrationIsTrue

TouchTyped == ClocksOK /\ LightOK /\ GlassOK
TouchIInv == TouchTyped /\ WizardTyped /\ Meanings /\ Sampled

-----------------------------------------------------------------------------
(* The clocks and the light.                                               *)

LEMMA DownTyped ==
  ASSUME NEW contact \in BOOLEAN, NEW dt
  PROVE  Down(contact, dt) \in BOOLEAN /\ (contact => Down(contact, dt))
<1>1. Down(contact, dt) \in BOOLEAN
  BY Zenon DEF Down
<1> QED BY <1>1 DEF Down

\* Every poll keeps the clocks under their limits.
LEMMA ClocksTyped ==
  ASSUME ClocksOK, NEW contact \in BOOLEAN, NEW dt \in Passes, NEW pressed \in BOOLEAN,
         Clocks(contact, dt, pressed)
  PROVE  ClocksOK' /\ (prev' <=> Down(contact, dt))
<1>1. prev' \in BOOLEAN /\ (prev' <=> Down(contact, dt))
  <2>1. prev' = Down(contact, dt)
    BY DEF Clocks
  <2> QED BY <2>1, DownTyped, Zenon
<1>2. dt \in Nat /\ gap \in Nat /\ held \in Nat /\ quiet \in Nat
  BY Times DEF ClocksOK
<1>3. gap' \in 0 .. Release - 1
  <2>1. CASE contact \/ ~prev'
    <3>1. gap' = 0
      BY <2>1 DEF Clocks
    <3> QED BY <3>1, Times
  <2>2. CASE ~(contact \/ ~prev')
    <3>1. gap' = gap + dt /\ gap + dt < Release
      BY <2>2, <1>1 DEF Clocks, Down
    <3> QED BY <3>1, <1>2, Times
  <2> QED BY <2>1, <2>2
<1>4. held' \in 0 .. CalHold
  <2>1. held' = 0 \/ held' = UpTo(CalHold, held + dt)
    BY DEF Clocks
  <2> QED BY <2>1, <1>2, Times DEF UpTo
<1>5. quiet' \in 0 .. DimAfter + 1
  <2>1. quiet' = 0 \/ quiet' = UpTo(DimAfter + 1, quiet + dt)
    BY DEF Clocks
  <2> QED BY <2>1, <1>2, Times DEF UpTo
<1> QED BY <1>1, <1>3, <1>4, <1>5 DEF ClocksOK

\* handleDimming keeps the screen on exactly as long as there is light.
LEMMA DimTyped ==
  ASSUME NEW b \in 0 .. Full, NEW on \in BOOLEAN, on <=> b > 0, NEW dt, Dim(b, on, dt)
  PROVE  LightOK'
<1>1. CASE b = 0 /\ bright' = 0 /\ screenOn' = FALSE
  <2>1. bright' \in 0 .. Full /\ ~(bright' > 0)
    BY <1>1, Times
  <2> QED BY <1>1, <2>1 DEF LightOK
<1>2. CASE b > 0 /\ bright' = b /\ screenOn' = on
  BY <1>2 DEF LightOK
<1>3. CASE b > 0 /\ bright' = b - 1 /\ screenOn' = (on /\ b - 1 > 0)
  <2>1. bright' \in 0 .. Full /\ on
    BY <1>3, Times
  <2>2. screenOn' \in BOOLEAN
    BY <1>3, Zenon
  <2>3. screenOn' <=> bright' > 0
    BY <1>3, <2>1, Zenon
  <2> QED BY <2>1, <2>2, <2>3 DEF LightOK
<1> QED BY <1>1, <1>2, <1>3 DEF Dim

LEMMA WokenTyped ==
  ASSUME LightOK
  PROVE  Woken \in 0 .. Full /\ Woken > 0
<1> QED BY Times DEF LightOK, Woken

\* Dimming as it follows a poll, from the present level or from a wake.
LEMMA LightHolds ==
  ASSUME LightOK, NEW dt, Dim(bright, screenOn, dt) \/ Dim(Woken, TRUE, dt)
  PROVE  LightOK'
<1>1. CASE Dim(bright, screenOn, dt)
  BY <1>1, DimTyped DEF LightOK
<1>2. CASE Dim(Woken, TRUE, dt)
  BY <1>2, WokenTyped, DimTyped
<1> QED BY <1>1, <1>2

-----------------------------------------------------------------------------
(* Histories.                                                              *)

LEMMA AimSet ==
  ASSUME NEW r \in Aims, NEW all \in BOOLEAN, NEW one \in BOOLEAN
  PROVE  /\ [r EXCEPT !.all = all, !.one = one] \in Aims
         /\ [r EXCEPT !.all = all, !.one = one].all = all
         /\ [r EXCEPT !.all = all, !.one = one].one = one
         /\ [r EXCEPT !.all = all, !.one = one].kept = r.kept
         /\ [r EXCEPT !.kept = all] \in Aims /\ [r EXCEPT !.kept = all].kept = all
         /\ r.all \in BOOLEAN /\ r.one \in BOOLEAN /\ r.kept \in BOOLEAN
<1>1. /\ [r EXCEPT !.all = all, !.one = one] \in Aims
      /\ [r EXCEPT !.kept = all] \in Aims
  BY DEF Aims
<1>2. /\ [r EXCEPT !.all = all, !.one = one].all = all
      /\ [r EXCEPT !.all = all, !.one = one].one = one
      /\ [r EXCEPT !.all = all, !.one = one].kept = r.kept
  BY DEF Aims
<1>3. [r EXCEPT !.kept = all].kept = all
  BY DEF Aims
<1>4. r.all \in BOOLEAN /\ r.one \in BOOLEAN /\ r.kept \in BOOLEAN
  BY DEF Aims
<1> QED BY <1>1, <1>2, <1>3, <1>4, Zenon

LEMMA NoSpotTyped ==
  ASSUME GlassOK
  PROVE  NoSpot \in Spots
<1>1. panel \in Panels /\ panel \in Panel
  BY Times DEF GlassOK
<1> DEFINE corner == [x |-> IF panel.flipX THEN 1 ELSE 0,
                      y |-> IF panel.flipY THEN 1 ELSE 0]
<1>2. /\ corner \in Corners /\ corner.x = (IF panel.flipX THEN 1 ELSE 0)
      /\ corner.y = (IF panel.flipY THEN 1 ELSE 0)
  BY DEF Corners
<1> HIDE DEF corner
<1>3. Across(panel, corner.x) = 0 /\ Downward(panel, corner.y) = 0
  BY <1>2 DEF Across, Downward, Along
<1>4. Raw(panel, corner) = [x |-> 0, y |-> 0]
  BY <1>1, <1>2, <1>3, RawIs DEF Reads
<1>5. [x |-> 0, y |-> 0] \in Readings
  BY <1>1, <1>2, <1>4 DEF Readings
<1> QED BY <1>5 DEF NoSpot, Spots

-----------------------------------------------------------------------------
(* What the steps leave alone.                                             *)

\* A step that neither takes a sample nor redraws keeps the history of the wizard.
LEMMA SampledKept ==
  ASSUME Sampled, UNCHANGED <<panel, calStep, raws, shown, cal, stored, aim>>,
         Live' => Live /\ spot' = spot
  PROVE  Sampled'
<1>1. \A S, k : Pressed(S, k) => (Pressed(S, k))'
  BY DEF Pressed
<1>2. SampledNone'
  BY <1>1 DEF Sampled, SampledNone
<1>3. SampledOne'
  <2> SUFFICES ASSUME calStep = 1, aim.all
               PROVE  \E s0 \in 0 .. 2 :
                        /\ raws[1] = Sample(panel, s0) /\ (aim.one => s0 = 0)
                        /\ shown \in {s0, 0, 1} /\ (Pressed({s0, 0, 1}, 1))'
    BY DEF SampledOne
  <2> QED BY <1>1 DEF Sampled, SampledOne
<1>4. SampledTwo'
  <2> SUFFICES ASSUME calStep = 2, aim.all, aim.one
               PROVE  \E s0, s1 \in 0 .. 2 :
                        /\ raws[1] = Sample(panel, s0) /\ raws[2] = Sample(panel, s1)
                        /\ s0 = 0 \/ s1 = 1
                        /\ s1 \in {s0, 0, 1} /\ shown \in {s1, 1, 2}
                        /\ (Pressed({s1, 1, 2}, 2))'
    BY DEF SampledTwo
  <2> QED BY <1>1 DEF Sampled, SampledTwo
<1>5. CalibrationIsTrue'
  BY DEF Sampled, CalibrationIsTrue, Calibrating
<1> QED BY <1>2, <1>3, <1>4, <1>5 DEF Sampled

\* A wizard that starts with no press of its own has an empty history.
LEMMA SampledStarts ==
  ASSUME Sampled, calStep' = 0, ~aim'.one, aim'.kept = aim.kept, ~Live',
         UNCHANGED <<panel, stored>>
  PROVE  Sampled'
<1>1. SampledNone' /\ SampledOne' /\ SampledTwo'
  BY DEF SampledNone, SampledOne, SampledTwo, Pressed
<1>2. Calibrating'
  BY DEF Calibrating, Done
<1>3. CalibrationIsTrue'
  BY <1>2 DEF Sampled, CalibrationIsTrue
<1> QED BY <1>1, <1>3 DEF Sampled

LEMMA WizardKept ==
  ASSUME WizardTyped, UNCHANGED <<wizard, spot, stored, aim>>
  PROVE  WizardTyped'
  BY DEF WizardTyped, wizard

LEMMA WizardStarts ==
  ASSUME WizardTyped, NEW t \in BOOLEAN, StartCalibration(t),
         UNCHANGED <<count, spot, stored>>
  PROVE  /\ WizardTyped' /\ calStep' = 0 /\ ignore' = t
         /\ ~aim'.one /\ aim'.kept = aim.kept
<1>1. aim \in Aims
  BY DEF WizardTyped
<1>2. aim' \in Aims /\ aim'.one = FALSE /\ aim'.kept = aim.kept
  <2>1. aim' = [aim EXCEPT !.all = TRUE, !.one = FALSE]
    BY DEF StartCalibration
  <2> QED BY <1>1, <2>1, AimSet, Zenon
<1>3. calStep' = 0 /\ ignore' = t /\ raws' = <<>> /\ cal' = NoCal
  BY DEF StartCalibration, PressToIgnore
<1>4. calStep' \in 0 .. Done /\ calStep' # Done
  BY <1>3 DEF Done
<1>5. raws' \in Seq(Readings) /\ Len(raws') = (IF calStep' = Done THEN 0 ELSE calStep')
  BY <1>3, <1>4
<1>6. cal'.valid \in BOOLEAN
  BY <1>3 DEF NoCal
<1>7. WizardTyped'
  BY <1>2, <1>3, <1>4, <1>5, <1>6 DEF WizardTyped
<1> QED BY <1>2, <1>3, <1>7

-----------------------------------------------------------------------------
(* The polls outside the wizard.                                           *)

LEMMA PressHolds ==
  ASSUME TouchIInv, NEW contact \in BOOLEAN, NEW dt \in Passes, Press(contact, dt)
  PROVE  TouchIInv'
<1>1. ClocksOK /\ LightOK /\ GlassOK /\ WizardTyped /\ Meanings /\ Sampled
  BY DEF TouchIInv, TouchTyped
<1>2. /\ ~Calibrating /\ ~prev /\ Down(contact, dt) /\ longFired' = ~screenOn
      /\ used' = (IF screenOn THEN {} ELSE {"wake"})
      /\ UNCHANGED <<panel, wizard, spot, tab, calDrawn, shown, stored, aim>>
  BY DEF Press
<1>3. ClocksOK' /\ prev'
  BY <1>1, <1>2, ClocksTyped DEF Press
<1>4. LightOK'
  BY <1>1, LightHolds DEF Press
<1>5. WizardTyped'
  BY <1>1, <1>2, WizardKept
<1>6. ~Calibrating' /\ ~ignore'
  BY <1>1, <1>2 DEF Calibrating, wizard, Meanings
<1>7. GlassOK'
  <2>1. longFired' \in BOOLEAN
    BY <1>2, Zenon
  <2> QED BY <1>1, <1>2, <2>1 DEF GlassOK
<1>8. Meanings'
  <2>1. CASE screenOn
    <3>1. used' = {}
      BY <1>2, <2>1
    <3> QED BY <1>3, <1>6, <3>1 DEF Meanings, OneMeaningPerPress
  <2>2. CASE ~screenOn
    <3>1. used' = {"wake"} /\ longFired'
      BY <1>2, <2>2, Zenon
    <3> QED BY <1>3, <1>6, <3>1 DEF Meanings, OneMeaningPerPress
  <2> QED BY <2>1, <2>2
<1>9. Sampled'
  <2>1. ~Live'
    BY <1>6 DEF Live
  <2> QED BY <1>1, <1>2, <2>1, SampledKept DEF wizard
<1> QED BY <1>3, <1>4, <1>5, <1>7, <1>8, <1>9 DEF TouchIInv, TouchTyped

\* What a hold adds to its press: nothing twice, and nothing after a wake.
LEMMA HoldMeans ==
  ASSUME TouchIInv, NEW contact \in BOOLEAN, NEW dt \in Passes, Hold(contact, dt),
         prev', ignore' => Calibrating'
  PROVE  /\ used' \subseteq {"wake", "long", "start"}
         /\ ~({"wake", "long"} \subseteq used')
         /\ used' # {} => longFired'
         /\ longFired' \in BOOLEAN
         /\ "start" \in used' <=> UpTo(CalHold, held + dt) >= CalHold
<1> DEFINE h == UpTo(CalHold, held + dt)
           long == LongDue(h)
           start == h >= CalHold
<1>1. /\ ~Calibrating /\ prev /\ longFired' = (longFired \/ long)
      /\ used' = used \union (IF long THEN {"long"} ELSE {})
                      \union (IF start THEN {"start"} ELSE {})
  BY DEF Hold
<1>2. /\ used \subseteq {"wake", "long", "start"} /\ "start" \notin used
      /\ used # {} => longFired
  BY <1>1 DEF TouchIInv, Meanings
<1>3. longFired' \in BOOLEAN
  BY <1>1, Zenon
<1>4. h \in Nat /\ Long <= CalHold /\ Long \in Nat /\ CalHold \in Nat
  <2>1. dt \in Nat /\ held \in Nat
    BY Times DEF TouchIInv, TouchTyped, ClocksOK
  <2> QED BY <2>1, Times DEF UpTo
<1>5. start => longFired'
  <2>1. start => longFired \/ long
    BY <1>4 DEF LongDue
  <2> QED BY <1>1, <2>1, Zenon
<1>6. long => longFired' /\ ~longFired
  <2>1. long => ~longFired
    BY DEF LongDue
  <2> QED BY <1>1, <2>1, Zenon
<1>7. longFired => longFired'
  BY <1>1, Zenon
<1>8. "start" \in used' <=> start
  BY <1>1, <1>2
<1>9. used' \subseteq {"wake", "long", "start"}
  BY <1>1, <1>2
<1>10. ~({"wake", "long"} \subseteq used')
  <2>1. CASE long
    <3>1. used = {}
      BY <1>2, <1>6, <2>1
    <3> QED BY <1>1, <3>1
  <2>2. CASE ~long
    <3>1. used' = used \union (IF start THEN {"start"} ELSE {})
      BY <1>1, <2>2
    <3>2. ~({"wake", "long"} \subseteq used)
      BY DEF TouchIInv, Meanings, OneMeaningPerPress
    <3> QED BY <3>1, <3>2
  <2> QED BY <2>1, <2>2
<1>11. used' # {} => longFired'
  <2> SUFFICES ASSUME used' # {}, ~longFired' PROVE FALSE
    OBVIOUS
  <2>1. ~long /\ ~start /\ used = {}
    BY <1>2, <1>5, <1>6, <1>7
  <2> QED BY <1>1, <2>1
<1> QED BY <1>3, <1>8, <1>9, <1>10, <1>11

LEMMA HoldHolds ==
  ASSUME TouchIInv, NEW contact \in BOOLEAN, NEW dt \in Passes, Hold(contact, dt)
  PROVE  TouchIInv'
<1>1. ClocksOK /\ LightOK /\ GlassOK /\ WizardTyped /\ Meanings /\ Sampled
  BY DEF TouchIInv, TouchTyped
<1> DEFINE h == UpTo(CalHold, held + dt)
           long == LongDue(h)
           start == h >= CalHold
<1>2. /\ ~Calibrating /\ prev /\ Down(contact, dt) /\ Clocks(contact, dt, FALSE)
      /\ UNCHANGED <<panel, spot, shown, stored>>
  BY DEF Hold
<1>3. ClocksOK' /\ prev'
  BY <1>1, <1>2, ClocksTyped
<1>4. LightOK'
  <2>1. Dim(Woken, TRUE, dt) \/ Dim(bright, screenOn, dt)
    BY DEF Hold
  <2> QED BY <1>1, <2>1, LightHolds
<1>5. CASE start
  <2>1. StartCalibration(TRUE) /\ UNCHANGED <<tab, count>>
    BY <1>5 DEF Hold
  <2>2. /\ WizardTyped' /\ calStep' = 0 /\ ignore' = TRUE
        /\ ~aim'.one /\ aim'.kept = aim.kept
    BY <1>1, <1>2, <2>1, WizardStarts
  <2>3. Calibrating' /\ ignore' /\ calDrawn' = FALSE
    <3>1. Calibrating' /\ ignore'
      BY <2>2 DEF Calibrating, Done
    <3> QED BY <2>1, <3>1, Zenon DEF StartCalibration
  <2>4. /\ used' \subseteq {"wake", "long", "start"} /\ longFired' \in BOOLEAN
        /\ ~({"wake", "long"} \subseteq used')
    BY <1>3, <2>3, HoldMeans
  <2>5. GlassOK'
    BY <1>1, <1>2, <2>1, <2>3, <2>4 DEF GlassOK
  <2>6. Meanings'
    <3>1. OneMeaningPerPress'
      BY <2>4 DEF OneMeaningPerPress
    <3> QED BY <1>3, <2>3, <2>4, <3>1 DEF Meanings
  <2>7. ~Live'
    BY <2>3 DEF Live
  <2>8. Sampled'
    BY <1>1, <1>2, <2>2, <2>7, SampledStarts
  <2> QED BY <1>3, <1>4, <2>2, <2>5, <2>6, <2>8 DEF TouchIInv, TouchTyped
<1>6. CASE ~start
  <2>1. /\ tab' = (IF ~long THEN tab ELSE IF tab = "flow" THEN "sys" ELSE "flow")
        /\ UNCHANGED <<wizard, calDrawn, aim>>
    BY <1>6 DEF Hold
  <2>2. ~Calibrating' /\ ~ignore' /\ ~Live'
    BY <1>1, <1>2, <2>1 DEF Calibrating, wizard, Meanings, Live
  <2>3. /\ used' \subseteq {"wake", "long", "start"} /\ longFired' \in BOOLEAN
        /\ ~({"wake", "long"} \subseteq used') /\ (used' # {} => longFired')
        /\ "start" \notin used'
    BY <1>3, <1>6, <2>2, HoldMeans
  <2>4. GlassOK'
    BY <1>1, <1>2, <2>1, <2>3 DEF GlassOK
  <2>5. Meanings'
    <3>1. OneMeaningPerPress'
      BY <2>3 DEF OneMeaningPerPress
    <3> QED BY <1>3, <2>2, <2>3, <3>1 DEF Meanings
  <2>6. Sampled'
    BY <1>1, <1>2, <2>1, <2>2, SampledKept DEF wizard
  <2>7. WizardTyped'
    BY <1>1, <1>2, <2>1, WizardKept
  <2> QED BY <1>3, <1>4, <2>4, <2>5, <2>6, <2>7 DEF TouchIInv, TouchTyped
<1> QED BY <1>5, <1>6

LEMMA LiftOffHolds ==
  ASSUME TouchIInv, NEW contact \in BOOLEAN, NEW dt \in Passes, LiftOff(contact, dt)
  PROVE  TouchIInv'
<1>1. ClocksOK /\ LightOK /\ GlassOK /\ WizardTyped /\ Meanings /\ Sampled
  BY DEF TouchIInv, TouchTyped
<1>2. /\ ~Calibrating /\ prev /\ ~Down(contact, dt)
      /\ UNCHANGED <<panel, longFired, wizard, spot, calDrawn, shown, stored, aim>>
  BY DEF LiftOff
<1>3. ClocksOK' /\ ~prev'
  BY <1>1, <1>2, ClocksTyped DEF LiftOff
<1>4. LightOK'
  BY <1>1, LightHolds DEF LiftOff
<1>5. WizardTyped'
  BY <1>1, <1>2, WizardKept
<1>6. ~Calibrating' /\ ~ignore' /\ ~Live'
  BY <1>1, <1>2 DEF Calibrating, wizard, Meanings, Live
<1>7. Sampled'
  BY <1>1, <1>2, <1>6, SampledKept DEF wizard
<1>8. used \subseteq {"wake", "long", "start"} /\ (used # {} => longFired)
  BY <1>1, <1>2 DEF Meanings
<1>9. CASE ~longFired /\ \E m \in TapMeaning :
              /\ tab' = m.tab
              /\ used' = used \union {"tap"} \union (IF m.toggle THEN {"toggle"} ELSE {})
  <2>1. \A m \in TapMeaning : m.tab \in {"flow", "sys"}
    BY <1>1 DEF TapMeaning, GlassOK
  <2>2. used = {} /\ tab' \in {"flow", "sys"} /\ used' \subseteq {"tap", "toggle"}
    BY <1>8, <1>9, <2>1
  <2>3. GlassOK'
    BY <1>1, <1>2, <2>2 DEF GlassOK
  <2>4. Meanings'
    BY <1>3, <1>6, <2>2 DEF Meanings, OneMeaningPerPress
  <2> QED BY <1>3, <1>4, <1>5, <1>7, <2>3, <2>4 DEF TouchIInv, TouchTyped
<1>10. CASE UNCHANGED <<tab, used>>
  <2>1. GlassOK'
    BY <1>1, <1>2, <1>10 DEF GlassOK
  <2>2. Meanings'
    BY <1>1, <1>3, <1>6, <1>10 DEF Meanings, OneMeaningPerPress
  <2> QED BY <1>3, <1>4, <1>5, <1>7, <2>1, <2>2 DEF TouchIInv, TouchTyped
<1> QED BY <1>9, <1>10 DEF LiftOff

LEMMA UntouchedHolds ==
  ASSUME TouchIInv, NEW contact \in BOOLEAN, NEW dt \in Passes,
         Untouched(contact, dt) \/ CalUntouched(contact, dt)
  PROVE  TouchIInv'
<1>1. ClocksOK /\ LightOK /\ GlassOK /\ WizardTyped /\ Meanings /\ Sampled
  BY DEF TouchIInv, TouchTyped
<1>2. /\ ~prev /\ ~Down(contact, dt) /\ Clocks(contact, dt, FALSE)
      /\ Dim(bright, screenOn, dt)
      /\ UNCHANGED <<panel, longFired, wizard, spot, tab, calDrawn, shown, stored,
                     used, aim>>
  BY DEF Untouched, CalUntouched
<1>3. ClocksOK' /\ ~prev'
  BY <1>1, <1>2, ClocksTyped
<1>4. LightOK'
  BY <1>1, <1>2, LightHolds
<1>5. WizardTyped' /\ GlassOK'
  BY <1>1, <1>2, WizardKept DEF GlassOK
<1>6. Meanings' /\ ~Live'
  BY <1>1, <1>2, <1>3 DEF Meanings, OneMeaningPerPress, wizard, Calibrating, Live
<1>7. Sampled'
  BY <1>1, <1>2, <1>6, SampledKept DEF wizard
<1> QED BY <1>3, <1>4, <1>5, <1>6, <1>7 DEF TouchIInv, TouchTyped

-----------------------------------------------------------------------------
(* The polls of the wizard.                                                *)

LEMMA CalIgnoreHolds ==
  ASSUME TouchIInv, NEW contact \in BOOLEAN, NEW dt \in Passes, CalIgnore(contact, dt)
  PROVE  TouchIInv'
<1>1. ClocksOK /\ LightOK /\ GlassOK /\ WizardTyped /\ Meanings /\ Sampled
  BY DEF TouchIInv, TouchTyped
<1>2. /\ Calibrating /\ ignore /\ Clocks(contact, dt, FALSE)
      /\ Dim(bright, screenOn, dt) /\ ignore' = Down(contact, dt)
      /\ UNCHANGED <<panel, longFired, calStep, count, raws, cal, spot, tab,
                     calDrawn, shown, stored, used, aim>>
  BY DEF CalIgnore
<1>3. ClocksOK' /\ (prev' <=> Down(contact, dt))
  BY <1>1, <1>2, ClocksTyped
<1>4. ignore' \in BOOLEAN /\ (ignore' <=> prev')
  BY <1>2, <1>3, DownTyped, Zenon
<1>5. LightOK'
  BY <1>1, <1>2, LightHolds
<1>6. WizardTyped' /\ GlassOK'
  BY <1>1, <1>2, <1>4 DEF GlassOK, WizardTyped
<1>7. Calibrating' /\ prev
  BY <1>1, <1>2 DEF Calibrating, Meanings
<1>8. Meanings' /\ ~Live'
  BY <1>1, <1>2, <1>4, <1>7 DEF Meanings, OneMeaningPerPress, Live
<1>9. Sampled'
  BY <1>1, <1>2, <1>8, SampledKept
<1> QED BY <1>3, <1>5, <1>6, <1>8, <1>9 DEF TouchIInv, TouchTyped

\* A new press of the wizard, aimed at what the glass shows.
LEMMA PressSampled ==
  ASSUME Sampled, GlassOK, Live', spot'.aimed \in BOOLEAN,
         UNCHANGED <<panel, calStep, raws, shown, cal, stored, aim>>,
         spot'.aimed => /\ shown # Tabs /\ spot'.at = Sample(panel, shown)
                        /\ (spot'.right => shown = calStep)
  PROVE  Sampled'
<1>1. shown' = shown /\ panel' = panel /\ (shown # Tabs => shown \in 0 .. 2)
  BY DEF GlassOK, Tabs
<1>2. ASSUME NEW S, shown \in S
      PROVE  (Pressed(S, calStep))'
  <2> SUFFICES ASSUME spot'.aimed
               PROVE  \E s \in S : /\ s \in 0 .. 2 /\ spot'.at = Sample(panel', s)
                                   /\ (spot'.right => s = calStep')
                                   /\ shown' \in {s, calStep'}
    BY DEF Pressed
  <2> WITNESS shown \in S
  <2> QED BY <1>1
<1>3. SampledNone'
  <2> SUFFICES ASSUME calStep = 0 PROVE ~aim.one /\ (Pressed(0 .. 2, 0))'
    BY DEF SampledNone
  <2>1. ~aim.one
    BY DEF Sampled, SampledNone
  <2>2. CASE spot'.aimed
    BY <2>1, <2>2, <1>1, <1>2
  <2>3. CASE ~spot'.aimed
    BY <2>1, <2>3 DEF Pressed
  <2> QED BY <2>2, <2>3
<1>4. SampledOne'
  <2> SUFFICES ASSUME calStep = 1, aim.all
               PROVE  \E s0 \in 0 .. 2 :
                        /\ raws[1] = Sample(panel, s0) /\ (aim.one => s0 = 0)
                        /\ shown \in {s0, 0, 1} /\ (Pressed({s0, 0, 1}, 1))'
    BY DEF SampledOne
  <2>1. PICK s0 \in 0 .. 2 : /\ raws[1] = Sample(panel, s0) /\ (aim.one => s0 = 0)
                             /\ shown \in {s0, 0, 1}
    BY DEF Sampled, SampledOne
  <2>2. (Pressed({s0, 0, 1}, 1))'
    BY <2>1, <1>2
  <2> QED BY <2>1, <2>2
<1>5. SampledTwo'
  <2> SUFFICES ASSUME calStep = 2, aim.all, aim.one
               PROVE  \E s0, s1 \in 0 .. 2 :
                        /\ raws[1] = Sample(panel, s0) /\ raws[2] = Sample(panel, s1)
                        /\ s0 = 0 \/ s1 = 1
                        /\ s1 \in {s0, 0, 1} /\ shown \in {s1, 1, 2}
                        /\ (Pressed({s1, 1, 2}, 2))'
    BY DEF SampledTwo
  <2>1. PICK s0 \in 0 .. 2, s1 \in 0 .. 2 :
          /\ raws[1] = Sample(panel, s0) /\ raws[2] = Sample(panel, s1)
          /\ s0 = 0 \/ s1 = 1
          /\ s1 \in {s0, 0, 1} /\ shown \in {s1, 1, 2}
    BY DEF Sampled, SampledTwo
  <2>2. (Pressed({s1, 1, 2}, 2))'
    BY <2>1, <1>2
  <2> QED BY <2>1, <2>2
<1>6. CalibrationIsTrue'
  BY DEF Sampled, CalibrationIsTrue, Calibrating
<1> QED BY <1>3, <1>4, <1>5, <1>6 DEF Sampled

LEMMA CalPressHolds ==
  ASSUME TouchIInv, NEW contact \in BOOLEAN, NEW dt \in Passes, CalPress(contact, dt)
  PROVE  TouchIInv'
<1>1. ClocksOK /\ LightOK /\ GlassOK /\ WizardTyped /\ Meanings /\ Sampled
  BY DEF TouchIInv, TouchTyped
<1>2. /\ Calibrating /\ ~ignore /\ Down(contact, dt) /\ Clocks(contact, dt, TRUE)
      /\ Dim(bright, screenOn, dt) /\ count' = 0 /\ used' = {}
      /\ UNCHANGED <<panel, longFired, calStep, ignore, raws, cal, tab, calDrawn,
                     shown, stored, aim>>
  BY DEF CalPress
<1>3. ClocksOK' /\ prev'
  BY <1>1, <1>2, ClocksTyped
<1>4. LightOK'
  BY <1>1, <1>2, LightHolds
<1>5. Calibrating' /\ ~ignore' /\ Live'
  BY <1>2, <1>3 DEF Calibrating, Live
<1>6. GlassOK' /\ Meanings'
  BY <1>1, <1>2, <1>3, <1>5 DEF GlassOK, Meanings, OneMeaningPerPress
<1>7. panel \in Panels /\ panel \in Panel
  BY <1>1, Times DEF GlassOK
<1>8. /\ spot' \in Spots
      /\ spot'.aimed => /\ shown # Tabs /\ spot'.at = Sample(panel, shown)
                        /\ (spot'.right => shown = calStep)
  <2>1. CASE /\ screenOn /\ shown # Tabs
             /\ spot' = [at |-> Raw(panel, Target[shown + 1]), aimed |-> TRUE,
                         right |-> shown = calStep]
    <3>1. shown \in 0 .. 2
      BY <1>1, <2>1 DEF GlassOK, Tabs
    <3>2. Raw(panel, Target[shown + 1]) \in Readings
      BY <1>7, <3>1, TargetIs DEF Readings
    <3>3. /\ spot'.at = Raw(panel, Target[shown + 1]) /\ spot'.aimed = TRUE
          /\ spot'.right = (shown = calStep)
      BY <2>1, Zenon
    <3>4. spot' \in Spots
      <4>1. (shown = calStep) \in BOOLEAN
        OBVIOUS
      <4> QED BY <2>1, <3>2, <4>1, Zenon DEF Spots
    <3>5. spot'.right => shown = calStep
      BY <3>3, Zenon
    <3> QED BY <2>1, <3>3, <3>4, <3>5, Zenon DEF Sample
  <2>2. CASE \E corner \in Strays : spot' = [NoSpot EXCEPT !.at = Raw(panel, corner)]
    <3>1. PICK corner \in Strays : spot' = [NoSpot EXCEPT !.at = Raw(panel, corner)]
      BY <2>2
    <3>2. corner \in Corners
      BY Times
    <3>3. Raw(panel, corner) \in Readings
      BY <1>7, <3>2 DEF Readings
    <3>4. spot' = [at |-> Raw(panel, corner), aimed |-> FALSE, right |-> FALSE]
      BY <3>1 DEF NoSpot
    <3> QED BY <3>3, <3>4 DEF Spots
  <2> QED BY <2>1, <2>2 DEF CalPress
<1>9. WizardTyped'
  BY <1>1, <1>2, <1>8 DEF WizardTyped
<1>10. spot'.aimed \in BOOLEAN
  BY <1>8 DEF Spots
<1>11. Sampled'
  BY <1>1, <1>2, <1>5, <1>8, <1>10, PressSampled
<1> QED BY <1>3, <1>4, <1>6, <1>9, <1>11 DEF TouchIInv, TouchTyped

LEMMA CalHeldHolds ==
  ASSUME TouchIInv, NEW contact \in BOOLEAN, NEW dt \in Passes, CalHeld(contact, dt)
  PROVE  TouchIInv'
<1>1. ClocksOK /\ LightOK /\ GlassOK /\ WizardTyped /\ Meanings /\ Sampled
  BY DEF TouchIInv, TouchTyped
<1>2. /\ Calibrating /\ ~ignore /\ prev /\ Down(contact, dt) /\ Clocks(contact, dt, FALSE)
      /\ count' = (IF held + dt >= Settle THEN UpTo(2, count + 1) ELSE count)
      /\ Dim(bright, screenOn, dt)
      /\ UNCHANGED <<panel, longFired, calStep, ignore, raws, cal, spot, tab,
                     calDrawn, shown, stored, used, aim>>
  BY DEF CalHeld
<1>3. ClocksOK' /\ prev'
  BY <1>1, <1>2, ClocksTyped
<1>4. LightOK'
  BY <1>1, <1>2, LightHolds
<1>5. count' \in 0 .. 2
  BY <1>1, <1>2 DEF UpTo, WizardTyped
<1>6. WizardTyped' /\ GlassOK'
  BY <1>1, <1>2, <1>5 DEF WizardTyped, GlassOK
<1>7. Calibrating' /\ Live /\ spot' = spot
  BY <1>2 DEF Calibrating, Live
<1>8. Meanings'
  BY <1>1, <1>2, <1>3, <1>7 DEF Meanings, OneMeaningPerPress
<1>9. Sampled'
  BY <1>1, <1>2, <1>7, SampledKept
<1> QED BY <1>3, <1>4, <1>6, <1>8, <1>9 DEF TouchIInv, TouchTyped

LEMMA AppendIs ==
  ASSUME NEW S, NEW q \in Seq(S), NEW x \in S
  PROVE  /\ \A i \in 1 .. Len(q) : Append(q, x)[i] = q[i]
         /\ Append(q, x)[Len(q) + 1] = x
  OBVIOUS

LEMMA AppendSecond ==
  ASSUME NEW S, NEW q \in Seq(S), NEW x \in S, Len(q) = 1
  PROVE  Append(q, x)[1] = q[1] /\ Append(q, x)[2] = x
<1>1. /\ \A i \in 1 .. Len(q) : Append(q, x)[i] = q[i]
      /\ Append(q, x)[Len(q) + 1] = x
  BY AppendIs, Zenon
<1>2. 1 \in 1 .. Len(q) /\ Len(q) + 1 = 2
  OBVIOUS
<1> QED BY <1>1, <1>2, Zenon

LEMMA AppendThird ==
  ASSUME NEW S, NEW q \in Seq(S), NEW x \in S, Len(q) = 2
  PROVE  Append(q, x)[1] = q[1] /\ Append(q, x)[2] = q[2] /\ Append(q, x)[3] = x
<1>1. /\ \A i \in 1 .. Len(q) : Append(q, x)[i] = q[i]
      /\ Append(q, x)[Len(q) + 1] = x
  BY AppendIs, Zenon
<1>2. 1 \in 1 .. Len(q) /\ 2 \in 1 .. Len(q) /\ Len(q) + 1 = 3
  OBVIOUS
<1> QED BY <1>1, <1>2, Zenon

\* A sample is taken, and there are more to come.
LEMMA SampleTaken ==
  ASSUME Sampled, WizardTyped, Live, calStep < 2, calStep' = calStep + 1,
         raws' = Append(raws, spot.at), ~Live', UNCHANGED <<panel, shown, cal, stored>>,
         aim'.all => aim.all /\ spot.aimed, aim'.one => aim.one \/ spot.right,
         aim'.kept = aim.kept
  PROVE  Sampled'
<1>1. calStep \in {0, 1} /\ raws \in Seq(Readings) /\ Len(raws) = calStep
  BY DEF WizardTyped, Done
<1>2. SampledNone'
  BY <1>1 DEF SampledNone
<1>3. SampledOne'
  <2> SUFFICES ASSUME calStep = 0, aim'.all
               PROVE  \E s0 \in 0 .. 2 :
                        /\ raws'[1] = Sample(panel, s0) /\ (aim'.one => s0 = 0)
                        /\ shown \in {s0, 0, 1} /\ (Pressed({s0, 0, 1}, 1))'
    BY <1>1 DEF SampledOne
  <2>1. ~aim.one /\ Pressed(0 .. 2, 0) /\ spot.aimed
    BY DEF Sampled, SampledNone
  <2>2. PICK s \in 0 .. 2 : /\ spot.at = Sample(panel, s) /\ (spot.right => s = 0)
                            /\ shown \in {s, 0}
    BY <2>1 DEF Pressed
  <2>3. raws'[1] = spot.at
    BY <1>1
  <2>4. aim'.one => s = 0
    BY <2>1, <2>2
  <2> WITNESS s \in 0 .. 2
  <2> QED BY <2>2, <2>3, <2>4 DEF Pressed
<1>4. SampledTwo'
  <2> SUFFICES ASSUME calStep = 1, aim'.all, aim'.one
               PROVE  \E s0, s1 \in 0 .. 2 :
                        /\ raws'[1] = Sample(panel, s0) /\ raws'[2] = Sample(panel, s1)
                        /\ s0 = 0 \/ s1 = 1
                        /\ s1 \in {s0, 0, 1} /\ shown \in {s1, 1, 2}
                        /\ (Pressed({s1, 1, 2}, 2))'
    BY <1>1 DEF SampledTwo
  <2>1. PICK s0 \in 0 .. 2 : /\ raws[1] = Sample(panel, s0) /\ (aim.one => s0 = 0)
                             /\ Pressed({s0, 0, 1}, 1)
    BY DEF Sampled, SampledOne
  <2>2. PICK s1 \in {s0, 0, 1} : /\ s1 \in 0 .. 2 /\ spot.at = Sample(panel, s1)
                                 /\ (spot.right => s1 = 1) /\ shown \in {s1, 1}
    BY <2>1 DEF Pressed
  <2>3. raws'[1] = raws[1] /\ raws'[2] = spot.at
    <3>1. raws \in Seq(Readings) /\ Len(raws) = 1
      BY <1>1
    <3>2. spot.at \in Readings
      BY DEF WizardTyped, Spots
    <3>3. Append(raws, spot.at)[1] = raws[1] /\ Append(raws, spot.at)[2] = spot.at
      BY <3>1, <3>2, AppendSecond
    <3> QED BY <3>3, Zenon
  <2>4. s0 = 0 \/ s1 = 1
    BY <2>1, <2>2
  <2>5. (Pressed({s1, 1, 2}, 2))'
    BY DEF Pressed
  <2> WITNESS s0 \in 0 .. 2, s1 \in 0 .. 2
  <2> QED BY <2>1, <2>2, <2>3, <2>4, <2>5
<1>5. Calibrating'
  BY <1>1 DEF Calibrating, Done
<1>6. CalibrationIsTrue'
  BY <1>5 DEF Sampled, CalibrationIsTrue
<1> QED BY <1>2, <1>3, <1>4, <1>6 DEF Sampled

\* The last sample: three of one panel that are accepted, and of which the first
\* or the second was timely, were taken on the three crosshairs in order.
LEMMA SampleLast ==
  ASSUME Sampled, WizardTyped, GlassOK, Live, calStep = 2,
         NEW built, built = CalBuild(raws[1], raws[2], spot.at), built.valid,
         calStep' = Done, cal' = built, stored' = built, panel' = panel,
         aim'.kept => aim.all /\ spot.aimed /\ aim.one
  PROVE  Sampled'
<1>1. SampledNone' /\ SampledOne' /\ SampledTwo'
  BY DEF SampledNone, SampledOne, SampledTwo, Done
<1>2. panel \in Panel
  BY Times DEF GlassOK
<1>3. ASSUME aim'.kept, NEW corner \in Corners
      PROVE  CalApply(built, Raw(panel, corner)) = OnScreen(corner)
  <2>1. PICK s0 \in 0 .. 2, s1 \in 0 .. 2 :
          /\ raws[1] = Sample(panel, s0) /\ raws[2] = Sample(panel, s1)
          /\ s0 = 0 \/ s1 = 1
          /\ s1 \in {s0, 0, 1} /\ Pressed({s1, 1, 2}, 2)
    BY <1>3 DEF Sampled, SampledTwo
  <2>2. PICK s2 \in {s1, 1, 2} : s2 \in 0 .. 2 /\ spot.at = Sample(panel, s2)
    BY <1>3, <2>1 DEF Pressed
  <2>3. s0 # s1 /\ s0 # s2 /\ s1 # s2
    <3>1. Point(raws[1]) /\ Point(raws[2]) /\ Point(spot.at)
      BY <1>2, <2>1, <2>2, SamplePoint
    <3>2. raws[1] # raws[2] /\ raws[1] # spot.at /\ raws[2] # spot.at
      BY <3>1, BuildSeparates
    <3> QED BY <2>1, <2>2, <3>2
  <2>4. s0 = 0 /\ s1 = 1 /\ s2 = 2
    BY <2>1, <2>2, <2>3
  <2>5. built = CalBuild(Sample(panel, 0), Sample(panel, 1), Sample(panel, 2))
    BY <2>1, <2>2, <2>4
  <2> QED BY <1>2, <2>5, MapsTrue
<1>4. CalibrationIsTrue'
  BY <1>3 DEF CalibrationIsTrue
<1> QED BY <1>1, <1>4 DEF Sampled

LEMMA CalReleaseHolds ==
  ASSUME TouchIInv, NEW contact \in BOOLEAN, NEW dt \in Passes, CalRelease(contact, dt)
  PROVE  TouchIInv'
<1>1. ClocksOK /\ LightOK /\ GlassOK /\ WizardTyped /\ Meanings /\ Sampled
  BY DEF TouchIInv, TouchTyped
<1> DEFINE built == CalBuild(raws[1], raws[2], spot.at)
           all == aim.all /\ spot.aimed
           one == aim.one \/ (spot.right /\ calStep < 2)
<1>2. /\ Calibrating /\ ~ignore /\ prev /\ ~Down(contact, dt)
      /\ Clocks(contact, dt, FALSE) /\ Dim(bright, screenOn, dt)
      /\ count' = 0 /\ spot' = NoSpot
      /\ UNCHANGED <<panel, longFired, ignore, tab, shown>>
  BY DEF CalRelease
<1>3. ClocksOK' /\ ~prev' /\ ~Live' /\ Live /\ ~ignore'
  <2>1. ClocksOK' /\ ~prev'
    BY <1>1, <1>2, ClocksTyped
  <2> QED BY <2>1, <1>2 DEF Live
<1>4. LightOK'
  BY <1>1, <1>2, LightHolds
<1>5. spot' \in Spots /\ spot.at \in Readings /\ ignore' = ignore /\ aim \in Aims
  BY <1>1, <1>2, NoSpotTyped DEF WizardTyped, Spots
<1>6. all \in BOOLEAN /\ one \in BOOLEAN
  OBVIOUS
<1>7. used = {}
  BY <1>1, <1>2 DEF Meanings
<1>8. used' \in {{}, {"sample"}} => Meanings'
  BY <1>3 DEF Meanings, OneMeaningPerPress
<1>9. /\ used' \in {{}, {"sample"}}
      /\ calDrawn' \in BOOLEAN
      => GlassOK'
  BY <1>1, <1>2 DEF GlassOK
<1> HIDE DEF all, one
<1>10. CASE /\ count < 2
            /\ UNCHANGED <<calStep, raws, cal, calDrawn, stored, used, aim>>
  <2>1. WizardTyped'
    BY <1>1, <1>2, <1>5, <1>10 DEF WizardTyped
  <2>2. Sampled'
    BY <1>1, <1>2, <1>3, <1>10, SampledKept
  <2>3. used' = {} /\ calDrawn' \in BOOLEAN
    BY <1>1, <1>7, <1>10 DEF GlassOK
  <2> QED BY <1>3, <1>4, <1>8, <1>9, <2>1, <2>2, <2>3 DEF TouchIInv, TouchTyped
<1>11. CASE /\ used' = used \union {"sample"}
            /\ calStep < 2 /\ calStep' = calStep + 1
            /\ raws' = Append(raws, spot.at)
            /\ calDrawn' = FALSE
            /\ aim' = [aim EXCEPT !.all = all, !.one = one]
            /\ UNCHANGED <<cal, stored>>
  <2>0. PICK a \in BOOLEAN, o \in BOOLEAN :
          /\ aim' = [aim EXCEPT !.all = a, !.one = o]
          /\ (a => aim.all /\ spot.aimed) /\ (o => aim.one \/ spot.right)
    <3>1. aim' = [aim EXCEPT !.all = all, !.one = one]
      BY <1>11
    <3>2. (all => aim.all /\ spot.aimed) /\ (one => aim.one \/ spot.right)
      BY DEF all, one
    <3> QED BY <1>6, <3>1, <3>2, Zenon
  <2>1. aim' \in Aims /\ aim'.all = a /\ aim'.one = o /\ aim'.kept = aim.kept
    <3>1. a \in BOOLEAN /\ o \in BOOLEAN /\ aim \in Aims
      BY <1>5
    <3>2. [aim EXCEPT !.all = a, !.one = o] \in Aims
      BY <3>1, AimSet
    <3>3. [aim EXCEPT !.all = a, !.one = o].all = a
      BY <3>1 DEF Aims
    <3>4. [aim EXCEPT !.all = a, !.one = o].one = o
      BY <3>1 DEF Aims
    <3>5. [aim EXCEPT !.all = a, !.one = o].kept = aim.kept
      BY <3>1 DEF Aims
    <3> QED BY <2>0, <3>2, <3>3, <3>4, <3>5, Zenon
  <2>2. aim'.all => aim.all /\ spot.aimed
    BY <2>0, <2>1, Zenon
  <2>3. aim'.one => aim.one \/ spot.right
    BY <2>0, <2>1, Zenon
  <2>4. Sampled'
    BY <1>1, <1>2, <1>3, <1>11, <2>1, <2>2, <2>3, SampleTaken
  <2>5. /\ calStep' \in 0 .. Done /\ raws' \in Seq(Readings)
        /\ Len(raws') = (IF calStep' = Done THEN 0 ELSE calStep')
    BY <1>1, <1>5, <1>11 DEF WizardTyped, Done
  <2>6. WizardTyped'
    BY <1>1, <1>2, <1>5, <1>11, <2>1, <2>5 DEF WizardTyped
  <2>7. used' = {"sample"} /\ calDrawn' \in BOOLEAN
    BY <1>7, <1>11
  <2> QED BY <1>3, <1>4, <1>8, <1>9, <2>4, <2>6, <2>7 DEF TouchIInv, TouchTyped
<1>12. CASE /\ used' = used \union {"sample"}
            /\ calStep = 2 /\ calStep' = 0 /\ raws' = <<>> /\ calDrawn' = FALSE
            /\ aim' = [aim EXCEPT !.all = TRUE, !.one = FALSE]
            /\ UNCHANGED <<cal, stored>>
  <2>1. aim' \in Aims /\ aim'.one = FALSE /\ aim'.kept = aim.kept
    BY <1>5, <1>12, AimSet, Zenon
  <2>2. Sampled'
    BY <1>1, <1>2, <1>3, <1>12, <2>1, SampledStarts
  <2>3. WizardTyped'
    BY <1>1, <1>2, <1>5, <1>12, <2>1 DEF WizardTyped, Done
  <2>4. used' = {"sample"} /\ calDrawn' \in BOOLEAN
    BY <1>7, <1>12
  <2> QED BY <1>3, <1>4, <1>8, <1>9, <2>2, <2>3, <2>4 DEF TouchIInv, TouchTyped
<1>13. CASE /\ used' = used \union {"sample"}
            /\ calStep = 2 /\ built.valid /\ calStep' = Done /\ raws' = <<>>
            /\ cal' = built /\ stored' = built
            /\ aim' = [aim EXCEPT !.kept = all /\ one]
            /\ UNCHANGED calDrawn
  <2>0. PICK k \in BOOLEAN : /\ aim' = [aim EXCEPT !.kept = k]
                             /\ (k => aim.all /\ spot.aimed /\ aim.one)
    <3>1. aim' = [aim EXCEPT !.kept = all /\ one]
      BY <1>13
    <3>2. (all /\ one) => aim.all /\ spot.aimed /\ aim.one
      BY <1>13 DEF all, one
    <3>3. (all /\ one) \in BOOLEAN
      BY <1>6
    <3> QED BY <3>1, <3>2, <3>3, Zenon
  <2>1. aim' \in Aims /\ aim'.kept = k
    BY <1>5, <2>0, AimSet
  <2>2. aim'.kept => aim.all /\ spot.aimed /\ aim.one
    BY <2>0, <2>1, Zenon
  <2> HIDE DEF built
  <2>3. Sampled'
    <3>1. built = CalBuild(raws[1], raws[2], spot.at)
      BY DEF built
    <3> QED BY <1>1, <1>2, <1>3, <1>13, <2>2, <3>1, SampleLast
  <2>4. built.valid \in BOOLEAN
    BY Zenon DEF built, CalBuild, NoCal
  <2>5. WizardTyped'
    <3>1. /\ calStep' = 3 /\ raws' = <<>> /\ cal'.valid \in BOOLEAN
          /\ stored'.valid \in BOOLEAN
      BY <1>13, <2>4 DEF Done
    <3>2. raws' \in Seq(Readings) /\ Len(raws') = 0
      BY <3>1
    <3>3. ignore' \in BOOLEAN
      BY <1>1, <1>5 DEF WizardTyped
    <3> QED BY <1>2, <1>5, <2>1, <3>1, <3>2, <3>3 DEF WizardTyped, Done
  <2>6. used' = {"sample"} /\ calDrawn' \in BOOLEAN
    BY <1>1, <1>7, <1>13 DEF GlassOK
  <2> QED BY <1>3, <1>4, <1>8, <1>9, <2>3, <2>5, <2>6 DEF TouchIInv, TouchTyped
<1>14. /\ count >= 2 /\ calStep = 2
       => built = Built(Append(raws, spot.at))
  <2> SUFFICES ASSUME count >= 2, calStep = 2 PROVE built = Built(Append(raws, spot.at))
    OBVIOUS
  <2>1. raws \in Seq(Readings) /\ Len(raws) = 2
    BY <1>1 DEF WizardTyped, Done
  <2>2. /\ Append(raws, spot.at)[1] = raws[1] /\ Append(raws, spot.at)[2] = raws[2]
        /\ Append(raws, spot.at)[3] = spot.at
    BY <1>5, <2>1, AppendThird
  <2> QED BY <2>2 DEF Built
<1> HIDE DEF built
<1> QED BY <1>10, <1>11, <1>12, <1>13, <1>14 DEF CalRelease, all, one

-----------------------------------------------------------------------------
(* The steps that interfere.                                               *)

LEMMA WebStartHolds ==
  ASSUME TouchIInv, WebStart
  PROVE  TouchIInv'
<1>1. ClocksOK /\ LightOK /\ GlassOK /\ WizardTyped /\ Meanings /\ Sampled
  BY DEF TouchIInv, TouchTyped
<1>2. /\ StartCalibration(prev) /\ prev \in BOOLEAN
      /\ bright' = Woken /\ screenOn' = TRUE
      /\ UNCHANGED <<panel, touch, longFired, count, spot, tab, shown, stored>>
  BY <1>1 DEF WebStart, ClocksOK
<1>3. ClocksOK' /\ prev' = prev
  BY <1>1, <1>2 DEF ClocksOK, touch
<1>4. LightOK'
  BY <1>1, <1>2, WokenTyped DEF LightOK
<1>5. /\ WizardTyped' /\ calStep' = 0 /\ ignore' = prev
      /\ ~aim'.one /\ aim'.kept = aim.kept
  BY <1>1, <1>2, WizardStarts
<1>6. Calibrating' /\ ~Live' /\ (ignore' <=> prev')
  BY <1>3, <1>5 DEF Calibrating, Done, Live
<1>7. Sampled'
  BY <1>1, <1>2, <1>5, <1>6, SampledStarts
<1>8. /\ used' \subseteq {"wake", "long", "start", "tap", "toggle", "sample"}
      /\ prev' => used' \subseteq {"wake", "long", "start"}
      /\ OneMeaningPerPress'
  <2>1. CASE prev
    <3>1. used' = used \union {"start"} /\ used \subseteq {"wake", "long", "start"}
      BY <1>1, <2>1 DEF WebStart, Meanings
    <3>2. ~({"wake", "long"} \subseteq used')
      BY <1>1, <3>1 DEF Meanings, OneMeaningPerPress
    <3> QED BY <3>1, <3>2 DEF OneMeaningPerPress
  <2>2. CASE ~prev
    <3>1. used' = used
      BY <2>2 DEF WebStart
    <3> QED BY <1>1, <1>3, <2>2, <3>1 DEF Meanings, OneMeaningPerPress, GlassOK
  <2> QED BY <2>1, <2>2
<1>9. Meanings'
  BY <1>6, <1>8 DEF Meanings
<1>10. GlassOK'
  <2>1. calDrawn' = FALSE
    BY <1>2 DEF StartCalibration
  <2> QED BY <1>1, <1>2, <1>8, <2>1 DEF GlassOK
<1> QED BY <1>3, <1>4, <1>5, <1>7, <1>9, <1>10 DEF TouchIInv, TouchTyped

LEMMA DrawHolds ==
  ASSUME TouchIInv, Draw
  PROVE  TouchIInv'
<1>1. ClocksOK /\ LightOK /\ GlassOK /\ WizardTyped /\ Meanings /\ Sampled
  BY DEF TouchIInv, TouchTyped
<1>2. UNCHANGED <<panel, touch, longFired, wizard, spot, light, tab, stored, used, aim>>
  BY DEF Draw
<1>3. \/ Calibrating /\ shown' = calStep /\ calDrawn' = TRUE
      \/ ~Calibrating /\ shown' = Tabs /\ UNCHANGED calDrawn
  BY DEF Draw
<1>4. ClocksOK' /\ LightOK' /\ WizardTyped'
  BY <1>1, <1>2, WizardKept DEF ClocksOK, touch, LightOK, light
<1>5. Meanings'
  BY <1>1, <1>2 DEF Meanings, OneMeaningPerPress, Calibrating, wizard, touch
<1>6. GlassOK'
  <2>1. shown' \in 0 .. Tabs /\ calDrawn' \in BOOLEAN
    <3>1. calStep \in 0 .. 3 /\ calDrawn \in BOOLEAN
      BY <1>1 DEF GlassOK, WizardTyped, Done
    <3>2. shown' \in 0 .. 3
      BY <1>3, <3>1 DEF Tabs
    <3>3. calDrawn' \in BOOLEAN
      BY <1>3, <3>1, Zenon
    <3> QED BY <3>2, <3>3 DEF Tabs
  <2> QED BY <1>1, <1>2, <2>1 DEF GlassOK
<1>7. CalibrationIsTrue'
  BY <1>1, <1>2 DEF Sampled, CalibrationIsTrue, Calibrating, wizard
<1>8. CASE Calibrating /\ shown' = calStep
  <2>1. \A S, k : k = calStep /\ Pressed(S, k) => (Pressed(S, k))'
    BY <1>2, <1>8 DEF Pressed, Live, Calibrating, wizard, touch
  <2>2. UNCHANGED <<panel, calStep, raws, aim>>
    BY <1>2 DEF wizard
  <2>3. SampledNone'
    BY <1>1, <2>1, <2>2 DEF Sampled, SampledNone
  <2>4. SampledOne'
    <3> SUFFICES ASSUME calStep = 1, aim.all
                 PROVE  \E s0 \in 0 .. 2 :
                          /\ raws[1] = Sample(panel, s0) /\ (aim.one => s0 = 0)
                          /\ shown' \in {s0, 0, 1} /\ (Pressed({s0, 0, 1}, 1))'
      BY <2>2 DEF SampledOne
    <3>1. PICK s0 \in 0 .. 2 : /\ raws[1] = Sample(panel, s0) /\ (aim.one => s0 = 0)
                               /\ Pressed({s0, 0, 1}, 1)
      BY <1>1 DEF Sampled, SampledOne
    <3>2. shown' = 1 /\ (Pressed({s0, 0, 1}, 1))'
      BY <1>8, <2>1, <3>1
    <3> WITNESS s0 \in 0 .. 2
    <3> QED BY <3>1, <3>2
  <2>5. SampledTwo'
    <3> SUFFICES ASSUME calStep = 2, aim.all, aim.one
                 PROVE  \E s0, s1 \in 0 .. 2 :
                          /\ raws[1] = Sample(panel, s0) /\ raws[2] = Sample(panel, s1)
                          /\ s0 = 0 \/ s1 = 1
                          /\ s1 \in {s0, 0, 1} /\ shown' \in {s1, 1, 2}
                          /\ (Pressed({s1, 1, 2}, 2))'
      BY <2>2 DEF SampledTwo
    <3>1. PICK s0 \in 0 .. 2, s1 \in 0 .. 2 :
            /\ raws[1] = Sample(panel, s0) /\ raws[2] = Sample(panel, s1)
            /\ s0 = 0 \/ s1 = 1
            /\ s1 \in {s0, 0, 1} /\ Pressed({s1, 1, 2}, 2)
      BY <1>1 DEF Sampled, SampledTwo
    <3>2. shown' = 2 /\ (Pressed({s1, 1, 2}, 2))'
      BY <1>8, <2>1, <3>1
    <3> WITNESS s0 \in 0 .. 2, s1 \in 0 .. 2
    <3> QED BY <3>1, <3>2
  <2> QED BY <1>4, <1>5, <1>6, <1>7, <2>3, <2>4, <2>5 DEF TouchIInv, TouchTyped, Sampled
<1>9. CASE ~Calibrating
  <2>1. calStep' = Done
    BY <1>1, <1>2, <1>9 DEF Calibrating, WizardTyped, Done, wizard
  <2>2. SampledNone' /\ SampledOne' /\ SampledTwo'
    BY <2>1 DEF SampledNone, SampledOne, SampledTwo, Done
  <2> QED BY <1>4, <1>5, <1>6, <1>7, <2>2 DEF TouchIInv, TouchTyped, Sampled
<1> QED BY <1>3, <1>8, <1>9

\* A restart keeps the invariant if it reads a calibration that is still the
\* stored one, or is no longer taken for an aimed one.
LEMMA RestartHolds ==
  ASSUME TouchIInv, NEW image, Restart(image), image.valid \in BOOLEAN,
         aim' \in Aims, aim'.kept => image = stored /\ aim.kept
  PROVE  TouchIInv'
<1>1. GlassOK /\ WizardTyped /\ Sampled
  BY DEF TouchIInv, TouchTyped
<1>2. ClocksOK' /\ LightOK' /\ ~prev' /\ ~ignore' /\ ~Calibrating'
  <2>1. /\ prev' = FALSE /\ gap' = 0 /\ held' = 0 /\ quiet' = 0
        /\ bright' = Full /\ screenOn' = TRUE /\ ignore' = FALSE /\ calStep' = 3
    BY DEF Restart, Done
  <2>2. ClocksOK'
    <3>1. gap' \in 0 .. Release - 1 /\ held' \in 0 .. CalHold
      BY Times DEF Restart
    <3>2. quiet' \in 0 .. DimAfter + 1
      BY Times DEF Restart
    <3>3. prev' \in BOOLEAN
      BY <2>1, Zenon
    <3> QED BY <3>1, <3>2, <3>3 DEF ClocksOK
  <2>3. LightOK'
    BY <2>1, Times DEF LightOK
  <2> QED BY <2>1, <2>2, <2>3 DEF Calibrating, Done
<1>3. GlassOK' /\ Meanings'
  <2>1. /\ longFired' = FALSE /\ tab' = "flow" /\ calDrawn' = FALSE /\ shown' = 3
        /\ used' = {} /\ panel' = panel
    BY DEF Restart, Tabs
  <2>2. GlassOK'
    <3>1. longFired' \in BOOLEAN /\ calDrawn' \in BOOLEAN
      BY <2>1, Zenon
    <3>2. shown' \in 0 .. Tabs
      BY DEF Restart, Tabs
    <3>3. panel' \in Panels
      BY <1>1, <2>1 DEF GlassOK
    <3> QED BY <2>1, <3>1, <3>2, <3>3 DEF GlassOK
  <2> QED BY <1>2, <2>1, <2>2 DEF Meanings, OneMeaningPerPress
<1>4. WizardTyped'
  <2>1. spot' \in Spots
    BY <1>1, NoSpotTyped DEF Restart
  <2>2. /\ calStep' = 3 /\ raws' = <<>> /\ count' = 0 /\ ignore' = FALSE
        /\ cal' = image /\ stored' = image
    BY DEF Restart, Done
  <2>3. raws' \in Seq(Readings) /\ Len(raws') = 0
    BY <2>2
  <2>4. ignore' \in BOOLEAN /\ cal'.valid \in BOOLEAN /\ stored'.valid \in BOOLEAN
    BY <2>2
  <2> QED BY <2>1, <2>2, <2>3, <2>4 DEF WizardTyped, Done
<1>5. Sampled'
  <2>1. SampledNone' /\ SampledOne' /\ SampledTwo'
    BY DEF Restart, SampledNone, SampledOne, SampledTwo, Done
  <2>2. cal' = image /\ stored' = image /\ panel' = panel
    BY DEF Restart
  <2>3. CalibrationIsTrue'
    BY <1>1, <2>2 DEF Sampled, CalibrationIsTrue
  <2> QED BY <2>1, <2>3 DEF Sampled
<1> QED BY <1>2, <1>3, <1>4, <1>5 DEF TouchIInv, TouchTyped

LEMMA RebootHolds ==
  ASSUME TouchIInv, Reboot
  PROVE  TouchIInv'
<1>1. aim \in Aims /\ stored.valid \in BOOLEAN
  BY DEF TouchIInv, TouchTyped, WizardTyped
<1>2. Restart(stored) /\ aim' = [aim EXCEPT !.all = TRUE, !.one = FALSE]
  BY DEF Reboot
<1>3. aim' \in Aims /\ aim'.kept = aim.kept
  BY <1>1, <1>2, AimSet, Zenon
<1> QED BY <1>1, <1>2, <1>3, RestartHolds, Zenon

LEMMA RebootInCommitHolds ==
  ASSUME TouchIInv, RebootInCommit
  PROVE  TouchIInv'
<1>1. PICK n \in 0 .. 2 : /\ Restart(Torn(stored, n))
                         /\ aim' = [all |-> TRUE, one |-> FALSE, kept |-> FALSE]
  BY DEF RebootInCommit
<1>2. Torn(stored, n).valid \in BOOLEAN
  <2>1. CASE n = 0 \/ ~stored.valid
    BY <2>1 DEF Torn, NoCal
  <2>2. CASE ~(n = 0 \/ ~stored.valid)
    <3>1. Torn(stored, n).valid = TRUE
      BY <2>2 DEF Torn
    <3> QED BY <3>1
  <2> QED BY <2>1, <2>2
<1>3. aim' \in Aims /\ ~aim'.kept
  BY <1>1 DEF Aims
<1> QED BY <1>1, <1>2, <1>3, RestartHolds, Zenon

LEMMA InitHolds ==
  ASSUME Init
  PROVE  TouchIInv
<1>1. ClocksOK /\ LightOK /\ ~prev /\ ~ignore /\ ~Calibrating
  <2>1. /\ prev = FALSE /\ gap = 0 /\ held = 0 /\ quiet = 0
        /\ bright = Full /\ screenOn = TRUE /\ ignore = FALSE /\ calStep = 3
    BY DEF Init, Done
  <2>2. ClocksOK
    <3>1. gap \in 0 .. Release - 1 /\ held \in 0 .. CalHold
      BY Times DEF Init
    <3>2. quiet \in 0 .. DimAfter + 1
      BY Times DEF Init
    <3>3. prev \in BOOLEAN
      BY <2>1, Zenon
    <3> QED BY <3>1, <3>2, <3>3 DEF ClocksOK
  <2>3. LightOK
    BY <2>1, Times DEF LightOK
  <2> QED BY <2>1, <2>2, <2>3 DEF Calibrating, Done
<1>2. GlassOK /\ Meanings
  <2>1. /\ longFired = FALSE /\ tab = "flow" /\ calDrawn = FALSE /\ shown = 3
        /\ used = {} /\ panel \in Panels
    BY DEF Init, Tabs
  <2>2. GlassOK
    <3>1. longFired \in BOOLEAN /\ calDrawn \in BOOLEAN
      BY <2>1, Zenon
    <3>2. shown \in 0 .. Tabs
      BY DEF Init, Tabs
    <3>3. panel \in Panels
      BY <2>1 DEF GlassOK
    <3> QED BY <2>1, <3>1, <3>2, <3>3 DEF GlassOK
  <2> QED BY <1>1, <2>1, <2>2 DEF Meanings, OneMeaningPerPress
<1>3. WizardTyped
  <2>1. spot \in Spots
    BY <1>2, NoSpotTyped DEF Init
  <2>2. /\ calStep = 3 /\ raws = <<>> /\ count = 0 /\ ignore = FALSE
        /\ cal.valid \in BOOLEAN /\ stored.valid \in BOOLEAN /\ aim \in Aims
    BY DEF Init, Done, NoCal, Aims
  <2>3. raws \in Seq(Readings) /\ Len(raws) = 0
    BY <2>2
  <2>4. ignore \in BOOLEAN
    BY <2>2
  <2> QED BY <2>1, <2>2, <2>3, <2>4 DEF WizardTyped, Done
<1>4. Sampled
  BY DEF Init, Sampled, SampledNone, SampledOne, SampledTwo, CalibrationIsTrue,
         Done, NoCal
<1> QED BY <1>1, <1>2, <1>3, <1>4 DEF TouchIInv, TouchTyped

LEMMA StepHolds ==
  ASSUME TouchIInv, [Next]_vars
  PROVE  TouchIInv'
<1>1. CASE \E contact \in BOOLEAN, dt \in Passes : Pass(contact, dt)
  <2>1. PICK contact \in BOOLEAN, dt \in Passes : Pass(contact, dt)
    BY <1>1
  <2> QED BY <2>1, PressHolds, HoldHolds, LiftOffHolds, UntouchedHolds, CalIgnoreHolds,
            CalPressHolds, CalHeldHolds, CalReleaseHolds DEF Pass
<1>2. CASE WebStart
  BY <1>2, WebStartHolds
<1>3. CASE Draw
  BY <1>3, DrawHolds
<1>4. CASE Reboot
  BY <1>4, RebootHolds
<1>5. CASE RebootInCommit
  BY <1>5, RebootInCommitHolds
<1>6. CASE UNCHANGED vars
  <2>1. UNCHANGED <<panel, touch, longFired, wizard, spot, light, tab, calDrawn, shown,
                    stored, used, aim>>
    BY <1>6 DEF vars
  <2>2. ClocksOK' /\ LightOK' /\ GlassOK' /\ WizardTyped'
    BY <2>1, WizardKept DEF TouchIInv, TouchTyped, ClocksOK, LightOK, GlassOK, touch, light
  <2>3. Meanings' /\ (Live' => Live)
    BY <2>1 DEF TouchIInv, Meanings, OneMeaningPerPress, Calibrating, Live, touch, wizard
  <2>4. Sampled'
    BY <2>1, <2>3, SampledKept DEF TouchIInv, wizard
  <2> QED BY <2>2, <2>3, <2>4 DEF TouchIInv, TouchTyped
<1> QED BY <1>1, <1>2, <1>3, <1>4, <1>5, <1>6 DEF Next

-----------------------------------------------------------------------------
(* The theorems.                                                           *)

\* The inductive invariant: the flag that mutes a tap is up as soon as its press
\* meant anything, and the wizard's samples were taken on the crosshairs the display
\* task had drawn by then.
THEOREM TouchInvariant == Spec => []TouchIInv
<1>1. Init => TouchIInv
  BY InitHolds
<1>2. TouchIInv /\ [Next]_vars => TouchIInv'
  BY StepHolds
<1> QED BY <1>1, <1>2, PTL DEF Spec

\* Type correctness, for every set of times and overlays: one reading per crosshair
\* passed, clocks under their limits, and no light behind a screen that is off.
THEOREM TouchTypeCorrect == Spec => []TouchTypeOK
<1>1. TouchIInv => TouchTypeOK
  <2> SUFFICES ASSUME TouchIInv PROVE TouchTypeOK
    OBVIOUS
  <2>1. ClocksOK /\ LightOK /\ GlassOK /\ WizardTyped
    BY DEF TouchIInv, TouchTyped
  <2>2. screenOn = (bright > 0)
    <3>1. screenOn \in BOOLEAN /\ (screenOn <=> bright > 0)
      BY <2>1 DEF LightOK
    <3>2. CASE bright > 0
      <4>1. screenOn = TRUE
        BY <3>1, <3>2, Zenon
      <4>2. (bright > 0) = TRUE
        BY <3>2
      <4> QED BY <4>1, <4>2
    <3>3. CASE ~(bright > 0)
      <4>1. screenOn = FALSE
        BY <3>1, <3>3, Zenon
      <4>2. (bright > 0) = FALSE
        BY <3>3
      <4> QED BY <4>1, <4>2
    <3> QED BY <3>2, <3>3
  <2>3. Len(raws) = calStep % Done
    <3>1. calStep \in 0 .. 3 /\ Len(raws) = (IF calStep = 3 THEN 0 ELSE calStep)
      BY <2>1 DEF WizardTyped, Done
    <3>2. 0 % 3 = 0 /\ 1 % 3 = 1 /\ 2 % 3 = 2 /\ 3 % 3 = 0
      OBVIOUS
    <3>3. calStep = 0 \/ calStep = 1 \/ calStep = 2 \/ calStep = 3
      BY <3>1
    <3> QED BY <3>1, <3>2, <3>3 DEF Done
  <2>4. /\ prev \in BOOLEAN /\ gap \in 0 .. Release - 1
        /\ held \in 0 .. CalHold /\ quiet \in 0 .. DimAfter + 1 /\ bright \in 0 .. Full
    BY <2>1 DEF ClocksOK, LightOK
  <2>5. /\ panel \in Panels /\ longFired \in BOOLEAN
        /\ tab \in {"flow", "sys"} /\ calDrawn \in BOOLEAN /\ shown \in 0 .. Tabs
        /\ used \subseteq {"wake", "long", "start", "tap", "toggle", "sample"}
    BY <2>1 DEF GlassOK
  <2>6. /\ calStep \in 0 .. Done /\ ignore \in BOOLEAN /\ count \in 0 .. 2
        /\ raws \in Seq(Readings)
        /\ spot \in [at : Readings, aimed : BOOLEAN, right : BOOLEAN]
        /\ cal.valid \in BOOLEAN /\ stored.valid \in BOOLEAN
        /\ aim \in [all : BOOLEAN, one : BOOLEAN, kept : BOOLEAN]
    BY <2>1 DEF WizardTyped, Spots, Aims
  <2> QED BY <2>2, <2>3, <2>4, <2>5, <2>6, Zenon DEF TouchTypeOK
<1> QED BY <1>1, TouchInvariant, PTL

\* One press means one thing, whatever dips in its contact, slow passes, dimming
\* and starts of the wizard from the web page happen while it lasts.
THEOREM PressesMeanOneThing == Spec => []OneMeaningPerPress
<1>1. TouchIInv => OneMeaningPerPress
  BY DEF TouchIInv, Meanings
<1> QED BY <1>1, TouchInvariant, PTL

\* The stored calibration is true of the panel, whatever its overlay, as soon as
\* every tap was aimed and one of the first two hit the crosshair asked for.
THEOREM CalibrationAlwaysTrue == Spec => []CalibrationIsTrue
<1>1. TouchIInv => CalibrationIsTrue
  BY DEF TouchIInv, Sampled
<1> QED BY <1>1, TouchInvariant, PTL

\* What one poll outside the wizard reports.
LEMMA PassMatches ==
  ASSUME TouchIInv, NEW contact \in BOOLEAN, NEW dt \in Passes, ~Calibrating,
         Pass(contact, dt)
  PROVE  /\ \A e \in {"wake", "long", "tap"} : Reported(e) <=> Tested(contact, dt) = e
         /\ Tested(contact, dt) = "start" => Reported("start")
         /\ Reported("start") => Tested(contact, dt) \in {"long", "start"}
<1>1. ClocksOK /\ Meanings /\ GlassOK /\ LightOK
  BY DEF TouchIInv, TouchTyped
<1>2. Clocks(contact, dt, TRUE) \/ Clocks(contact, dt, FALSE)
  BY DEF Pass, Press, Hold, LiftOff, Untouched, CalIgnore, CalPress, CalHeld,
         CalRelease, CalUntouched
<1>3. prev' <=> Down(contact, dt)
  BY <1>1, <1>2, ClocksTyped
<1>4. CASE Press(contact, dt)
  <2>1. ~prev /\ Down(contact, dt) /\ used' = (IF screenOn THEN {} ELSE {"wake"})
    BY <1>4 DEF Press
  <2>2. \A e : Reported(e) <=> e \in used'
    BY <1>3, <2>1 DEF Reported
  <2>3. Tested(contact, dt) = (IF screenOn THEN "press" ELSE "wake")
    BY <2>1 DEF Tested
  <2> QED BY <2>1, <2>2, <2>3
<1>5. CASE Hold(contact, dt)
  <2> DEFINE h == UpTo(CalHold, held + dt)
             long == LongDue(h)
             start == h >= CalHold
  <2>1. /\ prev /\ Down(contact, dt)
        /\ used' = used \union (IF long THEN {"long"} ELSE {})
                        \union (IF start THEN {"start"} ELSE {})
    BY <1>5 DEF Hold
  <2>2. /\ used \subseteq {"wake", "long", "start"} /\ "start" \notin used
        /\ used # {} => longFired
    BY <1>1, <2>1 DEF Meanings
  <2>3. /\ long <=> ~longFired /\ held + dt >= Long
        /\ start <=> held + dt >= CalHold
    <3>1. dt \in Nat /\ held \in Nat
      BY <1>1, Times DEF ClocksOK
    <3>2. h \in Nat /\ (h >= Long <=> held + dt >= Long)
          /\ (h >= CalHold <=> held + dt >= CalHold)
      BY <3>1, Times DEF UpTo
    <3> HIDE DEF h
    <3> QED BY <3>2 DEF LongDue
  <2>4. Tested(contact, dt) =
          (IF long THEN "long" ELSE IF start THEN "start" ELSE "none")
    BY <2>1, <2>3 DEF Tested
  <2>5. start => held + dt >= Long
    <3>1. dt \in Nat /\ held \in Nat
      BY <1>1, Times DEF ClocksOK
    <3> QED BY <2>3, <3>1, Times
  <2> HIDE DEF h, long, start
  <2>6. \A e : Reported(e) <=> e \in used' /\ e \notin used
    BY <2>1 DEF Reported
  <2>7. long => used = {}
    BY <2>2, <2>3
  <2> QED BY <2>1, <2>2, <2>4, <2>6, <2>7
<1>6. CASE LiftOff(contact, dt)
  <2> DEFINE tap == ~longFired /\ held + dt >= MinTap
  <2>1. /\ prev /\ ~Down(contact, dt) /\ ~prev'
        /\ \/ /\ tap
              /\ \E m \in TapMeaning :
                   used' = used \union {"tap"}
                                \union (IF m.toggle THEN {"toggle"} ELSE {})
           \/ ~tap /\ used' = used
    BY <1>3, <1>6 DEF LiftOff
  <2>2. used \subseteq {"wake", "long", "start"}
    BY <1>1, <2>1 DEF Meanings
  <2>3. Tested(contact, dt) = (IF tap THEN "tap" ELSE "none")
    BY <2>1 DEF Tested
  <2> HIDE DEF tap
  <2>4. \A e : Reported(e) <=> e \in used' /\ e \notin used
    BY <2>1 DEF Reported
  <2> QED BY <2>1, <2>2, <2>3, <2>4
<1>7. CASE Untouched(contact, dt)
  <2>1. ~prev /\ ~Down(contact, dt) /\ used' = used
    BY <1>7 DEF Untouched
  <2>2. \A e : ~Reported(e)
    BY <1>3, <2>1 DEF Reported
  <2>3. Tested(contact, dt) = "none"
    BY <2>1 DEF Tested
  <2> QED BY <2>2, <2>3
<1> QED BY <1>4, <1>5, <1>6, <1>7
        DEF Pass, CalIgnore, CalPress, CalHeld, CalRelease, CalUntouched

\* The firmware's own gesture code reports what the natively tested function does.
THEOREM GesturesMatchTested == Spec => FirmwareMatchesTested
<1> DEFINE Matches ==
      \A contact \in BOOLEAN, dt \in Passes :
          ~Calibrating /\ Pass(contact, dt) =>
             /\ \A e \in {"wake", "long", "tap"} :
                   Reported(e) <=> Tested(contact, dt) = e
             /\ Tested(contact, dt) = "start" => Reported("start")
             /\ Reported("start") => Tested(contact, dt) \in {"long", "start"}
<1>1. TouchIInv => Matches
  BY PassMatches
<1> QED BY <1>1, TouchInvariant, PTL DEF FirmwareMatchesTested
==============================================================================
