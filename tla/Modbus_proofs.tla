---------------------------- MODULE Modbus_proofs ----------------------------
(***************************************************************************)
(* Proofs about the Modbus master, for every frame size, payload, time     *)
(* limit and number of replies in the air: listen() never accepts what     *)
(* does not fit, and what a success can be relied on for.                  *)
(***************************************************************************)
EXTENDS Modbus, SequenceTheorems, TLAPS

Asks == [op: {"read", "write"}, size: 0 .. 255]
Collected == [idx: 0 .. MaxFrame, fc: 0 .. 255, third: 0 .. 255, of: Frames]
Outcomes == [ok: BOOLEAN, len: 0 .. 255, of: Frames]

-----------------------------------------------------------------------------
(* Frames.                                                                 *)

LEMMA SizesTyped ==
  /\ MaxFrame \in Nat /\ MaxFrame >= 8 /\ MaxFrame <= 255
  /\ Timeout \in Nat /\ InterByte \in Nat /\ InterByte <= Timeout
  /\ Budget \in Nat /\ Budget > 0 /\ MaxLate \in Nat /\ MaxLate > 0
  BY ModbusAssumption

\* Reading on in a frame.
LEMMA AtTyped ==
  ASSUME NEW f \in Frames, NEW n \in 1 .. MaxFrame
  PROVE  /\ [f EXCEPT !.at = n] \in Frames /\ [f EXCEPT !.at = n].at = n
         /\ [f EXCEPT !.at = n].own = f.own /\ [f EXCEPT !.at = n].fc = f.fc
         /\ [f EXCEPT !.at = n].third = f.third /\ [f EXCEPT !.at = n].size = f.size
         /\ [f EXCEPT !.at = n].good = f.good
<1>1. [f EXCEPT !.at = n] \in Frames
  BY DEF Frames
<1>2. QED
  BY <1>1 DEF Frames

\* An exception carries a code.
Honest(f) == ErrorBit(f.fc) => f.third # 0

\* A frame that has just begun to arrive.
Fresh(f) == f \in Frames /\ f.at = 1 /\ f.size >= 5 /\ Honest(f)

LEMMA FrameFresh ==
  ASSUME NEW c \in 0 .. 255, NEW b \in 0 .. 255, ErrorBit(c) => b # 0,
         NEW n \in 5 .. MaxFrame
  PROVE  Fresh(Frame(c, b, n)) /\ Frame(c, b, n).own /\ Frame(c, b, n).fc = c
<1>1. Frame(c, b, n) \in Frames
  BY SizesTyped DEF Frame, Frames
<1>2. Frame(c, b, n).fc = c /\ Frame(c, b, n).third = b
  BY DEF Frame
<1>3. QED
  BY <1>1, <1>2 DEF Frame, Fresh, Honest

\* What the inverter may answer to a request that was sent.
LEMMA RepliesTyped ==
  ASSUME NEW r \in Asks, ~Refused(r)
  PROVE  /\ \A f \in Replies(r) : Fresh(f) /\ f.own
         /\ \A f \in Exceptions(r) : Fresh(f) /\ f.own /\ ErrorBit(f.fc)
<1> DEFINE reply == IF r.op = "read" THEN Frame(ReadFc, 2 * r.size, 2 * r.size + 5)
                    ELSE Frame(WriteFc, 17, 8)
<1>1. Fresh(reply) /\ reply.own
  <2>1. CASE r.op = "read"
    <3>1. 2 * r.size \in 0 .. 255 /\ 2 * r.size + 5 \in 5 .. MaxFrame
      BY <2>1, SizesTyped DEF Refused, MaxRead, Asks
    <3>2. 3 \in 0 .. 255 /\ ~ErrorBit(3)
      BY DEF ErrorBit
    <3>3. /\ Fresh(Frame(3, 2 * r.size, 2 * r.size + 5))
          /\ Frame(3, 2 * r.size, 2 * r.size + 5).own
      BY <3>1, <3>2, FrameFresh, ZenonT(40)
    <3>4. QED
      BY <2>1, <3>3 DEF ReadFc
  <2>2. CASE r.op # "read"
    <3>1. /\ 16 \in 0 .. 255 /\ 17 \in 0 .. 255 /\ 8 \in 5 .. MaxFrame
          /\ ~ErrorBit(16)
      BY SizesTyped DEF ErrorBit
    <3>2. Fresh(Frame(16, 17, 8)) /\ Frame(16, 17, 8).own
      BY <3>1, FrameFresh, ZenonT(40)
    <3>3. QED
      BY <2>2, <3>2 DEF WriteFc
  <2>3. QED
    BY <2>1, <2>2
<1> DEFINE damaged == [reply EXCEPT !.good = FALSE]
           odd     == [damaged EXCEPT !.third = 255]
<1>2. Replies(r) = {reply, damaged, odd}
  BY DEF Replies
<1> HIDE DEF reply
<1>3. Fresh(damaged) /\ damaged.own
  <2>1. /\ reply \in Frames /\ reply.at = 1 /\ reply.size >= 5 /\ reply.own
        /\ Honest(reply)
    BY <1>1 DEF Fresh
  <2>2. damaged \in Frames
    BY <2>1 DEF Frames
  <2>3. /\ damaged.at = reply.at /\ damaged.size = reply.size /\ damaged.own = reply.own
        /\ damaged.fc = reply.fc /\ damaged.third = reply.third
    BY <2>1 DEF Frames
  <2>4. QED
    BY <2>1, <2>2, <2>3 DEF Fresh, Honest
<1> HIDE DEF damaged
<1>8. Fresh(odd) /\ odd.own
  <2>1. damaged \in Frames /\ damaged.at = 1 /\ damaged.size >= 5 /\ damaged.own
    BY <1>3 DEF Fresh
  <2>2. odd \in Frames
    <3>1. 255 \in 0 .. 255
      OBVIOUS
    <3>2. QED
      BY <2>1, <3>1 DEF Frames
  <2>3. /\ odd.at = damaged.at /\ odd.size = damaged.size /\ odd.own = damaged.own
        /\ odd.third = 255
    BY <2>1 DEF Frames
  <2>4. QED
    BY <2>1, <2>2, <2>3 DEF Fresh, Honest
<1> HIDE DEF odd
<1>4. \A f \in Replies(r) : Fresh(f) /\ f.own
  BY <1>1, <1>2, <1>3, <1>8
<1>5. Fc(r) + 128 \in 0 .. 255 /\ ErrorBit(Fc(r) + 128)
  BY DEF Fc, ReadFc, WriteFc, ErrorBit
<1>6. ASSUME NEW code \in ExceptionCodes
      PROVE  LET f == Frame(Fc(r) + 128, code, 5)
             IN  Fresh(f) /\ f.own /\ f.fc = Fc(r) + 128
  <2>1. code \in 1 .. 255
    BY ModbusAssumption
  <2>2. code \in 0 .. 255 /\ code # 0 /\ 5 \in 5 .. MaxFrame
    BY <2>1, SizesTyped
  <2> DEFINE c == Fc(r) + 128
  <2>3. c \in 0 .. 255
    BY <1>5
  <2> HIDE DEF c
  <2>4. Fresh(Frame(c, code, 5)) /\ Frame(c, code, 5).own /\ Frame(c, code, 5).fc = c
    BY <2>2, <2>3, FrameFresh, ZenonT(40)
  <2>5. QED
    BY <2>4 DEF c
<1>7. QED
  BY <1>4, <1>5, <1>6 DEF Exceptions

\* Bytes on the bus are bytes.
LEMMA BytesTyped ==
  ASSUME NEW f \in Frames
  PROVE  Bytes(f) \subseteq 0 .. 255
  BY ModbusAssumption DEF Bytes, Frames, SlaveId

-----------------------------------------------------------------------------
(* The air.                                                                *)

\* Frames on their way, none of them further read than its size.
Airborne(q) == /\ q \in Seq(Frames)
               /\ \A i \in DOMAIN q : q[i].at <= q[i].size /\ Honest(q[i])

\* Losing the head of the air leaves the rest as it is.
LEMMA TailAirborne ==
  ASSUME NEW q, Airborne(q), q # <<>>
  PROVE  /\ Airborne(Tail(q)) /\ Len(Tail(q)) < Len(q)
         /\ \A i \in DOMAIN Tail(q) : i + 1 \in DOMAIN q /\ Tail(q)[i] = q[i + 1]
  BY DEF Airborne

\* Some frame of q is f, up to what has been read of it.
Among(f, q) == \E j \in DOMAIN q : q[j].own = f.own /\ q[j].fc = f.fc

\* A byte read advances the head of the air, or removes it with its last byte.
LEMMA AdvanceAirborne ==
  ASSUME NEW q, Airborne(q), q # <<>>
  PROVE  /\ Airborne(Advance(q)) /\ Len(Advance(q)) <= Len(q)
         /\ \A i \in DOMAIN Advance(q) : Among(Advance(q)[i], q)
<1>1. q \in Seq(Frames) /\ Len(q) \in Nat /\ DOMAIN q = 1 .. Len(q) /\ 1 \in DOMAIN q
  BY DEF Airborne
<1>2. /\ Tail(q) \in Seq(Frames) /\ Len(Tail(q)) = Len(q) - 1
      /\ DOMAIN Tail(q) = 1 .. Len(q) - 1
      /\ \A i \in 1 .. Len(q) - 1 : i + 1 \in DOMAIN q /\ Tail(q)[i] = q[i + 1]
  BY <1>1, HeadTailProperties, LenProperties
<1>3. CASE Head(q).at = Head(q).size
  <2>1. Advance(q) = Tail(q)
    BY <1>3 DEF Advance
  <2>2. Airborne(Tail(q))
    BY <1>1, <1>2 DEF Airborne
  <2>3. \A i \in DOMAIN Tail(q) : Among(Tail(q)[i], q)
    BY <1>2 DEF Among
  <2>4. QED
    BY <1>1, <1>2, <2>1, <2>2, <2>3
<1>4. CASE Head(q).at # Head(q).size
  <2> DEFINE h == [q[1] EXCEPT !.at = q[1].at + 1]
             a == <<h>> \o Tail(q)
  <2>1. Advance(q) = a
    BY <1>1, <1>4 DEF Advance
  <2>2. /\ q[1] \in Frames /\ q[1].at <= q[1].size /\ q[1].at # q[1].size
        /\ Honest(q[1])
    BY <1>1, <1>4 DEF Airborne
  <2>3. q[1].at + 1 \in 1 .. MaxFrame /\ q[1].at + 1 <= q[1].size
    BY <2>2, SizesTyped DEF Frames
  <2>4. /\ h \in Frames /\ h.at <= h.size /\ h.own = q[1].own /\ h.fc = q[1].fc
        /\ Honest(h)
    BY <2>2, <2>3, AtTyped DEF Honest
  <2> HIDE DEF h
  <2>5. <<h>> \in Seq(Frames) /\ Len(<<h>>) = 1 /\ <<h>>[1] = h
    BY <2>4
  <2>6. /\ a \in Seq(Frames) /\ Len(a) = Len(q)
        /\ \A i \in 1 .. Len(q) : a[i] = IF i <= 1 THEN <<h>>[i] ELSE Tail(q)[i - 1]
    BY <1>1, <1>2, <2>5, ConcatProperties
  <2>7. a \in Seq(Frames) /\ Len(a) = Len(q) /\ DOMAIN a = DOMAIN q
    BY <1>1, <2>6, LenProperties
  <2>8. \A i \in DOMAIN q : a[i] = IF i = 1 THEN h ELSE q[i]
    BY <1>1, <1>2, <2>5, <2>6
  <2> HIDE DEF a
  <2>9. Airborne(a)
    BY <2>4, <2>7, <2>8 DEF Airborne
  <2>10. \A i \in DOMAIN a : Among(a[i], q)
    BY <1>1, <2>4, <2>7, <2>8 DEF Among
  <2>11. QED
    BY <1>1, <2>1, <2>7, <2>9, <2>10
<1>5. QED
  BY <1>3, <1>4

\* What flush() leaves is frames, the first of them from some byte on.
LEMMA DrainAirborne ==
  ASSUME NEW q, Airborne(q), NEW arrived \in 0 .. Len(q), NEW at \in Arriving(q, arrived)
  PROVE  /\ Airborne(Drain(q, arrived, at))
         /\ arrived = Len(q) => Drain(q, arrived, at) = <<>>
<1>1. q \in Seq(Frames) /\ Len(q) \in Nat /\ DOMAIN q = 1 .. Len(q)
  BY DEF Airborne
<1>2. CASE arrived = Len(q)
  <2>1. Drain(q, arrived, at) = <<>>
    BY <1>2 DEF Drain
  <2>2. Airborne(<<>>)
    BY DEF Airborne
  <2>3. QED
    BY <2>1, <2>2
<1>3. CASE arrived # Len(q)
  <2> DEFINE f    == q[arrived + 1]
             h    == [f EXCEPT !.at = at]
             rest == SubSeq(q, arrived + 2, Len(q))
             a    == <<h>> \o rest
  <2>1. /\ arrived \in Nat /\ arrived + 1 \in DOMAIN q /\ arrived + 2 \in Nat
        /\ f \in Frames /\ f.at <= f.size /\ Honest(f)
    <3>1. arrived \in Nat /\ arrived + 1 \in 1 .. Len(q) /\ arrived + 2 \in Nat
      <4>1. Len(q) \in Nat
        BY <1>1
      <4>2. arrived \in Nat /\ arrived <= Len(q)
        BY <4>1
      <4>3. QED
        BY <1>3, <4>1, <4>2
    <3>2. \A i \in 1 .. Len(q) : q[i] \in Frames /\ q[i].at <= q[i].size /\ Honest(q[i])
      BY <1>1 DEF Airborne
    <3>3. QED
      BY <1>1, <3>1, <3>2
  <2>2. at \in f.at .. f.size
    BY <1>3 DEF Arriving
  <2>3. at \in 1 .. MaxFrame /\ at <= f.size
    BY <2>1, <2>2, SizesTyped DEF Frames
  <2>4. h \in Frames /\ h.at <= h.size /\ Honest(h)
    BY <2>1, <2>3, AtTyped DEF Honest
  <2>5. \A i \in arrived + 2 .. Len(q) :
          q[i] \in Frames /\ q[i].at <= q[i].size /\ Honest(q[i])
    BY <1>1, <2>1 DEF Airborne
  <2>6. /\ rest \in Seq(Frames) /\ Len(rest) \in Nat
        /\ \A i \in 1 .. Len(rest) :
             rest[i] \in Frames /\ rest[i].at <= rest[i].size /\ Honest(rest[i])
    <3>1. /\ rest \in Seq(Frames)
          /\ \A i \in 1 .. Len(q) - (arrived + 2) + 1 : rest[i] = q[(arrived + 2) + i - 1]
          /\ Len(rest) = IF arrived + 2 <= Len(q) THEN Len(q) - (arrived + 2) + 1 ELSE 0
      BY <1>1, <2>1, <2>5, SubSeqProperties
    <3> HIDE DEF rest
    <3>2. Len(rest) \in Nat
      BY <3>1
    <3>3. ASSUME NEW i \in 1 .. Len(rest)
          PROVE  rest[i] \in Frames /\ rest[i].at <= rest[i].size /\ Honest(rest[i])
      <4>1. arrived + 2 <= Len(q) /\ Len(rest) = Len(q) - (arrived + 2) + 1
        <5>1. CASE arrived + 2 <= Len(q)
          BY <3>1, <5>1
        <5>2. CASE ~(arrived + 2 <= Len(q))
          <6>1. Len(rest) = 0
            BY <3>1, <5>2
          <6>2. QED
            BY <6>1
        <5>3. QED
          BY <5>1, <5>2
      <4>2. /\ i \in 1 .. Len(q) - (arrived + 2) + 1
            /\ (arrived + 2) + i - 1 \in arrived + 2 .. Len(q)
        BY <1>1, <2>1, <4>1
      <4>3. rest[i] = q[(arrived + 2) + i - 1]
        BY <3>1, <4>2
      <4>4. QED
        BY <2>5, <4>2, <4>3
    <3>4. QED
      BY <3>1, <3>2, <3>3
  <2> HIDE DEF h, rest
  <2>7. <<h>> \in Seq(Frames) /\ Len(<<h>>) = 1 /\ <<h>>[1] = h
    BY <2>4
  <2>8. /\ a \in Seq(Frames) /\ Len(a) = 1 + Len(rest)
        /\ \A i \in 1 .. 1 + Len(rest) : a[i] = IF i <= 1 THEN <<h>>[i] ELSE rest[i - 1]
    BY <2>6, <2>7, ConcatProperties
  <2>9. DOMAIN a = 1 .. 1 + Len(rest)
    BY <2>8, LenProperties
  <2> HIDE DEF a
  <2>10. ASSUME NEW i \in DOMAIN a PROVE a[i].at <= a[i].size /\ Honest(a[i])
    <3>1. CASE i = 1
      BY <2>4, <2>6, <2>7, <2>8, <2>9, <3>1
    <3>2. CASE i # 1
      <4>1. i - 1 \in 1 .. Len(rest) /\ a[i] = rest[i - 1]
        BY <2>6, <2>8, <2>9, <3>2
      <4>2. QED
        BY <2>6, <4>1
    <3>3. QED
      BY <3>1, <3>2
  <2>11. Drain(q, arrived, at) = a
    BY <1>3 DEF Drain, a, h, rest
  <2>12. QED
    BY <1>3, <2>8, <2>10, <2>11 DEF Airborne
<1>4. QED
  BY <1>2, <1>3

\* It is no longer what is asked for.
LEMMA EarlierAirborne ==
  ASSUME NEW q, Airborne(q)
  PROVE  Airborne(Earlier(q)) /\ (q = <<>> => Earlier(q) = <<>>)
<1> DEFINE left == [i \in DOMAIN q |-> [q[i] EXCEPT !.own = FALSE]]
<1>1. q \in Seq(Frames) /\ Len(q) \in Nat /\ DOMAIN q = 1 .. Len(q)
  BY DEF Airborne
<1>2. \A i \in DOMAIN left :
        left[i] \in Frames /\ left[i].at <= left[i].size /\ Honest(left[i])
  <2> SUFFICES ASSUME NEW i \in DOMAIN q
               PROVE  left[i] \in Frames /\ left[i].at <= left[i].size /\ Honest(left[i])
    OBVIOUS
  <2> DEFINE f == q[i]
  <2>1. left[i] = [f EXCEPT !.own = FALSE] /\ f \in Frames /\ f.at <= f.size /\ Honest(f)
    BY <1>1 DEF Airborne
  <2> HIDE DEF f, left
  <2>2. /\ left[i].fc = f.fc /\ left[i].third = f.third
        /\ left[i].at = f.at /\ left[i].size = f.size
    BY <2>1 DEF Frames
  <2>3. left[i] \in Frames
    BY <2>1, ZenonT(40) DEF Frames
  <2>4. QED
    BY <2>1, <2>2, <2>3 DEF Honest
<1>3. left \in Seq(Frames) /\ DOMAIN left = 1 .. Len(q)
  BY <1>1, <1>2
<1>4. q = <<>> => left = <<>>
  BY <1>1, <1>3
<1>5. left = Earlier(q)
  BY DEF Earlier
<1> HIDE DEF left
<1>6. QED
  BY <1>2, <1>3, <1>4, <1>5 DEF Airborne

\* A reply joins what is on its way.
LEMMA AppendAirborne ==
  ASSUME NEW q, Airborne(q), NEW f, Fresh(f)
  PROVE  Airborne(Append(q, f)) /\ Len(Append(q, f)) = Len(q) + 1
  BY DEF Airborne, Fresh, Frames

-----------------------------------------------------------------------------
(* What listen() collects and decides.                                     *)

\* The bytes kept of a reply are those of the frame they are counted to.
Tracked(g) ==
  /\ g.of.size > 0 => /\ g.idx >= 2 => g.fc = g.of.fc
                      /\ g.idx >= 3 => g.third = g.of.third
  /\ Honest(g.of)

LEMMA NothingTracked == Nothing \in Collected /\ Undecided \in Outcomes /\ Tracked(Nothing)
                        /\ Mixed \in Frames /\ Mixed.size = 0 /\ Mixed.at = 1
                        /\ Honest(Mixed)
<1>1. /\ Mixed \in Frames /\ Mixed.size = 0 /\ Mixed.at = 1
      /\ Honest(Mixed)
  BY SizesTyped DEF Mixed, Frame, Frames, Honest, ErrorBit
<1>2. Nothing \in Collected /\ Nothing.of = Mixed
  BY <1>1, SizesTyped DEF Nothing, Collected
<1>3. Undecided \in Outcomes
  BY <1>1 DEF Undecided, Outcomes
<1>4. QED
  BY <1>1, <1>2, <1>3 DEF Tracked

\* Two records of the same frame, read to different bytes.
SameFrame(e, f) == /\ e \in Frames /\ e.own = f.own /\ e.fc = f.fc
                   /\ e.third = f.third /\ e.size = f.size

\* g with one more byte v, counted to frame f from its first byte on, or to no
\* one frame.
OneMore(s, g, v, f) ==
  /\ s \in Collected /\ s.idx = g.idx + 1
  /\ s.fc = IF g.idx = 1 THEN v ELSE g.fc
  /\ s.third = IF g.idx = 2 THEN v ELSE g.third
  /\ \/ s.of = Mixed
     \/ /\ SameFrame(s.of, f) /\ f.at = g.idx + 1
        /\ g.idx = 0 \/ SameFrame(g.of, f)

LEMMA StoreFields ==
  ASSUME NEW g \in Collected, g.idx < MaxFrame, NEW f \in Frames, NEW v \in 0 .. 255
  PROVE  Store(g, v, f) = g \/ OneMore(Store(g, v, f), g, v, f)
<1> DEFINE fresh == [f EXCEPT !.at = 1]
           of == IF f.at = g.idx + 1 /\ (g.idx = 0 \/ g.of = fresh) THEN fresh ELSE Mixed
           t  == [idx |-> g.idx + 1, fc |-> IF g.idx = 1 THEN v ELSE g.fc,
                  third |-> IF g.idx = 2 THEN v ELSE g.third, of |-> of]
<1>1. Store(g, v, f) = g \/ Store(g, v, f) = t
  BY DEF Store
<1>2. SameFrame(fresh, f)
  BY AtTyped, SizesTyped DEF SameFrame
<1> HIDE DEF fresh
<1>3. of \in Frames
  BY <1>2, NothingTracked DEF SameFrame
<1>4. \/ of = Mixed
      \/ SameFrame(of, f) /\ f.at = g.idx + 1 /\ (g.idx = 0 \/ SameFrame(g.of, f))
  BY <1>2
<1> HIDE DEF of
<1>5. t \in Collected
  BY <1>3, SizesTyped DEF Collected
<1>6. t.idx = g.idx + 1 /\ t.fc = (IF g.idx = 1 THEN v ELSE g.fc)
      /\ t.third = (IF g.idx = 2 THEN v ELSE g.third) /\ t.of = of
  OBVIOUS
<1> HIDE DEF t
<1>7. OneMore(t, g, v, f)
  BY <1>4, <1>5, <1>6 DEF OneMore
<1>8. QED
  BY <1>1, <1>7

\* One more byte of frame f keeps the track, and the frame collected is f then.
LEMMA StoreTracked ==
  ASSUME NEW g \in Collected, g.idx < MaxFrame, Tracked(g),
         NEW f \in Frames, Honest(f), NEW v \in 0 .. 255, f.size > 0 => v \in Bytes(f),
         NEW s, s = Store(g, v, f)
  PROVE  /\ s \in Collected /\ Tracked(s)
         /\ s.of.size = 0 \/ s.of = g.of \/ SameFrame(s.of, f)
<1>2. s = g \/ OneMore(s, g, v, f)
  BY StoreFields
<1>3. CASE s \in Collected /\ s.of = Mixed
  BY <1>3, NothingTracked DEF Tracked
<1>4. CASE /\ s \in Collected /\ s.idx = g.idx + 1
           /\ s.fc = IF g.idx = 1 THEN v ELSE g.fc
           /\ s.third = IF g.idx = 2 THEN v ELSE g.third
           /\ SameFrame(s.of, f) /\ f.at = g.idx + 1
           /\ g.idx = 0 \/ SameFrame(g.of, f)
  <2>1. g.idx \in Nat
    BY DEF Collected
  <2>2. g.idx = 1 /\ f.size > 0 => v = f.fc
    BY <1>4 DEF Bytes
  <2>3. g.idx = 2 /\ f.size > 0 => v = f.third
    BY <1>4 DEF Bytes
  <2>4. s.idx >= 2 /\ s.of.size > 0 => s.fc = s.of.fc
    BY <1>4, <2>1, <2>2 DEF Tracked, SameFrame
  <2>5. s.idx >= 3 /\ s.of.size > 0 => s.third = s.of.third
    BY <1>4, <2>1, <2>3 DEF Tracked, SameFrame
  <2>6. Honest(s.of)
    BY <1>4 DEF SameFrame, Honest
  <2>7. QED
    BY <1>4, <2>4, <2>5, <2>6 DEF Tracked
<1>5. QED
  BY <1>2, <1>3, <1>4 DEF OneMore

\* A length that is accepted is the one asked for, and all of it is there.
LEMMA PayloadLenFits ==
  ASSUME NEW cnt \in Nat, NEW size \in Nat, NEW asked \in Nat,
         PayloadLen(cnt, size, asked, asked) > 0
  PROVE  /\ PayloadLen(cnt, size, asked, asked) = cnt
         /\ cnt = asked /\ cnt + 5 <= size
<1>1. CASE \/ cnt = 0 \/ cnt > asked
           \/ asked > 0 /\ cnt # asked
           \/ cnt + 5 > size
  <2>1. PayloadLen(cnt, size, asked, asked) = 0
    BY <1>1 DEF PayloadLen
  <2>2. QED
    BY <2>1
<1>2. CASE ~(\/ cnt = 0 \/ cnt > asked
             \/ asked > 0 /\ cnt # asked
             \/ cnt + 5 > size)
  <2>1. PayloadLen(cnt, size, asked, asked) = cnt
    BY <1>2 DEF PayloadLen
  <2>2. QED
    BY <1>2, <2>1
<1>3. QED
  BY <1>1, <1>2

\* What a success says of the reply it was made of.
Sound(o, r) ==
  o.ok => /\ o.of.good /\ o.of.size > 0 /\ o.of.fc = Fc(r)
          /\ r.op = "read" => /\ o.of.third = 2 * r.size
                              /\ o.len = 2 * r.size /\ o.len <= MaxFrame - 5

LEMMA DecideSound ==
  ASSUME NEW g \in Collected, Tracked(g), NEW r \in Asks
  PROVE  /\ Decide(g, r) \in Outcomes /\ Sound(Decide(g, r), r)
         /\ Decide(g, r).ok => Decide(g, r).of = g.of
<1> DEFINE asked == IF r.op = "read" THEN 2 * r.size ELSE 0
           len   == IF r.op = "read" THEN PayloadLen(g.third, g.idx, asked, asked) ELSE 0
<1>1. CASE ~Acceptable(g, r, len)
  <2>1. Decide(g, r) = Undecided
    BY <1>1 DEF Decide
  <2>2. QED
    BY <2>1, NothingTracked DEF Sound, Undecided
<1>2. CASE Acceptable(g, r, len)
  <2>1. Decide(g, r) = [ok |-> TRUE, len |-> len, of |-> g.of]
    BY <1>2 DEF Decide
  <2>2. g.idx >= 5 /\ g.of.good /\ g.of.size > 0 /\ g.fc = Fc(r)
        /\ (r.op = "read" => len > 0)
    <3>1. g.idx >= 5 /\ g.of.good /\ g.of.size > 0
      BY <1>2 DEF Acceptable, CrcOk
    <3>2. ~(ErrorBit(g.fc) /\ g.third = 0)
      BY <3>1 DEF Tracked, Honest, Collected
    <3>3. QED
      BY <1>2, <3>1, <3>2 DEF Acceptable
  <2>3. g.of.fc = Fc(r) /\ g.of.third = g.third
    BY <2>2 DEF Tracked, Collected
  <2>4. r.op = "read" => len = g.third /\ g.third = 2 * r.size /\ len + 5 <= g.idx
    <3>1. g.third \in Nat /\ g.idx \in Nat /\ 2 * r.size \in Nat
      BY DEF Collected, Asks
    <3>2. ASSUME r.op = "read"
          PROVE  len = g.third /\ g.third = 2 * r.size /\ g.third + 5 <= g.idx
      <4>1. len = PayloadLen(g.third, g.idx, 2 * r.size, 2 * r.size)
        BY <3>2
      <4>2. len > 0
        BY <2>2, <3>2
      <4>3. QED
        BY <3>1, <4>1, <4>2, PayloadLenFits
    <3>3. QED
      BY <3>2
  <2>5. r.op # "read" => len = 0
    OBVIOUS
  <2> HIDE DEF len
  <2>6. len \in 0 .. 255
    BY <2>4, <2>5 DEF Collected
  <2>7. Decide(g, r) \in Outcomes /\ Decide(g, r).of = g.of /\ Decide(g, r).len = len
    BY <2>1, <2>6 DEF Outcomes, Collected
  <2>8. r.op = "read" => len <= MaxFrame - 5
    BY <2>4, SizesTyped DEF Collected
  <2>9. QED
    BY <2>2, <2>3, <2>4, <2>7, <2>8 DEF Sound
<1>3. QED
  BY <1>1, <1>2

-----------------------------------------------------------------------------
(* The inductive invariant.                                                *)

\* A frame that can be relied on: it answers the present request, which has been
\* carried out unless the frame is a refusal.
Its(f) == f.own /\ (executed \/ ErrorBit(f.fc))

\* listen() still has room in its frame buffer.
RoomLeft == phase = "listen" => got.idx < MaxFrame

\* After a flush that left nothing on its way, all that arrives is the reply.
AllItsOwn ==
  phase = "listen" /\ clean => /\ \A i \in DOMAIN air : Its(air[i])
                               /\ got.of.size > 0 => Its(got.of)

ModbusIInv ==
  /\ ModbusTypeOK /\ Airborne(air) /\ RoomLeft /\ Tracked(got) /\ ListenBounded
  /\ Sound(done, req) /\ AllItsOwn /\ PunctualRepliesAreOwn

LEMMA RequestsTyped == Requests \subseteq Asks
<1>1. ReadCounts \subseteq 0 .. 255 /\ WriteBytes \subseteq 0 .. 255
  BY ModbusAssumption
<1>2. ASSUME NEW r \in [op: {"read"}, size: ReadCounts] PROVE r \in Asks
  BY <1>1 DEF Asks
<1>3. ASSUME NEW r \in [op: {"write"}, size: WriteBytes] PROVE r \in Asks
  BY <1>1 DEF Asks
<1>4. QED
  BY <1>2, <1>3 DEF Requests

LEMMA InitModbusIInv == ModbusInit => ModbusIInv
<1> SUFFICES ASSUME ModbusInit PROVE ModbusIInv
  OBVIOUS
<1>1. /\ phase = "idle" /\ req = [op |-> "read", size |-> 1] /\ got = Nothing
      /\ age = 0 /\ air = <<>> /\ done = Undecided /\ clean = TRUE /\ executed = FALSE
  BY DEF ModbusInit
<1>2. done.ok = FALSE
  BY <1>1 DEF Undecided
<1>3. req \in Asks
  BY <1>1 DEF Asks
<1>4. ModbusTypeOK
  <2>1. got \in Collected /\ done \in Outcomes
    BY <1>1, NothingTracked
  <2>2. air \in Seq(Frames) /\ Len(air) <= MaxLate
    BY <1>1, SizesTyped
  <2>3. clean \in BOOLEAN /\ executed \in BOOLEAN
    BY <1>1
  <2>4. QED
    BY <1>1, <1>3, <2>1, <2>2, <2>3 DEF ModbusTypeOK, Asks, Collected, Outcomes
<1>5. Airborne(air) /\ ListenBounded
  BY <1>1, SizesTyped DEF Airborne, ListenBounded
<1>6. QED
  BY <1>1, <1>2, <1>4, <1>5, NothingTracked
  DEF ModbusIInv, RoomLeft, Sound, AllItsOwn, PunctualRepliesAreOwn

\* The parts of the state that go on unchanged while listen() runs.
LEMMA ModbusTyped ==
  ASSUME ModbusTypeOK
  PROVE  /\ req \in Asks /\ got \in Collected /\ done \in Outcomes /\ age \in Nat
         /\ clean \in BOOLEAN /\ executed \in BOOLEAN
  BY DEF ModbusTypeOK, Asks, Collected, Outcomes

\* What listen() returns with: a verdict on the bytes collected.
LEMMA ReturnKeeps ==
  ASSUME NEW g \in Collected, Tracked(g), NEW a \in Nat, a < Budget + Timeout,
         clean /\ g.of.size > 0 => Its(g.of),
         ModbusIInv, Return(g, a), UNCHANGED <<req, clean, executed>>,
         Airborne(air'), Len(air') <= MaxLate
  PROVE  ModbusIInv'
<1>1. /\ phase' = "idle" /\ got' = Nothing /\ age' = a /\ done' = Decide(g, req)
      /\ req' = req /\ clean' = clean /\ executed' = executed
  BY DEF Return
<1>2. /\ req \in Asks /\ clean \in BOOLEAN /\ executed \in BOOLEAN
  BY ModbusTyped DEF ModbusIInv
<1>3. /\ done' \in Outcomes /\ Sound(done', req) /\ (done'.ok => done'.of = g.of)
  BY <1>1, <1>2, DecideSound
<1>4. ModbusTypeOK'
  BY <1>1, <1>2, <1>3, NothingTracked
  DEF ModbusTypeOK, Asks, Collected, Outcomes, Airborne
<1>5. PunctualRepliesAreOwn'
  <2>1. ASSUME done'.ok, clean PROVE done'.of.own /\ executed
    <3>1. g.of.size > 0 /\ g.of.fc = Fc(req) /\ Its(g.of)
      BY <1>3, <2>1 DEF Sound
    <3>2. ~ErrorBit(g.of.fc)
      BY <3>1 DEF Fc, ReadFc, WriteFc, ErrorBit
    <3>3. QED
      BY <1>3, <2>1, <3>1, <3>2 DEF Its
  <2>2. QED
    BY <1>1, <2>1 DEF PunctualRepliesAreOwn
<1>6. Tracked(got') /\ ListenBounded' /\ RoomLeft' /\ AllItsOwn' /\ Sound(done', req')
  BY <1>1, <1>3, NothingTracked DEF ListenBounded, RoomLeft, AllItsOwn
<1>7. QED
  BY <1>4, <1>5, <1>6 DEF ModbusIInv

\* One more byte, and the next turn of the loop or its end.
LEMMA TakeKeeps ==
  ASSUME ModbusIInv, phase = "listen", BeforeDeadline(age),
         NEW f \in Frames, Honest(f),
         NEW v \in 0 .. 255, f.size > 0 => v \in Bytes(f),
         NEW wait \in 0 .. Limit(got), Take(v, f, wait),
         f.size > 0 /\ clean => Its(f),
         UNCHANGED <<req, clean, executed>>,
         Airborne(air'), Len(air') <= MaxLate,
         clean => \A i \in DOMAIN air' : Its(air'[i])
  PROVE  ModbusIInv'
<1> DEFINE g == Store(got, v, f)
<1>1. /\ req \in Asks /\ got \in Collected /\ done \in Outcomes /\ age \in Nat
      /\ clean \in BOOLEAN /\ executed \in BOOLEAN
  BY ModbusTyped DEF ModbusIInv
<1>2. got.idx < MaxFrame /\ Tracked(got)
  BY DEF ModbusIInv, RoomLeft
<1>3. /\ g \in Collected /\ Tracked(g)
      /\ g.of.size = 0 \/ g.of = got.of \/ SameFrame(g.of, f)
  BY <1>1, <1>2, StoreTracked
<1>4. age + wait \in Nat /\ age + wait < Budget + Timeout
  <2>1. Limit(got) \in Nat /\ Limit(got) <= Timeout
    BY SizesTyped DEF Limit
  <2>2. age < Budget
    BY DEF BeforeDeadline
  <2>3. QED
    BY <1>1, <2>1, <2>2, SizesTyped
<1>5. clean /\ g.of.size > 0 => Its(g.of)
  BY <1>3 DEF ModbusIInv, AllItsOwn, SameFrame, Its
<1>6. \/ Return(g, age + wait)
      \/ ~Complete(g) /\ got' = g /\ age' = age + wait /\ UNCHANGED <<phase, done>>
  BY DEF Take
<1> HIDE DEF g
<1>7. CASE Return(g, age + wait)
  BY <1>3, <1>4, <1>5, <1>7, ReturnKeeps
<1>8. CASE ~Complete(g) /\ got' = g /\ age' = age + wait /\ UNCHANGED <<phase, done>>
  <2>1. g.idx < MaxFrame
    BY <1>3, <1>8, SizesTyped DEF Complete, Collected
  <2>2. ModbusTypeOK'
    BY <1>1, <1>3, <1>4, <1>8 DEF ModbusIInv, ModbusTypeOK, Collected, Airborne
  <2>3. RoomLeft' /\ Tracked(got') /\ ListenBounded'
    BY <1>3, <1>4, <1>8, <2>1 DEF RoomLeft, ListenBounded
  <2>4. Sound(done', req') /\ PunctualRepliesAreOwn'
    BY <1>8 DEF ModbusIInv, PunctualRepliesAreOwn
  <2>5. AllItsOwn'
    BY <1>5, <1>8 DEF AllItsOwn, Its
  <2>6. QED
    BY <2>2, <2>3, <2>4, <2>5 DEF ModbusIInv
<1>9. QED
  BY <1>6, <1>7, <1>8

\* A request that is turned down changes nothing that is on its way.
LEMMA RefuseKeeps ==
  ASSUME ModbusIInv, NEW r \in Requests, Refuse(r)
  PROVE  ModbusIInv'
<1>1. /\ phase' = "idle" /\ req' = r /\ done' = Undecided /\ executed' = FALSE
      /\ got' = got /\ age' = age /\ air' = air /\ clean' = clean
  BY DEF Refuse
<1>2. r \in Asks
  BY RequestsTyped
<1>3. ModbusTypeOK'
  <2>1. done' \in Outcomes /\ executed' \in BOOLEAN
    BY <1>1, NothingTracked
  <2>2. QED
    BY <1>1, <1>2, <2>1 DEF ModbusIInv, ModbusTypeOK, Asks, Outcomes
<1>4. done'.ok = FALSE
  BY <1>1 DEF Undecided
<1>5. QED
  BY <1>1, <1>3, <1>4
  DEF ModbusIInv, RoomLeft, ListenBounded, Sound, AllItsOwn, PunctualRepliesAreOwn

\* A request that goes out finds nothing of its own on the way but its reply.
LEMMA SendKeeps ==
  ASSUME ModbusIInv, NEW r \in Requests, Send(r)
  PROVE  ModbusIInv'
<1>1. /\ phase' = "listen" /\ req' = r /\ got' = Nothing /\ age' = 0
      /\ done' = Undecided /\ ~Refused(r)
  BY DEF Send
<1>2. r \in Asks
  BY RequestsTyped
<1>2a. PICK arrived \in 0 .. Len(air) : \E at \in Arriving(air, arrived) :
        LET left == Earlier(Drain(air, arrived, at)) IN
        /\ Len(left) < MaxLate
        /\ clean' = (arrived = Len(air))
        /\ \/ /\ air' \in {left} \cup {Append(left, f) : f \in Exceptions(r)}
              /\ executed' = FALSE
           \/ /\ air' \in {left} \cup {Append(left, f) : f \in Replies(r)}
              /\ executed' = TRUE
  BY DEF Send
<1>3. PICK at \in Arriving(air, arrived) :
        LET left == Earlier(Drain(air, arrived, at)) IN
        /\ Len(left) < MaxLate
        /\ clean' = (arrived = Len(air))
        /\ \/ /\ air' \in {left} \cup {Append(left, f) : f \in Exceptions(r)}
              /\ executed' = FALSE
           \/ /\ air' \in {left} \cup {Append(left, f) : f \in Replies(r)}
              /\ executed' = TRUE
  BY <1>2a
<1> DEFINE left == Earlier(Drain(air, arrived, at))
<1>4. Airborne(left) /\ (arrived = Len(air) => left = <<>>)
  BY DrainAirborne, EarlierAirborne DEF ModbusIInv
<1>5. /\ Len(left) < MaxLate /\ clean' = (arrived = Len(air)) /\ executed' \in BOOLEAN
      /\ \/ air' = left
         \/ \E f : /\ Fresh(f) /\ f.own /\ (executed' \/ ErrorBit(f.fc))
                   /\ air' = Append(left, f)
  <2>1. CASE /\ air' \in {left} \cup {Append(left, f) : f \in Exceptions(r)}
             /\ executed' = FALSE
    BY <1>1, <1>2, <1>3, <2>1, RepliesTyped
  <2>2. CASE /\ air' \in {left} \cup {Append(left, f) : f \in Replies(r)}
             /\ executed' = TRUE
    BY <1>1, <1>2, <1>3, <2>2, RepliesTyped
  <2>3. QED
    BY <1>3, <2>1, <2>2
<1> HIDE DEF left
<1>6. Len(left) \in Nat
  BY <1>4 DEF Airborne
<1>7. /\ Airborne(air') /\ Len(air') <= MaxLate
      /\ clean' => \A i \in DOMAIN air' :
                     air'[i].own /\ (executed' \/ ErrorBit(air'[i].fc))
  <2>1. CASE air' = left
    <3>1. Len(air') <= MaxLate
      BY <1>5, <1>6, <2>1, SizesTyped
    <3>2. clean' => air' = <<>>
      BY <1>4, <1>5, <2>1
    <3>3. air' = <<>> => \A i \in DOMAIN air' : FALSE
      OBVIOUS
    <3>4. QED
      BY <1>4, <2>1, <3>1, <3>2, <3>3
  <2>2. CASE \E f : /\ Fresh(f) /\ f.own /\ (executed' \/ ErrorBit(f.fc))
                    /\ air' = Append(left, f)
    <3>1. PICK f : /\ Fresh(f) /\ f.own /\ (executed' \/ ErrorBit(f.fc))
                   /\ air' = Append(left, f)
      BY <2>2
    <3>2. Airborne(air') /\ Len(air') = Len(left) + 1
      BY <1>4, <3>1, AppendAirborne
    <3>3. left = <<>> => DOMAIN air' = {1} /\ air'[1] = f
      BY <3>1
    <3>4. Len(air') <= MaxLate
      BY <1>5, <1>6, <3>2, SizesTyped
    <3>5. QED
      BY <1>4, <1>5, <3>1, <3>2, <3>3, <3>4
  <2>3. QED
    BY <1>5, <2>1, <2>2
<1>8. ModbusTypeOK'
  <2>1. done' \in Outcomes /\ got' \in Collected /\ clean' \in BOOLEAN
    BY <1>1, <1>5, NothingTracked
  <2>2. QED
    BY <1>1, <1>2, <1>5, <1>7, <2>1
    DEF ModbusTypeOK, Asks, Collected, Outcomes, Airborne
<1>9. /\ Tracked(got') /\ RoomLeft' /\ ListenBounded'
      /\ got'.of.size = 0 /\ done'.ok = FALSE
  BY <1>1, NothingTracked, SizesTyped
  DEF RoomLeft, ListenBounded, Nothing, Undecided
<1>10. AllItsOwn'
  BY <1>7, <1>9 DEF AllItsOwn, Its
<1>11. QED
  BY <1>7, <1>8, <1>9, <1>10 DEF ModbusIInv, Sound, PunctualRepliesAreOwn

\* A reply that is lost leaves the others as they are.
LEMMA LoseReplyKeeps ==
  ASSUME ModbusIInv, LoseReply
  PROVE  ModbusIInv'
<1>1. /\ air # <<>> /\ air' = Tail(air)
      /\ UNCHANGED <<phase, req, got, age, done, clean, executed>>
  BY DEF LoseReply
<1>2. Airborne(air) /\ Len(air) <= MaxLate /\ Len(air) \in Nat
  BY DEF ModbusIInv, ModbusTypeOK, Airborne
<1>3. /\ Airborne(air') /\ Len(air') < Len(air)
      /\ \A i \in DOMAIN air' : i + 1 \in DOMAIN air /\ air'[i] = air[i + 1]
  BY <1>1, <1>2, TailAirborne
<1>4. ModbusTypeOK'
  <2>1. air' \in Seq(Frames) /\ Len(air') <= MaxLate
    BY <1>2, <1>3, SizesTyped DEF Airborne
  <2>2. QED
    BY <1>1, <2>1 DEF ModbusIInv, ModbusTypeOK
<1>5. AllItsOwn'
  BY <1>1, <1>3 DEF ModbusIInv, AllItsOwn, Its
<1>6. QED
  BY <1>1, <1>3, <1>4, <1>5
  DEF ModbusIInv, RoomLeft, ListenBounded, PunctualRepliesAreOwn

\* Every step of the master and of the line keeps the invariant.
LEMMA StepModbusIInv ==
  ASSUME ModbusIInv, [ModbusNext]_mvars
  PROVE  ModbusIInv'
<1>1. /\ req \in Asks /\ got \in Collected /\ done \in Outcomes /\ age \in Nat
      /\ Airborne(air) /\ Len(air) <= MaxLate /\ Len(air) \in Nat /\ Tracked(got)
  BY ModbusTyped DEF ModbusIInv, ModbusTypeOK, Airborne
<1>2. CASE ReadByte
  <2>1. PICK wait \in 0 .. Limit(got), v \in Bytes(Head(air)) : Take(v, Head(air), wait)
    BY <1>2 DEF ReadByte
  <2>2. /\ phase = "listen" /\ BeforeDeadline(age) /\ air # <<>> /\ air' = Advance(air)
        /\ UNCHANGED <<req, clean, executed>>
    BY <1>2 DEF ReadByte
  <2>3. /\ Airborne(air') /\ Len(air') <= Len(air)
        /\ \A i \in DOMAIN air' : Among(air'[i], air)
    BY <1>1, <2>2, AdvanceAirborne
  <2>4. /\ Head(air) \in Frames /\ Head(air) = air[1] /\ 1 \in DOMAIN air
        /\ Honest(Head(air))
    BY <1>1, <2>2 DEF Airborne
  <2>5. clean => Its(Head(air))
    BY <2>2, <2>4 DEF ModbusIInv, AllItsOwn
  <2>6. clean => \A i \in DOMAIN air' : Its(air'[i])
    BY <2>2, <2>3 DEF ModbusIInv, AllItsOwn, Among, Its
  <2>7. Len(air') <= MaxLate
    <3>1. Len(air') \in Nat
      BY <2>3 DEF Airborne
    <3>2. QED
      BY <1>1, <2>3, <3>1, SizesTyped
  <2>8. QED
    BY <2>1, <2>2, <2>3, <2>4, <2>5, <2>6, <2>7, BytesTyped, TakeKeeps
<1>3. CASE ReadForeignByte
  <2>1. PICK wait \in 0 .. Limit(got), v \in ForeignBytes : Take(v, Mixed, wait)
    BY <1>3 DEF ReadForeignByte
  <2>2. /\ phase = "listen" /\ BeforeDeadline(age)
        /\ UNCHANGED <<req, air, clean, executed>>
    BY <1>3 DEF ReadForeignByte
  <2>3. v \in 0 .. 255 /\ Mixed \in Frames /\ Mixed.size = 0 /\ Honest(Mixed)
    BY ModbusAssumption, NothingTracked
  <2>4. Airborne(air') /\ Len(air') <= MaxLate
    BY <1>1, <2>2
  <2>5. clean => \A i \in DOMAIN air' : Its(air'[i])
    BY <2>2 DEF ModbusIInv, AllItsOwn
  <2> DEFINE f == Mixed
  <2>6. /\ f \in Frames /\ f.size = 0 /\ Honest(f) /\ Take(v, f, wait)
    BY <2>1, <2>3
  <2> HIDE DEF f
  <2>7. ~(f.size > 0)
    BY <2>6
  <2>8. QED
    BY <2>1, <2>2, <2>3, <2>4, <2>5, <2>6, <2>7, TakeKeeps
<1>4. CASE StopListening
  <2>1. /\ phase = "listen" /\ UNCHANGED <<req, air, clean, executed>>
    BY <1>4 DEF StopListening
  <2>2. clean /\ got.of.size > 0 => Its(got.of)
    BY <2>1 DEF ModbusIInv, AllItsOwn
  <2>3. Limit(got) \in Nat /\ Limit(got) <= Timeout
    BY SizesTyped DEF Limit
  <2>4. CASE BeforeDeadline(age)
    <3>1. Return(got, age + Limit(got))
      BY <1>4, <2>4 DEF StopListening
    <3>2. age + Limit(got) \in Nat /\ age + Limit(got) < Budget + Timeout
      BY <1>1, <2>3, <2>4, SizesTyped DEF BeforeDeadline
    <3>3. QED
      BY <1>1, <2>1, <2>2, <3>1, <3>2, ReturnKeeps
  <2>5. CASE ~BeforeDeadline(age)
    <3>1. Return(got, age)
      BY <1>4, <2>5 DEF StopListening
    <3>2. age < Budget + Timeout
      BY DEF ModbusIInv, ListenBounded
    <3>3. QED
      BY <1>1, <2>1, <2>2, <3>1, <3>2, ReturnKeeps
  <2>6. QED
    BY <2>4, <2>5
<1>5. CASE UNCHANGED mvars
  BY <1>5 DEF mvars, ModbusIInv, ModbusTypeOK, RoomLeft, ListenBounded, AllItsOwn,
              Its, PunctualRepliesAreOwn
<1>6. QED
  BY <1>2, <1>3, <1>4, <1>5, RefuseKeeps, SendKeeps, LoseReplyKeeps DEF ModbusNext

-----------------------------------------------------------------------------
(* The theorems.                                                           *)

\* The strengthened invariant: types, the bytes collected are those of the frame
\* they are counted to, and after a clean flush all that arrives is the reply.
THEOREM ModbusInvariant == ModbusSpec => []ModbusIInv
<1>1. ModbusInit => ModbusIInv
  BY InitModbusIInv
<1>2. ModbusIInv /\ [ModbusNext]_mvars => ModbusIInv'
  BY StepModbusIInv
<1>3. QED
  BY <1>1, <1>2, PTL DEF ModbusSpec

\* Type correctness of the master for every frame size, payload and time limit:
\* in particular the frame buffer of listen() is never overrun.
THEOREM ModbusTypeCorrect == ModbusSpec => []ModbusTypeOK
<1>1. ModbusIInv => ModbusTypeOK
  BY DEF ModbusIInv
<1>2. QED
  BY <1>1, ModbusInvariant, PTL

\* A read that succeeds delivers exactly the bytes asked for, whatever frames,
\* late, damaged or foreign, listen() was fed.
THEOREM PayloadAlwaysFits == ModbusSpec => []PayloadFits
<1>1. ModbusIInv => PayloadFits
  BY DEF ModbusIInv, Sound, PayloadFits
<1>2. QED
  BY <1>1, ModbusInvariant, PTL

\* listen() returns within its budget and one more wait, for all time limits
\* and however foreign bytes keep coming.
THEOREM ListenAlwaysBounded == ModbusSpec => []ListenBounded
<1>1. ModbusIInv => ListenBounded
  BY DEF ModbusIInv
<1>2. QED
  BY <1>1, ModbusInvariant, PTL

\* A request succeeds only on one whole undamaged reply of its kind and size.
THEOREM AcceptedAlwaysGenuine == ModbusSpec => []AcceptedIsGenuine
<1>1. ModbusIInv => AcceptedIsGenuine
  BY DEF ModbusIInv, Sound, AcceptedIsGenuine
<1>2. QED
  BY <1>1, ModbusInvariant, PTL

\* After a flush that found nothing still on its way, a success is the present
\* request's own and the inverter has carried it out.
THEOREM PunctualIsOwn == ModbusSpec => []PunctualRepliesAreOwn
<1>1. ModbusIInv => PunctualRepliesAreOwn
  BY DEF ModbusIInv
<1>2. QED
  BY <1>1, ModbusInvariant, PTL
=============================================================================
