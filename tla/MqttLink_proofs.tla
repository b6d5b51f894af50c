--------------------------- MODULE MqttLink_proofs ---------------------------
(***************************************************************************)
(* Proofs about MqttLink, for every tolerance, chunk size, document length *)
(* and number of pings.  The argument has three independent parts: the     *)
(* chunked writer, the packet a publish may leave cut short, and the echo  *)
(* counters of the session.                                                *)
(***************************************************************************)
EXTENDS MqttLink, SequenceTheorems, TLAPS

\* The chunked writer between two turns: the sink holds the first bytes of the
\* document and, until the first short write, the buffer holds the next ones.
Fields == {"buf", "failed", "given", "sink", "stalls"}
Typed(w) == /\ DOMAIN w = Fields /\ w.failed \in BOOLEAN
            /\ w.buf \in Seq(1 .. DocLen) /\ w.given \in 0 .. DocLen
            /\ w.sink \in Seq(Nat) /\ w.stalls \in {0, 1}
Prefix(w) == \A i \in 1 .. Len(w.sink) : w.sink[i] = i
Queued(w) == /\ w.stalls = 0 /\ Len(w.sink) + Len(w.buf) = w.given
             /\ \A j \in 1 .. Len(w.buf) : w.buf[j] = Len(w.sink) + j
Sound(w) ==
  /\ Typed(w) /\ Prefix(w)
  /\ w.failed => w.buf = <<>>
  /\ ~w.failed => Queued(w)

-----------------------------------------------------------------------------
\* A new writer is sound.
LEMMA FreshSound == Sound(FreshWriter) /\ FreshWriter.buf = <<>>
<1> USE WriterAssumption
<1>1. Typed(FreshWriter)
  BY DEF FreshWriter, Typed, Fields
<1>2. Prefix(FreshWriter) /\ Queued(FreshWriter) /\ FreshWriter.buf = <<>>
  BY DEF FreshWriter, Prefix, Queued
<1> QED BY <1>1, <1>2 DEF Sound

\* A sound writer is faithful.
LEMMA SoundIsFaithful == ASSUME NEW w, Sound(w) PROVE Faithful(w)
<1>1. w.sink \in Seq(Nat) /\ w.stalls \in {0, 1} /\ w.given \in Nat
  BY WriterAssumption DEF Sound, Typed
<1>2. \A i \in DOMAIN w.sink : w.sink[i] = i
  BY <1>1 DEF Sound, Prefix
<1>3. ~w.failed /\ w.buf = <<>> => Len(w.sink) = w.given
  BY <1>1 DEF Sound, Queued
<1> QED BY <1>1, <1>2, <1>3 DEF Faithful

\* Whatever part of a full buffer the sink takes, the writer stays sound.
LEMMA TakenSound ==
  ASSUME NEW w, Sound(w), ~w.failed, NEW n \in 0 .. Len(w.buf)
  PROVE  Sound(Taken(w, n)) /\ Taken(w, n).buf = <<>> /\ Taken(w, n).given = w.given
<1> DEFINE v == Taken(w, n)
           head == SubSeq(w.buf, 1, n)
<1>1. /\ DOMAIN w = Fields /\ w.buf \in Seq(1 .. DocLen) /\ w.sink \in Seq(Nat)
      /\ w.given \in 0 .. DocLen /\ w.stalls = 0 /\ w.failed = FALSE
  BY DEF Sound, Typed, Queued
<1>2. Queued(w) /\ Prefix(w)
  BY DEF Sound
<1>3. Len(w.buf) \in Nat /\ n \in Nat /\ n <= Len(w.buf)
  BY <1>1
<1>4. /\ head \in Seq(Nat) /\ Len(head) = n
      /\ \A i \in 1 .. n : head[i] = w.buf[i]
  BY <1>1, <1>3, WriterAssumption
<1>5. /\ DOMAIN v = Fields /\ v.buf = <<>> /\ v.given = w.given /\ v.sink = w.sink \o head
      /\ v.failed = (w.failed \/ n < Len(w.buf))
      /\ v.stalls = IF n < Len(w.buf) THEN w.stalls + 1 ELSE w.stalls
  BY <1>1 DEF Taken, Fields
<1> HIDE DEF v, head
<1>6. v.failed \in BOOLEAN /\ v.stalls \in {0, 1} /\ (~v.failed => n = Len(w.buf) /\ v.stalls = 0)
  <2>1. CASE n < Len(w.buf)
    <3>1. v.failed = TRUE
      BY <1>5, <2>1, Zenon
    <3>2. v.stalls = 1
      BY <1>1, <1>5, <2>1
    <3> QED BY <3>1, <3>2
  <2>2. CASE ~(n < Len(w.buf))
    <3>1. v.failed = FALSE
      BY <1>1, <1>5, <2>2, Zenon
    <3>2. v.stalls = 0 /\ n = Len(w.buf)
      BY <1>1, <1>3, <1>5, <2>2
    <3> QED BY <3>1, <3>2, Zenon
  <2> QED BY <2>1, <2>2
<1>7. v.sink \in Seq(Nat) /\ Len(v.sink) = Len(w.sink) + n
  <2>1. w.sink \o head \in Seq(Nat) /\ Len(w.sink \o head) = Len(w.sink) + Len(head)
    BY <1>1, <1>4, ConcatProperties, ZenonT(40)
  <2> QED BY <2>1, <1>4, <1>5, Zenon
<1>8. Typed(v)
  <2>1. <<>> \in Seq(1 .. DocLen)
    OBVIOUS
  <2> QED BY <2>1, <1>1, <1>5, <1>6, <1>7 DEF Typed
<1>9. Prefix(v)
  <2> SUFFICES ASSUME NEW i \in 1 .. Len(v.sink) PROVE v.sink[i] = i
    BY DEF Prefix
  <2>1. v.sink = w.sink \o head /\ Len(w.sink) \in Nat
    BY <1>1, <1>5
  <2>2. CASE i <= Len(w.sink)
    <3>1. v.sink[i] = w.sink[i]
      BY <2>1, <2>2, <1>1, <1>4
    <3> QED BY <3>1, <2>1, <2>2, <1>2, <1>7 DEF Prefix
  <2>3. CASE i > Len(w.sink)
    <3>1. i - Len(w.sink) \in 1 .. n
      BY <2>1, <2>3, <1>3, <1>7
    <3>2. v.sink[i] = head[i - Len(w.sink)]
      BY <2>1, <2>3, <3>1, <1>1, <1>4
    <3>3. w.buf[i - Len(w.sink)] = Len(w.sink) + (i - Len(w.sink))
      BY <3>1, <1>2, <1>3, SMTT(30) DEF Queued
    <3>4. head[i - Len(w.sink)] = w.buf[i - Len(w.sink)]
      BY <3>1, <1>4
    <3> QED BY <3>2, <3>3, <3>4, <2>1
  <2> QED BY <2>1, <2>2, <2>3
<1>10. ~v.failed => Queued(v)
  <2> SUFFICES ASSUME ~v.failed PROVE Queued(v)
    OBVIOUS
  <2>1. n = Len(w.buf) /\ v.stalls = 0
    BY <1>6
  <2>2. Len(w.sink) + Len(w.buf) = w.given
    BY <1>2 DEF Queued
  <2>3. v.buf = <<>> /\ Len(v.buf) = 0
    BY <1>5
  <2>4. Len(v.sink) + Len(v.buf) = v.given
    <3>1. v.given = w.given /\ Len(w.sink) \in Nat
      BY <1>1, <1>5
    <3>2. Len(v.sink) = w.given /\ w.given \in Nat
      <4>1. Len(v.sink) = Len(w.sink) + Len(w.buf)
        BY <2>1, <1>7, Zenon
      <4>2. w.given \in Nat
        BY <1>1
      <4> QED BY <4>1, <4>2, <2>2, Zenon
    <3>3. w.given + 0 = w.given
      BY <3>2
    <3> QED BY <2>3, <3>1, <3>2, <3>3, Zenon
  <2> QED BY <2>1, <2>3, <2>4 DEF Queued
<1>11. Sound(v)
  BY <1>5, <1>8, <1>9, <1>10 DEF Sound
<1> QED BY <1>5, <1>11 DEF v

\* Draining keeps the writer sound, empties it, and forgets no failure.
LEMMA DrainsSound ==
  ASSUME NEW w, Sound(w), NEW most \in 0 .. Len(w.buf), NEW v \in Drains(w, most)
  PROVE  /\ Sound(v) /\ v.buf = <<>> /\ v.given = w.given
         /\ w.failed => v.failed
<1>1. CASE w.buf = <<>> \/ w.failed
  BY <1>1 DEF Drains, Sound
<1>2. CASE ~(w.buf = <<>> \/ w.failed)
  <2>1. PICK n \in 0 .. most : v = Taken(w, n)
    BY <1>2 DEF Drains
  <2>2. n \in 0 .. Len(w.buf)
    <3>1. w.buf \in Seq(1 .. DocLen)
      BY DEF Sound, Typed
    <3> QED BY <3>1
  <2> QED BY <1>2, <2>1, <2>2, TakenSound
<1> QED BY <1>1, <1>2

\* What one turn of write() puts into the buffer, before it may be drained.
More(w, k) == [i \in 1 .. k |-> w.given + i]
Filled(w, k) == [w EXCEPT !.given = @ + k, !.buf = IF w.failed THEN @ ELSE @ \o More(w, k)]

\* Where the next bytes of the document come to lie.
LEMMA Shifted ==
  ASSUME NEW w, NEW k \in Nat, Len(w.sink) + Len(w.buf) = w.given, w.given \in Nat,
         Len(w.sink) \in Nat, Len(w.buf) \in Nat
  PROVE  /\ Len(w.sink) + (Len(w.buf) + k) = w.given + k
         /\ w.given + (k - Len(w.buf)) = Len(w.sink) + k
<1> DEFINE s == Len(w.sink)
           b == Len(w.buf)
           g == w.given
<1>1. s \in Nat /\ b \in Nat /\ g \in Nat /\ s + b = g
  OBVIOUS
<1> HIDE DEF s, b, g
<1>2. s + (b + k) = g + k /\ g + (k - b) = s + k
  BY <1>1
<1> QED BY <1>2 DEF s, b, g

\* The bytes that join the buffer are the next ones of the document.
LEMMA FilledSound ==
  ASSUME NEW w, Sound(w), NEW k \in Nat, w.given + k <= DocLen
  PROVE  /\ Sound(Filled(w, k)) /\ Filled(w, k).failed = w.failed
         /\ Filled(w, k).given = w.given + k
         /\ w.failed => Filled(w, k).buf = <<>>
         /\ ~w.failed => Len(Filled(w, k).buf) = Len(w.buf) + k
<1> DEFINE f == Filled(w, k)
           more == More(w, k)
<1>1. /\ DOMAIN w = Fields /\ w.buf \in Seq(1 .. DocLen) /\ w.sink \in Seq(Nat)
      /\ w.given \in 0 .. DocLen /\ w.stalls \in {0, 1} /\ w.failed \in BOOLEAN
  BY DEF Sound, Typed
<1>2. Prefix(w) /\ (w.failed => w.buf = <<>>) /\ (~w.failed => Queued(w))
  BY DEF Sound
<1>3. DocLen \in Nat
  BY WriterAssumption
<1>4. /\ more \in Seq(1 .. DocLen) /\ Len(more) = k
      /\ \A i \in 1 .. k : more[i] = w.given + i
  <2>1. \A i \in 1 .. k : w.given + i \in 1 .. DocLen
    BY <1>1, <1>3
  <2> QED BY <2>1 DEF More
<1>5. /\ DOMAIN f = Fields /\ f.failed = w.failed /\ f.given = w.given + k
      /\ f.sink = w.sink /\ f.stalls = w.stalls
      /\ f.buf = IF w.failed THEN w.buf ELSE w.buf \o more
  BY <1>1 DEF Filled, Fields
<1> HIDE DEF f, more
<1>6. f.given \in 0 .. DocLen
  BY <1>1, <1>3, <1>5
<1>7. CASE w.failed
  <2>1. f.buf = <<>> /\ f.failed
    BY <1>2, <1>5, <1>7, Zenon
  <2>2. Prefix(f)
    BY <1>2, <1>5 DEF Prefix
  <2>3. Typed(f)
    BY <1>1, <1>5, <1>6, <2>1 DEF Typed
  <2> QED BY <1>5, <1>7, <2>1, <2>2, <2>3 DEF Sound, f
<1>8. CASE ~w.failed
  <2>1. f.buf = w.buf \o more /\ ~f.failed
    BY <1>5, <1>8, Zenon
  <2>2. f.buf \in Seq(1 .. DocLen) /\ Len(f.buf) = Len(w.buf) + Len(more)
    BY <1>1, <1>4, <2>1, ConcatProperties, ZenonT(40)
  <2>3. Typed(f)
    BY <1>1, <1>5, <1>6, <2>2 DEF Typed
  <2>4. Prefix(f)
    BY <1>2, <1>5 DEF Prefix
  <2>5. /\ Len(w.sink) + Len(w.buf) = w.given /\ w.given \in Nat
        /\ Len(w.buf) \in Nat /\ Len(w.sink) \in Nat
    <3>1. Queued(w)
      BY <1>2, <1>8
    <3>2. w.buf \in Seq(1 .. DocLen) /\ w.sink \in Seq(Nat)
      BY <1>1
    <3>3. Len(w.buf) \in Nat /\ Len(w.sink) \in Nat
      BY <3>2
    <3>4. w.given \in Nat
      BY <1>1
    <3> QED BY <3>1, <3>3, <3>4 DEF Queued
  <2>6. Queued(f)
    <3>1. f.stalls = 0
      BY <1>2, <1>5, <1>8 DEF Queued
    <3>2. Len(f.buf) = Len(w.buf) + k /\ Len(f.sink) = Len(w.sink)
      BY <2>2, <1>4, <1>5, Zenon
    <3>3. Len(f.sink) + Len(f.buf) = f.given
      <4>1. f.given = w.given + k
        BY <1>5
      <4>2. Len(w.sink) + (Len(w.buf) + k) = w.given + k
        BY <2>5, Shifted, Zenon
      <4> QED BY <4>1, <4>2, <3>2, Zenon
    <3>4. ASSUME NEW j \in 1 .. Len(f.buf) PROVE f.buf[j] = Len(f.sink) + j
      <4>1. CASE j <= Len(w.buf)
        <5>1. f.buf[j] = w.buf[j]
          <6>1. w.buf \in Seq(1 .. DocLen) /\ more \in Seq(1 .. DocLen)
            BY <1>1, <1>4
          <6>2. (w.buf \o more)[j] = w.buf[j]
            BY <6>1, <4>1, <2>5
          <6> QED BY <6>2, <2>1, Zenon
        <5>2. j \in 1 .. Len(w.buf)
          BY <4>1, <2>5, <3>2
        <5>3. w.buf[j] = Len(w.sink) + j
          BY <5>2, <1>2, <1>8 DEF Queued
        <5> QED BY <5>1, <5>3, <3>2, Zenon
      <4>2. CASE j > Len(w.buf)
        <5>1. j - Len(w.buf) \in 1 .. k
          BY <4>2, <3>2, <2>5
        <5>2. f.buf[j] = more[j - Len(w.buf)]
          <6>1. w.buf \in Seq(1 .. DocLen) /\ more \in Seq(1 .. DocLen) /\ Len(more) = k
            BY <1>1, <1>4
          <6>2. (w.buf \o more)[j] = more[j - Len(w.buf)]
            BY <6>1, <4>2, <5>1, <2>5
          <6> QED BY <6>2, <2>1, Zenon
        <5>3. more[j - Len(w.buf)] = w.given + (j - Len(w.buf))
          BY <5>1, <1>4
        <5>4. w.given + (j - Len(w.buf)) = Len(w.sink) + j
          <6>1. j \in Nat
            BY <3>2, <2>5
          <6> QED BY <2>5, <6>1, Shifted, Zenon
        <5> QED BY <5>2, <5>3, <5>4, <3>2, Zenon
      <4> QED BY <4>1, <4>2, <2>5
    <3> QED BY <3>1, <3>3, <3>4 DEF Queued
  <2> QED BY <1>4, <1>5, <1>8, <2>1, <2>2, <2>3, <2>4, <2>6 DEF Sound, f
<1> QED BY <1>7, <1>8

\* One turn of write(): the buffer is drained as soon as it is full.
LEMMA WriteSound ==
  ASSUME NEW w, Sound(w), Len(w.buf) < ChunkSize, w.given < DocLen,
         NEW most \in {0, ChunkSize}, NEW k \in Turns(w), NEW v \in Write(w, k, most)
  PROVE  /\ Sound(v) /\ Len(v.buf) < ChunkSize
         /\ w.failed => v.failed
<1> DEFINE f == Filled(w, k)
<1>1. /\ w.given \in 0 .. DocLen /\ Len(w.buf) \in Nat
      /\ ChunkSize \in Nat /\ ChunkSize > 0 /\ DocLen \in Nat
  BY WriterAssumption DEF Sound, Typed
<1>2. k \in Nat /\ w.given + k <= DocLen /\ Len(w.buf) + k <= ChunkSize
  BY <1>1 DEF Turns
<1>3. /\ Sound(f) /\ f.failed = w.failed /\ (w.failed => f.buf = <<>>)
      /\ ~w.failed => Len(f.buf) = Len(w.buf) + k
  BY <1>2, FilledSound
<1>4. Len(f.buf) <= ChunkSize /\ Len(f.buf) \in Nat
  <2>1. CASE w.failed
    BY <2>1, <1>1, <1>3
  <2>2. CASE ~w.failed
    BY <2>2, <1>1, <1>2, <1>3
  <2> QED BY <2>1, <2>2
<1>5. v \in IF Len(f.buf) = ChunkSize THEN Drains(f, most) ELSE {f}
  BY DEF Write, Filled, More
<1> HIDE DEF f
<1>6. CASE Len(f.buf) = ChunkSize
  <2>1. most \in 0 .. Len(f.buf) /\ v \in Drains(f, most)
    BY <1>1, <1>5, <1>6
  <2>2. Sound(v) /\ v.buf = <<>> /\ (f.failed => v.failed)
    BY <2>1, <1>3, DrainsSound
  <2> QED BY <2>2, <1>1, <1>3
<1>7. CASE Len(f.buf) # ChunkSize
  BY <1>1, <1>3, <1>4, <1>5, <1>7
<1> QED BY <1>6, <1>7

-----------------------------------------------------------------------------
\* The packets of a publish: the writer is sound, and a packet cut short is
\* remembered by the writer while publish() runs, and by nothing afterwards.
StreamOK ==
  /\ wifi \in BOOLEAN /\ err \in BOOLEAN /\ ready \in BOOLEAN
  /\ link \in {"closed", "open", "dead"} /\ (Connected => ready)
  /\ publishing \in BOOLEAN /\ torn \in BOOLEAN
  /\ Sound(writer) /\ Len(writer.buf) < ChunkSize
  /\ torn => IF publishing THEN writer.failed ELSE link = "closed"

\* The counters of the session, none of which comes near the modulus.
CountersOK ==
  /\ ping \in 0 .. MaxPings + Tolerance /\ echo \in 0 .. MaxPings
  /\ unanswered \in 0 .. ping /\ strayed \in BOOLEAN /\ strays \subseteq 1 .. MaxPings
  /\ wire \in Seq(1 .. MaxPings) /\ Len(wire) <= ping /\ Len(wire) <= MaxPings
  /\ \A i \in 1 .. Len(wire) : wire[i] <= ping

\* As long as no old echo has run ahead, the echoes still to come are newer than
\* the last one, in order, and the difference of the counters is the silence.
InOrder ==
  /\ echo <= ping /\ unanswered = ping - echo /\ unanswered <= Tolerance
  /\ \A i \in 1 .. Len(wire) : echo < wire[i]
  /\ \A i, j \in 1 .. Len(wire) : i < j => wire[i] < wire[j]

SessionOK == CountersOK /\ (~strayed => InOrder)

MqttIInv == StreamOK /\ SessionOK

-----------------------------------------------------------------------------
(* The modulus never shows: the numbers of a session stay far below it.    *)

LEMMA Sizes ==
  /\ Tolerance \in Nat /\ Tolerance > 0 /\ MaxPings \in Nat
  /\ SeqMod \in Nat /\ SeqMod > 2 * (MaxPings + Tolerance)
  /\ ChunkSize \in Nat /\ ChunkSize > 0 /\ DocLen \in Nat
  BY MqttAssumption, WriterAssumption

LEMMA ModBelow ==
  ASSUME NEW m \in Nat, m > 0, NEW a \in Int, 0 <= a, a < m
  PROVE  a % m = a
  OBVIOUS

LEMMA ModBorrows ==
  ASSUME NEW m \in Nat, m > 0, NEW a \in Int, -m <= a, a < 0
  PROVE  a % m = a + m
  OBVIOUS

\* The unsigned difference is the difference, or so large that it counts as stale.
LEMMA MinusIs ==
  ASSUME NEW a \in 0 .. MaxPings + Tolerance, NEW b \in 0 .. MaxPings + Tolerance
  PROVE  /\ b <= a => Minus(a, b) = a - b
         /\ a < b => Minus(a, b) = a - b + SeqMod
<1>1. SeqMod \in Nat /\ SeqMod > 0 /\ a - b \in Int /\ -SeqMod <= a - b /\ a - b < SeqMod
  BY Sizes
<1>2. CASE b <= a
  <2>1. 0 <= a - b
    BY <1>2, Sizes
  <2> QED BY <1>1, <1>2, <2>1, ModBelow DEF Minus
<1>3. CASE a < b
  <2>1. a - b < 0
    BY <1>3, Sizes
  <2> QED BY <1>1, <1>3, <2>1, ModBorrows DEF Minus
<1> QED BY <1>2, <1>3, Sizes

\* The echo counter only goes forward.
LEMMA EchoForward ==
  ASSUME echo \in 0 .. MaxPings, NEW seq \in 1 .. MaxPings
  PROVE  EchoAfter(seq) = IF seq >= echo THEN seq ELSE echo
<1>1. /\ seq \in 0 .. MaxPings + Tolerance /\ echo \in 0 .. MaxPings + Tolerance
      /\ SeqMod \div 2 \in Nat /\ 2 * (SeqMod \div 2) <= SeqMod
      /\ SeqMod \div 2 >= MaxPings + Tolerance
  BY Sizes
<1>2. /\ echo <= seq => Minus(seq, echo) = seq - echo
      /\ seq < echo => Minus(seq, echo) = seq - echo + SeqMod
  BY <1>1, MinusIs
<1>3. CASE echo <= seq
  <2>1. Minus(seq, echo) < SeqMod \div 2
    BY <1>1, <1>2, <1>3, Sizes
  <2> QED BY <1>3, <2>1 DEF EchoAfter
<1>4. CASE seq < echo
  <2>1. ~(Minus(seq, echo) < SeqMod \div 2)
    BY <1>1, <1>2, <1>4, Sizes
  <2> QED BY <1>4, <2>1 DEF EchoAfter
<1> QED BY <1>3, <1>4

\* A session that is not suspected has room for one more ping.
LEMMA RoomForPing ==
  ASSUME CountersOK, ping < MaxPings \/ ~Stale
  PROVE  /\ ping + 1 \in 0 .. MaxPings + Tolerance
         /\ (ping + 1) % SeqMod = ping + 1
<1>1. ping \in Nat /\ echo \in 0 .. MaxPings
  BY Sizes DEF CountersOK
<1>2. CASE ping < MaxPings
  <2>1. ping + 1 \in 0 .. MaxPings + Tolerance /\ ping + 1 < SeqMod
    BY <1>1, <1>2, Sizes
  <2> QED BY <1>1, <2>1, Sizes, ModBelow
<1>3. CASE ~Stale
  <2>1. ping = 0 \/ Minus(ping, echo) < Tolerance
    <3>1. ping \in 0 .. MaxPings + Tolerance /\ echo \in 0 .. MaxPings + Tolerance
      BY <1>1, Sizes DEF CountersOK
    <3>2. Minus(ping, echo) \in Int
      BY <3>1, MinusIs, Sizes
    <3> QED BY <1>1, <1>3, <3>2, Sizes DEF Stale
  <2>2. ping < echo + Tolerance
    <3>1. ping \in 0 .. MaxPings + Tolerance /\ echo \in 0 .. MaxPings + Tolerance
      BY <1>1, Sizes DEF CountersOK
    <3>2. /\ echo <= ping => Minus(ping, echo) = ping - echo
          /\ ping < echo => Minus(ping, echo) = ping - echo + SeqMod
      BY <3>1, MinusIs
    <3> QED BY <2>1, <3>2, <1>1, Sizes
  <2>3. ping + 1 \in 0 .. MaxPings + Tolerance /\ ping + 1 < SeqMod
    BY <1>1, <2>2, Sizes
  <2> QED BY <1>1, <2>3, Sizes, ModBelow
<1> QED BY <1>2, <1>3

-----------------------------------------------------------------------------
(* The steps of the session.                                               *)

\* A step that leaves the counters alone.
LEMMA SessionIdles == ASSUME SessionOK, UNCHANGED session PROVE SessionOK'
<1>1. CountersOK'
  BY DEF SessionOK, CountersOK, session
<1>2. ~strayed' => InOrder'
  BY DEF SessionOK, InOrder, session
<1> QED BY <1>1, <1>2 DEF SessionOK

\* What is on its way when a session ends may stray into a later one.
Dropped ==
  /\ ping' = 0 /\ echo' = 0 /\ wire' = <<>> /\ unanswered' = 0 /\ strayed' = FALSE
  /\ strays' \subseteq strays \cup {wire[i] : i \in DOMAIN wire}

LEMMA SessionDrops == ASSUME SessionOK, Dropped PROVE SessionOK'
<1>1. strays' \subseteq 1 .. MaxPings
  <2>1. \A i \in DOMAIN wire : wire[i] \in 1 .. MaxPings
    <3>1. wire \in Seq(1 .. MaxPings)
      BY DEF SessionOK, CountersOK
    <3>2. DOMAIN wire = 1 .. Len(wire)
      BY <3>1
    <3> QED BY <3>1, <3>2, ElementOfSeq, Zenon
  <2> QED BY <2>1 DEF SessionOK, CountersOK, Dropped
<1>2. wire' \in Seq(1 .. MaxPings) /\ Len(wire') = 0
  BY DEF Dropped
<1>3. CountersOK'
  <2>1. ping' \in 0 .. MaxPings + Tolerance /\ echo' \in 0 .. MaxPings
    BY Sizes DEF Dropped
  <2>2. ping' = 0 /\ unanswered' \in 0 .. ping'
    BY DEF Dropped
  <2>3. strayed' \in BOOLEAN
    BY Zenon DEF Dropped
  <2>4. \A i \in 1 .. Len(wire') : wire'[i] <= ping'
    BY DEF Dropped
  <2> QED BY <1>1, <1>2, <2>1, <2>2, <2>3, <2>4, Sizes DEF CountersOK
<1>4. InOrder'
  BY <1>2, Sizes DEF Dropped, InOrder
<1> QED BY <1>3, <1>4 DEF SessionOK

LEMMA DropsAreDrops == (NewSession \/ ForceReconnect) => Dropped
<1>1. NewSession => Dropped
  BY DEF NewSession, Dropped
<1>2. ForceReconnect => Dropped
  BY DEF ForceReconnect, Dropped
<1> QED BY <1>1, <1>2

\* A ping, sent or not, of a session that is not suspected.
LEMMA SessionPings ==
  ASSUME SessionOK, SendEchoPing, ~Stale, link = "open" => ping < MaxPings,
         link \in {"open", "dead"}
  PROVE  SessionOK'
<1>1. /\ ping \in Nat /\ echo \in Nat /\ unanswered \in Nat /\ unanswered <= ping
      /\ wire \in Seq(1 .. MaxPings) /\ Len(wire) \in Nat
      /\ Len(wire) <= ping /\ Len(wire) <= MaxPings
  <2>1. wire \in Seq(1 .. MaxPings) /\ Len(wire) <= ping /\ Len(wire) <= MaxPings
    BY DEF SessionOK, CountersOK
  <2>2. /\ ping \in 0 .. MaxPings + Tolerance /\ echo \in 0 .. MaxPings
        /\ unanswered \in 0 .. ping
    BY DEF SessionOK, CountersOK
  <2>3. ping \in Nat /\ echo \in Nat /\ unanswered \in Nat /\ unanswered <= ping
    BY <2>2, Sizes
  <2>4. Len(wire) \in Nat
    BY <2>1
  <2> QED BY <2>1, <2>3, <2>4
<1>2. ping' = ping + 1 /\ ping + 1 \in 0 .. MaxPings + Tolerance
  <2>1. CountersOK
    BY DEF SessionOK
  <2>2. ping + 1 \in 0 .. MaxPings + Tolerance /\ (ping + 1) % SeqMod = ping + 1
    BY <2>1, RoomForPing
  <2> QED BY <2>2 DEF SendEchoPing
<1>3. /\ echo' = echo /\ strays' = strays /\ strayed' = strayed
      /\ unanswered' = IF unanswered > Tolerance THEN unanswered ELSE unanswered + 1
  BY DEF SendEchoPing
<1>4. \/ wire' = wire
      \/ ping < MaxPings /\ wire' = Append(wire, ping + 1)
  BY <1>2 DEF SendEchoPing
<1>5. unanswered' \in 0 .. ping'
  BY <1>1, <1>2, <1>3, Sizes
<1>6. /\ wire' \in Seq(1 .. MaxPings) /\ Len(wire') <= ping' /\ Len(wire') <= MaxPings
      /\ \A i \in 1 .. Len(wire') : wire'[i] <= ping'
  <2>1. \A i \in 1 .. Len(wire) : wire[i] \in Nat /\ wire[i] <= ping
    BY <1>1, Sizes DEF SessionOK, CountersOK
  <2>2. CASE wire' = wire
    BY <2>1, <2>2, <1>1, <1>2
  <2>3. CASE ping < MaxPings /\ wire' = Append(wire, ping + 1)
    <3>1. ping + 1 \in 1 .. MaxPings
      BY <2>3, <1>1, Sizes
    <3>2. wire' \in Seq(1 .. MaxPings) /\ Len(wire') = Len(wire) + 1
      BY <2>3, <3>1, <1>1
    <3>3. \A i \in 1 .. Len(wire) : wire'[i] = wire[i]
      BY <2>3, <1>1
    <3>4. wire'[Len(wire) + 1] = ping + 1
      BY <2>3, <1>1
    <3>5. \A i \in 1 .. Len(wire') : i \in 1 .. Len(wire) \/ i = Len(wire) + 1
      BY <3>2, <1>1
    <3> QED BY <2>1, <2>3, <3>2, <3>3, <3>4, <3>5, <1>1, <1>2, Sizes
  <2> QED BY <2>2, <2>3, <1>4
<1>7. CountersOK'
  <2>1. ping' \in 0 .. MaxPings + Tolerance /\ echo' \in 0 .. MaxPings
    BY <1>2, <1>3 DEF SessionOK, CountersOK
  <2>2. strayed' \in BOOLEAN /\ strays' \subseteq 1 .. MaxPings
    BY <1>3 DEF SessionOK, CountersOK
  <2> QED BY <2>1, <2>2, <1>5, <1>6 DEF CountersOK
<1>8. ASSUME ~strayed' PROVE InOrder'
  <2>1. InOrder
    BY <1>3, <1>8 DEF SessionOK
  <2>2. ping - echo < Tolerance /\ echo <= ping
    <3>1. ping \in 0 .. MaxPings + Tolerance /\ echo \in 0 .. MaxPings + Tolerance
      BY Sizes DEF SessionOK, CountersOK
    <3>2. Minus(ping, echo) = ping - echo /\ echo <= ping
      BY <2>1, <3>1, MinusIs DEF InOrder
    <3> QED BY <3>2, <1>1, Sizes DEF Stale
  <2>3. unanswered = ping - echo
    BY <2>1 DEF InOrder
  <2>4. echo' <= ping' /\ unanswered' = ping' - echo' /\ unanswered' <= Tolerance
    BY <2>2, <2>3, <1>1, <1>2, <1>3, Sizes
  <2>5. \A i \in 1 .. Len(wire) : echo < wire[i] /\ wire[i] <= ping /\ wire[i] \in Nat
    BY <2>1, <1>1, Sizes DEF InOrder, SessionOK, CountersOK
  <2>6. \A i, j \in 1 .. Len(wire) : i < j => wire[i] < wire[j]
    BY <2>1 DEF InOrder
  <2>7. /\ \A i \in 1 .. Len(wire') : echo' < wire'[i]
        /\ \A i, j \in 1 .. Len(wire') : i < j => wire'[i] < wire'[j]
    <3>1. CASE wire' = wire
      BY <2>5, <2>6, <3>1, <1>3
    <3>2. CASE wire' = Append(wire, ping + 1)
      <4>1. Len(wire') = Len(wire) + 1 /\ \A i \in 1 .. Len(wire) : wire'[i] = wire[i]
        BY <3>2, <1>1
      <4>2. wire'[Len(wire) + 1] = ping + 1
        BY <3>2, <1>1
      <4>3. \A i \in 1 .. Len(wire') : i \in 1 .. Len(wire) \/ i = Len(wire) + 1
        BY <4>1, <1>1
      <4>4. \A i \in 1 .. Len(wire') : echo' < wire'[i]
        BY <4>1, <4>2, <4>3, <2>2, <2>5, <1>1, <1>3
      <4>5. ASSUME NEW i \in 1 .. Len(wire'), NEW j \in 1 .. Len(wire'), i < j
            PROVE  wire'[i] < wire'[j]
        <5>1. i \in 1 .. Len(wire)
          BY <4>1, <4>5, <1>1
        <5>2. CASE j \in 1 .. Len(wire)
          BY <5>1, <5>2, <4>1, <4>5, <2>6
        <5>3. CASE j = Len(wire) + 1
          BY <5>1, <5>3, <4>1, <4>2, <2>5, <1>1
        <5> QED BY <5>2, <5>3, <4>3
      <4> QED BY <4>4, <4>5
    <3> QED BY <3>1, <3>2, <1>4
  <2> QED BY <2>4, <2>7 DEF InOrder
<1> QED BY <1>7, <1>8 DEF SessionOK

\* An echo of this session or of an earlier one.
LEMMA SessionEchoes ==
  ASSUME SessionOK, Echo
  PROVE  SessionOK'
<1>1. /\ ping \in Nat /\ ping \in 0 .. MaxPings + Tolerance /\ echo \in 0 .. MaxPings
      /\ unanswered \in 0 .. ping /\ strayed \in BOOLEAN /\ strays \subseteq 1 .. MaxPings
      /\ wire \in Seq(1 .. MaxPings) /\ Len(wire) <= ping /\ Len(wire) <= MaxPings
      /\ \A i \in 1 .. Len(wire) : wire[i] <= ping
  BY Sizes DEF SessionOK, CountersOK
<1>2. ping' = ping
  BY DEF Echo
<1>3. CASE /\ wire # <<>> /\ wire' = Tail(wire) /\ echo' = EchoAfter(Head(wire))
           /\ unanswered' = Minus(ping, Head(wire)) /\ UNCHANGED <<strays, strayed>>
  <2> DEFINE h == wire[1]
  <2>1. /\ h \in 1 .. MaxPings /\ h <= ping /\ Head(wire) = h
        /\ Len(wire) \in Nat /\ Len(wire) > 0
    <3>1. wire \in Seq(1 .. MaxPings) /\ wire # <<>>
      BY <1>1, <1>3
    <3>2. Len(wire) \in Nat /\ Len(wire) > 0
      BY <3>1, EmptySeq
    <3>3. h \in 1 .. MaxPings
      <4>1. 1 \in 1 .. Len(wire)
        BY <3>2
      <4> QED BY <4>1, <3>1, ElementOfSeq, Zenon
    <3>4. Head(wire) = h
      BY <3>1
    <3> QED BY <3>2, <3>3, <3>4, <1>1
  <2>2. /\ wire' \in Seq(1 .. MaxPings) /\ Len(wire') = Len(wire) - 1
        /\ \A i \in 1 .. Len(wire') : i + 1 \in 1 .. Len(wire) /\ wire'[i] = wire[i + 1]
    BY <1>1, <1>3, <2>1
  <2>3. echo' = (IF h >= echo THEN h ELSE echo) /\ unanswered' = Minus(ping, h)
    BY <1>1, <1>3, <2>1, EchoForward
  <2> HIDE DEF h
  <2>4. unanswered' = ping - h
    <3>1. h \in 0 .. MaxPings + Tolerance
      BY <2>1, Sizes
    <3> QED BY <3>1, <2>1, <2>3, <1>1, MinusIs
  <2>5. strays' = strays /\ strayed' = strayed
    BY <1>3
  <2>6. CountersOK'
    <3>1. echo' \in 0 .. MaxPings /\ unanswered' \in 0 .. ping'
      BY <1>1, <1>2, <2>1, <2>3, <2>4, Sizes
    <3>2. Len(wire') <= ping' /\ Len(wire') <= MaxPings
      BY <1>1, <1>2, <2>1, <2>2, Sizes
    <3>3. \A i \in 1 .. Len(wire') : wire'[i] <= ping'
      BY <1>1, <1>2, <2>2
    <3> QED BY <1>1, <1>2, <2>2, <2>5, <3>1, <3>2, <3>3 DEF CountersOK
  <2>7. ASSUME ~strayed' PROVE InOrder'
    <3>1. InOrder
      BY <2>5, <2>7 DEF SessionOK
    <3>2. echo < h /\ echo \in Nat
      BY <3>1, <2>1, <1>1, Sizes DEF InOrder, h
    <3>3. echo' = h /\ unanswered' <= Tolerance
      <4>1. ping - echo <= Tolerance
        BY <3>1 DEF InOrder
      <4> QED BY <4>1, <3>2, <2>1, <2>3, <2>4, <1>1, Sizes
    <3>4. \A i \in 1 .. Len(wire') : echo' < wire'[i]
      <4>1. ASSUME NEW i \in 1 .. Len(wire') PROVE h < wire[i + 1]
        <5>1. i + 1 \in 1 .. Len(wire) /\ 1 \in 1 .. Len(wire) /\ 1 < i + 1
          BY <2>1, <2>2
        <5> QED BY <5>1, <3>1 DEF InOrder, h
      <4> QED BY <4>1, <3>3, <2>2
    <3>5. \A i, j \in 1 .. Len(wire') : i < j => wire'[i] < wire'[j]
      <4>1. ASSUME NEW i \in 1 .. Len(wire'), NEW j \in 1 .. Len(wire'), i < j
            PROVE  wire[i + 1] < wire[j + 1]
        <5>1. i + 1 \in 1 .. Len(wire) /\ j + 1 \in 1 .. Len(wire) /\ i + 1 < j + 1
          BY <2>2, <4>1
        <5> QED BY <5>1, <3>1 DEF InOrder
      <4> QED BY <4>1, <2>2
    <3>6. echo' <= ping' /\ unanswered' = ping' - echo'
      BY <3>3, <2>1, <2>4, <1>2
    <3> QED BY <3>3, <3>4, <3>5, <3>6 DEF InOrder
  <2> QED BY <2>6, <2>7 DEF SessionOK
<1>4. ASSUME NEW seq \in strays, strays' = strays \ {seq}, echo' = EchoAfter(seq),
             strayed' = (strayed \/ seq > echo), UNCHANGED <<wire, unanswered>>
      PROVE  SessionOK'
  <2>1. seq \in 1 .. MaxPings
    BY <1>1
  <2>2. echo' = IF seq >= echo THEN seq ELSE echo
    BY <1>1, <1>4, <2>1, EchoForward
  <2>3. CountersOK'
    <3>1. echo' \in 0 .. MaxPings /\ strays' \subseteq 1 .. MaxPings
      BY <1>1, <1>4, <2>1, <2>2, Sizes
    <3>2. strayed' \in BOOLEAN
      BY <1>4, Zenon
    <3> QED BY <1>1, <1>2, <1>4, <3>1, <3>2 DEF CountersOK
  <2>4. ASSUME ~strayed' PROVE InOrder'
    <3>1. ~strayed /\ ~(seq > echo)
      BY <1>4, <2>4, Zenon
    <3>2. InOrder
      BY <3>1 DEF SessionOK
    <3>3. echo' = echo
      BY <3>1, <2>1, <2>2, <1>1, Sizes
    <3> QED BY <3>2, <3>3, <1>2, <1>4 DEF InOrder
  <2> QED BY <2>3, <2>4 DEF SessionOK
<1> QED BY <1>3, <1>4 DEF Echo

-----------------------------------------------------------------------------
(* The steps of the publisher and of the link.                             *)

\* connect() leaves the publisher alone, and a new session carries no torn packet.
LEMMA ConnectKeeps ==
  ASSUME MqttIInv, Connect, ~publishing, ready' = TRUE, UNCHANGED <<wifi, err>>
  PROVE  MqttIInv'
<1>1. StreamOK /\ SessionOK
  BY DEF MqttIInv
<1>2. CASE UNCHANGED <<link, session, stream>>
  <2>1. SessionOK'
    BY <1>1, <1>2, SessionIdles
  <2>2. StreamOK'
    BY <1>1, <1>2 DEF StreamOK, Connected, stream
  <2> QED BY <2>1, <2>2 DEF MqttIInv
<1>3. CASE /\ link' \in {"open", "closed", "dead"} /\ NewSession
           /\ torn' = FALSE /\ UNCHANGED <<writer, publishing>>
  <2>1. SessionOK'
    BY <1>1, <1>3, DropsAreDrops, SessionDrops
  <2>2. StreamOK'
    BY <1>1, <1>3 DEF StreamOK, Connected
  <2> QED BY <2>1, <2>2 DEF MqttIInv
<1> QED BY <1>2, <1>3 DEF Connect

\* A session that is dropped takes a torn packet with it.
LEMMA DroppedStream ==
  ASSUME StreamOK, ForceReconnect, UNCHANGED <<wifi, err, ready>>,
         publishing' \in BOOLEAN, Sound(writer'), Len(writer'.buf) < ChunkSize
  PROVE  StreamOK'
  BY DEF StreamOK, ForceReconnect, Connected

LEMMA MostTyped ==
  ASSUME NEW n
  PROVE  Most(n) \in {0, n}
  BY DEF Most

LEMMA InitHolds == MqttInit => MqttIInv
<1> SUFFICES ASSUME MqttInit PROVE MqttIInv
  OBVIOUS
<1>1. StreamOK
  <2>1. Sound(writer) /\ Len(writer.buf) < ChunkSize
    <3>1. writer = FreshWriter
      BY DEF MqttInit
    <3>2. Sound(writer) /\ writer.buf = <<>>
      BY <3>1, FreshSound
    <3> QED BY <3>2, Sizes
  <2> QED BY <2>1 DEF MqttInit, StreamOK, Connected
<1>2. SessionOK
  <2>1. CountersOK
    <3>1. ping \in 0 .. MaxPings + Tolerance /\ echo \in 0 .. MaxPings
      BY Sizes DEF MqttInit
    <3>2. ping = 0 /\ unanswered \in 0 .. ping /\ strays \subseteq 1 .. MaxPings
      BY DEF MqttInit
    <3>3. strayed \in BOOLEAN
      BY Zenon DEF MqttInit
    <3>4. /\ wire \in Seq(1 .. MaxPings) /\ Len(wire) = 0
          /\ \A i \in 1 .. Len(wire) : wire[i] <= ping
      BY DEF MqttInit
    <3> QED BY <3>1, <3>2, <3>3, <3>4, Sizes DEF CountersOK
  <2>2. InOrder
    BY Sizes DEF MqttInit, InOrder
  <2> QED BY <2>1, <2>2 DEF SessionOK
<1> QED BY <1>1, <1>2 DEF MqttIInv

LEMMA StepHolds == MqttIInv /\ [MqttNext]_qvars => MqttIInv'
<1> SUFFICES ASSUME MqttIInv, [MqttNext]_qvars PROVE MqttIInv'
  OBVIOUS
<1>1. StreamOK /\ SessionOK
  BY DEF MqttIInv
<1>2. CASE Retry
  BY <1>2, ConnectKeeps DEF Retry, RetryLink
<1>3. CASE CheckLiveness
  <2>1. CASE Stale
    <3>1. ForceReconnect /\ UNCHANGED <<wifi, err, ready, writer, publishing>>
      BY <1>3, <2>1 DEF CheckLiveness
    <3>2. SessionOK'
      BY <3>1, <1>1, DropsAreDrops, SessionDrops
    <3>3. StreamOK'
      BY <3>1, <1>1, DroppedStream DEF StreamOK
    <3> QED BY <3>2, <3>3 DEF MqttIInv
  <2>2. CASE ~Stale
    <3>1. SendEchoPing /\ UNCHANGED <<wifi, err, ready, stream>>
      BY <1>3, <2>2 DEF CheckLiveness, SendEchoPing
    <3>2. /\ link = "open" => ping < MaxPings
          /\ link \in {"open", "dead"} /\ ready /\ ~publishing
      BY <1>1, <1>3 DEF CheckLiveness, Connected, StreamOK
    <3>3. SessionOK'
      BY <3>1, <3>2, <2>2, <1>1, SessionPings
    <3>4. link' \in {"open", "dead"}
      BY <3>1, <3>2 DEF SendEchoPing
    <3>5. StreamOK'
      BY <3>1, <3>2, <3>4, <1>1 DEF StreamOK, Connected, stream
    <3> QED BY <3>3, <3>5 DEF MqttIInv
  <2> QED BY <2>1, <2>2
<1>4. CASE Echo
  <2>1. SessionOK'
    BY <1>1, <1>4, SessionEchoes
  <2>2. StreamOK'
    BY <1>1, <1>4 DEF Echo, StreamOK, Connected, stream
  <2> QED BY <2>1, <2>2 DEF MqttIInv
<1>5. CASE BeginPublish
  <2>1. ready /\ Connected /\ ~publishing /\ UNCHANGED <<wifi, err, ready>>
    BY <1>5 DEF BeginPublish
  <2>2. CASE publishing' = TRUE /\ writer' = FreshWriter /\ UNCHANGED <<link, session, torn>>
    <3>1. SessionOK'
      BY <2>2, <1>1, SessionIdles
    <3>2. Sound(writer') /\ Len(writer'.buf) < ChunkSize
      <4>1. Sound(writer') /\ writer'.buf = <<>>
        BY <2>2, FreshSound
      <4> QED BY <4>1, Sizes
    <3>3. torn = FALSE
      BY <2>1, <1>1 DEF StreamOK, Connected
    <3>4. StreamOK'
      BY <2>1, <2>2, <3>2, <3>3, <1>1 DEF StreamOK, Connected
    <3> QED BY <3>1, <3>4 DEF MqttIInv
  <2>3. CASE ForceReconnect /\ UNCHANGED <<writer, publishing>>
    <3>1. SessionOK'
      BY <2>3, <1>1, DropsAreDrops, SessionDrops
    <3>2. StreamOK'
      BY <2>1, <2>3, <1>1, DroppedStream DEF StreamOK
    <3> QED BY <3>1, <3>2 DEF MqttIInv
  <2> QED BY <1>5, <2>2, <2>3 DEF BeginPublish
<1>6. CASE Serialize
  <2>1. SessionOK'
    BY <1>1, <1>6, SessionIdles DEF Serialize
  <2>2. /\ publishing /\ writer.given < DocLen /\ torn' = (torn \/ writer'.failed)
        /\ UNCHANGED <<wifi, err, ready, link, publishing>>
    BY <1>6, Zenon DEF Serialize
  <2>3. PICK k \in Turns(writer) : writer' \in Write(writer, k, Most(ChunkSize))
    BY <1>6 DEF Serialize
  <2>4. /\ Sound(writer') /\ Len(writer'.buf) < ChunkSize
        /\ writer.failed => writer'.failed
    BY <2>2, <2>3, <1>1, MostTyped, WriteSound DEF StreamOK
  <2>5. writer'.failed \in BOOLEAN /\ torn' \in BOOLEAN /\ (torn' => writer'.failed)
    <3>1. writer'.failed \in BOOLEAN
      BY <2>4 DEF Sound, Typed
    <3>2. torn => writer'.failed
      BY <2>2, <2>4, <1>1, Zenon DEF StreamOK
    <3>3. torn' \in BOOLEAN
      BY <2>2, Zenon
    <3>4. torn' => writer'.failed
      BY <2>2, <3>2, Zenon
    <3> QED BY <3>1, <3>3, <3>4, Zenon
  <2>6. StreamOK'
    BY <2>2, <2>4, <2>5, <1>1 DEF StreamOK, Connected
  <2> QED BY <2>1, <2>6 DEF MqttIInv
<1>7. CASE EndPublish
  <2>1. publishing /\ publishing' = FALSE /\ UNCHANGED <<wifi, err, ready>>
    BY <1>7 DEF EndPublish
  <2>2. PICK w \in Drains(writer, Most(Len(writer.buf))) :
          /\ writer' = FreshWriter
          /\ IF w.failed THEN PublishFailed(w) ELSE UNCHANGED <<link, session, torn>>
    BY <1>7 DEF EndPublish
  <2>3. Sound(writer') /\ Len(writer'.buf) < ChunkSize
    <3>1. Sound(writer') /\ writer'.buf = <<>>
      BY <2>2, FreshSound
    <3> QED BY <3>1, Sizes
  <2>4. CASE w.failed
    <3>1. ForceReconnect
      BY <2>2, <2>4 DEF PublishFailed
    <3>2. SessionOK'
      BY <3>1, <1>1, DropsAreDrops, SessionDrops
    <3>3. StreamOK'
      BY <3>1, <2>1, <2>3, <1>1, DroppedStream
    <3> QED BY <3>2, <3>3 DEF MqttIInv
  <2>5. CASE ~w.failed
    <3>1. UNCHANGED <<link, session, torn>>
      BY <2>2, <2>5
    <3>2. SessionOK'
      BY <3>1, <1>1, SessionIdles
    <3>3. ~writer.failed
      <4>1. Sound(writer) /\ Len(writer.buf) \in Nat
        BY <1>1 DEF StreamOK, Sound, Typed
      <4>2. Most(Len(writer.buf)) \in 0 .. Len(writer.buf)
        BY <4>1, MostTyped
      <4> QED BY <4>1, <4>2, <2>5, DrainsSound
    <3>4. torn = FALSE
      BY <3>3, <2>1, <1>1 DEF StreamOK
    <3>5. StreamOK'
      BY <3>1, <3>4, <2>1, <2>3, <1>1 DEF StreamOK, Connected
    <3> QED BY <3>2, <3>5 DEF MqttIInv
  <2> QED BY <2>4, <2>5
<1>8. CASE Outside
  <2>1. UNCHANGED <<ready, session, stream>>
    BY <1>8 DEF Outside
  <2>2. SessionOK'
    BY <2>1, <1>1, SessionIdles
  <2>3. /\ wifi' \in BOOLEAN /\ err' \in BOOLEAN
        /\ link' \in {"closed", "open", "dead"} /\ (link' = "closed" <=> link = "closed")
    BY <1>1, <1>8 DEF Outside, StreamOK
  <2>4. StreamOK'
    BY <2>1, <2>3, <1>1 DEF StreamOK, Connected, stream
  <2> QED BY <2>2, <2>4 DEF MqttIInv
<1>9. CASE LoseSession
  <2>1. SessionOK'
    BY <1>1, <1>9, SessionIdles DEF LoseSession
  <2>2. StreamOK'
    BY <1>1, <1>9 DEF LoseSession, StreamOK, Connected, stream
  <2> QED BY <2>1, <2>2 DEF MqttIInv
<1>10. CASE UNCHANGED qvars
  <2>1. UNCHANGED <<wifi, err, ready, link, session, stream>>
    BY <1>10 DEF qvars, session, stream
  <2>2. SessionOK'
    BY <2>1, <1>1, SessionIdles
  <2>3. StreamOK'
    BY <2>1, <1>1 DEF StreamOK, Connected, stream
  <2> QED BY <2>2, <2>3 DEF MqttIInv
<1> QED BY <1>2, <1>3, <1>4, <1>5, <1>6, <1>7, <1>8, <1>9, <1>10 DEF MqttNext

-----------------------------------------------------------------------------
\* The writer is sound, a packet cut short is the writer's or is gone, and the
\* counters of a session measure its silence: in every reachable state.
THEOREM MqttInvariant == MqttSpec => []MqttIInv
<1> QED BY InitHolds, StepHolds, PTL DEF MqttSpec

LEMMA IInvTyped == MqttIInv => MqttTypeOK
<1> SUFFICES ASSUME MqttIInv PROVE MqttTypeOK
  OBVIOUS
<1>1. /\ wifi \in BOOLEAN /\ err \in BOOLEAN /\ ready \in BOOLEAN
      /\ link \in {"closed", "open", "dead"} /\ (Connected => ready)
      /\ publishing \in BOOLEAN /\ torn \in BOOLEAN /\ strayed \in BOOLEAN
  BY DEF MqttIInv, StreamOK, SessionOK, CountersOK
<1>2. 0 .. MaxPings + Tolerance \subseteq Seqs
  BY Sizes DEF Seqs
<1>3. 0 .. MaxPings \subseteq Seqs /\ 1 .. MaxPings \subseteq Seqs
  BY Sizes DEF Seqs
<1>4. ping \in Seqs /\ echo \in Seqs /\ strays \subseteq Seqs
  BY <1>2, <1>3 DEF MqttIInv, SessionOK, CountersOK
<1>5. wire \in Seq(Seqs) /\ Len(wire) <= MaxPings
  <2>1. wire \in Seq(1 .. MaxPings) /\ Len(wire) <= MaxPings
    BY DEF MqttIInv, SessionOK, CountersOK
  <2> QED BY <2>1, <1>3, SeqMonotonic, Zenon
<1>6. unanswered \in 0 .. MaxPings + Tolerance
  <2>1. ping \in 0 .. MaxPings + Tolerance /\ unanswered \in 0 .. ping
    BY DEF MqttIInv, SessionOK, CountersOK
  <2> QED BY <2>1, Sizes
<1>7. /\ writer.buf \in Seq(1 .. DocLen) /\ Len(writer.buf) < ChunkSize
      /\ writer.given \in 0 .. DocLen
  BY DEF MqttIInv, StreamOK, Sound, Typed
<1> QED BY <1>1, <1>4, <1>5, <1>6, <1>7 DEF MqttTypeOK

\* Every variable keeps its type; in particular no sequence number of a session
\* reaches the modulus, and no more pings are on their way than were sent.
THEOREM MqttTypeCorrect == MqttSpec => []MqttTypeOK
<1> QED BY MqttInvariant, IInvTyped, PTL

\* Whatever the socket takes of each chunk, for every chunk size and document,
\* it holds a prefix of the document, and a finish() that reports success has
\* delivered all of it (ChunkedWriter.h).
THEOREM WriterAlwaysFaithful == MqttSpec => []WriterFaithful
<1>1. MqttIInv => WriterFaithful
  BY SoundIsFaithful DEF MqttIInv, StreamOK, WriterFaithful
<1> QED BY <1>1, MqttInvariant, PTL

\* publish() never leaves an open session behind a packet that it cut short.
THEOREM TornSessionsAreDropped == MqttSpec => []NoTornSession
<1>1. MqttIInv => NoTornSession
  BY DEF MqttIInv, StreamOK, NoTornSession
<1> QED BY <1>1, MqttInvariant, PTL

\* checkLiveness bounds the silence of a session by the tolerance, for every
\* tolerance and every number of echoes under way.
THEOREM SilenceAlwaysBounded == MqttSpec => []SilenceBounded
<1>1. MqttIInv => SilenceBounded
  BY DEF MqttIInv, SessionOK, InOrder, SilenceBounded
<1> QED BY <1>1, MqttInvariant, PTL

\* checkLiveness drops no session that answers, unless an old echo misled it.
THEOREM AlarmsAreJustified == MqttSpec => []AlarmIsJustified
<1>1. ASSUME MqttIInv PROVE AlarmIsJustified
  <2> SUFFICES ASSUME Stale, ~strayed PROVE unanswered >= Tolerance
    BY DEF AlarmIsJustified
  <2>1. InOrder /\ ping \in 0 .. MaxPings + Tolerance /\ echo \in 0 .. MaxPings + Tolerance
    BY <1>1, Sizes DEF MqttIInv, SessionOK, CountersOK
  <2>2. Minus(ping, echo) = ping - echo
    BY <2>1, MinusIs DEF InOrder
  <2> QED BY <2>1, <2>2 DEF Stale, InOrder
<1> QED BY <1>1, MqttInvariant, PTL
==============================================================================
