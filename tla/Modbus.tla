------------------------------- MODULE Modbus -------------------------------
(***************************************************************************)
(* The Modbus RTU master (src/modbus/Modbus.cpp, RespCheck.h): flush, send *)
(* a request, and collect the reply byte by byte until it is complete, the *)
(* bus falls silent or the budget of the response is spent.  Replies may   *)
(* be lost, damaged, cut short or late; bytes of other slaves come in      *)
(* between.  A reply carries neither the register nor the request it       *)
(* answers, so what the master may conclude from one is the question.      *)
(***************************************************************************)
EXTENDS Integers, Sequences

CONSTANTS
  ReadCounts,   \* register counts readHolding is called with
  WriteBytes,   \* payload lengths writeMultiple is called with
  MaxFrame,     \* MODBUS_MAX_FRAME
  Timeout,      \* MODBUS_TIMEOUT_MS
  InterByte,    \* MODBUS_INTERBYTE_MS
  Budget,       \* MODBUS_LISTEN_BUDGET_MS
  ForeignBytes, \* bytes other slaves put on the bus
  DataBytes,    \* what a byte of a payload or checksum may look like
  ExceptionCodes, \* what the inverter refuses a request with
  MaxLate       \* bound on the replies in the air at a time

ASSUME ModbusAssumption ==
  /\ ReadCounts \subseteq 0 .. 127 /\ WriteBytes \subseteq 0 .. 246
  /\ MaxFrame \in 8 .. 255
  /\ Timeout \in Nat /\ InterByte \in 0 .. Timeout /\ Budget \in Nat \ {0}
  /\ ForeignBytes \cup DataBytes \subseteq 0 .. 255
  /\ ExceptionCodes \subseteq 1 .. 255
  /\ MaxLate \in Nat \ {0}

VARIABLES
  phase,     \* "idle", or "listen": inside listen()
  req,       \* the request last made, [op, size]
  got,       \* the frame being collected: see Nothing
  age,       \* time since listen() began
  air,       \* replies not read yet, the head from its byte "at" on
  done,      \* outcome of the last request: see Undecided
  clean,     \* history: nothing of earlier requests was on its way at the send
  executed   \* history: the inverter has carried out the last request

mvars == <<phase, req, got, age, air, done, clean, executed>>

SlaveId == 1
ReadFc == 3
WriteFc == 16
ErrorBit(fc) == fc >= 128
MaxRead == (MaxFrame - 5) \div 2
Fc(r) == IF r.op = "read" THEN ReadFc ELSE WriteFc

\* A reply frame: whether it answers the last request, its function code, its
\* third byte, its length, whether it is undamaged, its next byte to arrive.
Frame(fc, third, size) ==
  [own |-> TRUE, fc |-> fc, third |-> third, size |-> size, good |-> TRUE, at |-> 1]

\* Stands for bytes that are not the beginning of one frame.
Mixed == Frame(0, 0, 0)

Nothing == [idx |-> 0, fc |-> 0, third |-> 0, of |-> Mixed]
Undecided == [ok |-> FALSE, len |-> 0, of |-> Mixed]
-----------------------------------------------------------------------------
\* Mutant: any length that fits is taken.
PayloadLenAny(cnt, size, cap, asked) ==
  IF cnt = 0 \/ cnt > cap \/ cnt + 5 > size THEN 0 ELSE cnt

\* modbusPayloadLen: the length claimed by a read reply, or 0 to reject it.
PayloadLen(cnt, size, cap, asked) ==
  IF \/ cnt = 0 \/ cnt > cap
     \/ asked > 0 /\ cnt # asked
     \/ cnt + 5 > size
  THEN 0 ELSE cnt

\* modbusExpectedFrame
ExpectedFrame(cnt) == IF cnt = 0 \/ cnt + 5 > MaxFrame THEN 0 ELSE cnt + 5

\* What listen() expects from the bytes so far; 0 means it cannot know yet.
Expected(g) ==
  CASE g.idx >= 2 /\ ErrorBit(g.fc)     -> 5
    [] g.idx >= 2 /\ g.fc = WriteFc     -> 8
    [] g.idx >= 3 /\ g.fc = ReadFc      -> ExpectedFrame(g.third)
    [] OTHER                            -> 0

\* The byte count of a read reply is impossible: listen() gives up at once.
Impossible(g) == g.idx = 3 /\ g.fc = ReadFc /\ Expected(g) = 0

\* Mutant: the end of the frame buffer is not an end.
CompleteWhenExpected(g) == Expected(g) > 0 /\ g.idx >= Expected(g)

Complete(g) == g.idx >= MaxFrame \/ (Expected(g) > 0 /\ g.idx >= Expected(g))

\* The bytes collected are one undamaged frame, to its end.
CrcOk(g) == g.of.good /\ g.of.size > 0 /\ g.idx = g.of.size

\* Mutant: the checksum is not looked at.
AcceptableUnchecked(g, r, len) ==
  /\ ~Impossible(g) /\ g.idx >= 5
  /\ \/ ErrorBit(g.fc) /\ g.third = 0
     \/ g.fc = Fc(r) /\ (r.op = "read" => len > 0)

\* The tests of listen() on the bytes collected, in its order.  Of an exception
\* the code is returned, and 0 stands for success.
Acceptable(g, r, len) ==
  /\ ~Impossible(g) /\ g.idx >= 5 /\ CrcOk(g)
  /\ \/ ErrorBit(g.fc) /\ g.third = 0
     \/ g.fc = Fc(r) /\ (r.op = "read" => len > 0)

\* What listen() makes of the bytes collected for request r.  The capacity of
\* the caller's buffer is the length asked for (Inverter::readBlock).
Decide(g, r) ==
  LET asked == IF r.op = "read" THEN 2 * r.size ELSE 0
      len   == IF r.op = "read" THEN PayloadLen(g.third, g.idx, asked, asked) ELSE 0
  IN  IF Acceptable(g, r, len) THEN [ok |-> TRUE, len |-> len, of |-> g.of]
      ELSE Undecided

\* The frame with one more byte: v, the byte "at" of frame f.  Bytes before
\* our own address are skipped.
Store(g, v, f) ==
  IF g.idx = 0 /\ v # SlaveId THEN g
  ELSE [idx   |-> g.idx + 1,
        fc    |-> IF g.idx = 1 THEN v ELSE g.fc,
        third |-> IF g.idx = 2 THEN v ELSE g.third,
        of    |-> IF f.at = g.idx + 1 /\ (g.idx = 0 \/ g.of = [f EXCEPT !.at = 1])
                  THEN [f EXCEPT !.at = 1] ELSE Mixed]

\* How long listen() waits for the next byte.
Limit(g) == IF g.idx = 0 THEN Timeout ELSE InterByte

\* Mutant: no deadline.
BeforeDeadlineNever(a) == TRUE

BeforeDeadline(a) == a < Budget
-----------------------------------------------------------------------------
\* What the inverter may answer: the reply, an exception, or a damaged frame.
Replies(r) ==
  LET reply == IF r.op = "read" THEN Frame(ReadFc, 2 * r.size, 2 * r.size + 5)
               ELSE Frame(WriteFc, 17, 8)
  IN  {reply, [reply EXCEPT !.good = FALSE], [reply EXCEPT !.good = FALSE, !.third = 255]}

Exceptions(r) == {Frame(Fc(r) + 128, code, 5) : code \in ExceptionCodes}

Bytes(f) == CASE f.at = 1 -> {SlaveId} [] f.at = 2 -> {f.fc}
              [] f.at = 3 -> {f.third} [] OTHER -> DataBytes

\* The replies of a request that is over answer an earlier one.
Earlier(q) == [i \in DOMAIN q |-> [q[i] EXCEPT !.own = FALSE]]

Advance(q) == IF Head(q).at = Head(q).size THEN Tail(q)
              ELSE <<[Head(q) EXCEPT !.at = @ + 1]>> \o Tail(q)

\* Mutant: what has arrived meanwhile is kept.
DrainNothing(q, arrived, at) == q

\* flush(): what has arrived is dropped, some replies and of the next what comes
\* before its byte "at".
Drain(q, arrived, at) ==
  IF arrived = Len(q) THEN <<>>
  ELSE <<[q[arrived + 1] EXCEPT !.at = at]>> \o SubSeq(q, arrived + 2, Len(q))

\* Where the first reply that has not arrived whole may have got to.
Arriving(q, arrived) ==
  IF arrived = Len(q) THEN {1} ELSE q[arrived + 1].at .. q[arrived + 1].size

\* The requests readHolding and writeMultiple turn down without sending.
Refused(r) == IF r.op = "read" THEN r.size = 0 \/ r.size > MaxRead
              ELSE 9 + r.size > MaxFrame

Requests == [op: {"read"}, size: ReadCounts] \cup [op: {"write"}, size: WriteBytes]

ModbusInit ==
  /\ phase = "idle" /\ req = [op |-> "read", size |-> 1]
  /\ got = Nothing /\ age = 0 /\ air = <<>> /\ done = Undecided
  /\ clean = TRUE /\ executed = FALSE

Refuse(r) ==
  /\ phase = "idle" /\ Refused(r)
  /\ req' = r /\ done' = Undecided /\ executed' = FALSE
  /\ UNCHANGED <<phase, got, age, air, clean>>

\* The request goes out after the bus is flushed; it may not reach the inverter,
\* which may refuse it, carry it out, and have its reply lost.
Send(r) ==
  /\ phase = "idle" /\ ~Refused(r)
  /\ \E arrived \in 0 .. Len(air) : \E at \in Arriving(air, arrived) :
       LET left == Earlier(Drain(air, arrived, at)) IN
       /\ Len(left) < MaxLate
       /\ clean' = (arrived = Len(air))
       /\ \/ /\ air' \in {left} \cup {Append(left, f) : f \in Exceptions(r)}
             /\ executed' = FALSE
          \/ /\ air' \in {left} \cup {Append(left, f) : f \in Replies(r)}
             /\ executed' = TRUE
  /\ phase' = "listen" /\ req' = r /\ got' = Nothing /\ age' = 0 /\ done' = Undecided

Return(g, a) ==
  /\ phase' = "idle" /\ got' = Nothing /\ age' = a /\ done' = Decide(g, req)

\* One byte within its limit, then the next turn of the loop or its end.
Take(v, f, wait) ==
  LET g == Store(got, v, f) IN
  IF Complete(g) \/ Impossible(g) THEN Return(g, age + wait)
  ELSE got' = g /\ age' = age + wait /\ UNCHANGED <<phase, done>>

ReadByte ==
  /\ phase = "listen" /\ BeforeDeadline(age) /\ air # <<>>
  /\ \E wait \in 0 .. Limit(got), v \in Bytes(Head(air)) : Take(v, Head(air), wait)
  /\ air' = Advance(air)
  /\ UNCHANGED <<req, clean, executed>>

ReadForeignByte ==
  /\ phase = "listen" /\ BeforeDeadline(age)
  /\ \E wait \in 0 .. Limit(got), v \in ForeignBytes : Take(v, Mixed, wait)
  /\ UNCHANGED <<req, air, clean, executed>>

\* No byte within the limit, or the budget is spent.
StopListening ==
  /\ phase = "listen"
  /\ IF BeforeDeadline(age) THEN Return(got, age + Limit(got)) ELSE Return(got, age)
  /\ UNCHANGED <<req, air, clean, executed>>

\* A reply, or what is left of it, is lost on the line.
LoseReply ==
  /\ air # <<>> /\ air' = Tail(air)
  /\ UNCHANGED <<phase, req, got, age, done, clean, executed>>

ModbusNext ==
  \/ \E r \in Requests : Refuse(r) \/ Send(r)
  \/ ReadByte \/ ReadForeignByte \/ StopListening \/ LoseReply

ModbusSpec == ModbusInit /\ [][ModbusNext]_mvars
-----------------------------------------------------------------------------
Frames == [own: BOOLEAN, fc: 0 .. 255, third: 0 .. 255, size: 0 .. MaxFrame,
           good: BOOLEAN, at: 1 .. MaxFrame]

ModbusTypeOK ==
  /\ phase \in {"idle", "listen"}
  /\ req \in [op: {"read", "write"}, size: 0 .. 255]
  /\ got \in [idx: 0 .. MaxFrame, fc: 0 .. 255, third: 0 .. 255, of: Frames]
  /\ age \in Nat /\ air \in Seq(Frames) /\ Len(air) <= MaxLate
  /\ done \in [ok: BOOLEAN, len: 0 .. 255, of: Frames]
  /\ clean \in BOOLEAN /\ executed \in BOOLEAN

\* A read that succeeds delivers exactly the bytes asked for, whatever late or
\* foreign frame it took for its reply: the caller's buffer is never overrun
\* nor left half old (modbusPayloadLen, Inverter::readBlock).
PayloadFits ==
  done.ok /\ req.op = "read" => done.len = 2 * req.size /\ done.len <= MaxFrame - 5

\* However foreign bytes keep coming, listen() returns within its budget and
\* one more wait, which began before the budget was spent.
ListenBounded == age < Budget + Timeout

\* A request succeeds only on one whole undamaged reply to a request of its own
\* kind and, for a read, of its own size.
AcceptedIsGenuine ==
  done.ok => /\ done.of.good /\ done.of.size > 0
             /\ done.of.fc = Fc(req)
             /\ req.op = "read" => done.of.third = 2 * req.size

\* When nothing of earlier requests was still to arrive at the moment of
\* sending, a success is this request's own: a write that is acknowledged was
\* carried out, as PassiveWriteCache takes for granted.  A late reply thus
\* misleads requests only as long as replies keep being late.
PunctualRepliesAreOwn == done.ok /\ clean => done.of.own /\ executed
=============================================================================
