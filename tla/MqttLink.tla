------------------------------ MODULE MqttLink ------------------------------
(***************************************************************************)
(* MqttManager (src/network/MqttManager.cpp) with the task that retries it *)
(* (main.cpp): connect, publish through the chunked writer, and the echo   *)
(* pings that find out that a session which still looks open is dead.      *)
(* PubSubClient, the broker and WiFi are the environment.  Commands that   *)
(* arrive are the actions Apply of ControlStack.                           *)
(***************************************************************************)
EXTENDS ChunkedWriter

CONSTANTS
  Tolerance, \* MQTT_ECHO_MISS_TOLERANCE
  SeqMod,    \* sequence numbers are unsigned, modulo this (2^32)
  MaxPings   \* bound on the pings of a session that is well

ASSUME MqttAssumption ==
  /\ Tolerance \in Nat \ {0} /\ MaxPings \in Nat
  /\ SeqMod \in Nat /\ SeqMod > 2 * (MaxPings + Tolerance)

VARIABLES
  wifi,       \* WiFi.isConnected()
  err,        \* inverter.hasError()
  ready,      \* _ready
  link,       \* "closed", "open", or "dead": connected() but nothing passes
  ping,       \* _pingSeq
  echo,       \* _echoSeq
  wire,       \* pings of this session on their way back
  strays,     \* pings of earlier sessions a broker or proxy still holds back
  writer,     \* the document being published
  publishing, \* publish() is between beginPublish and its end
  torn,       \* history: the session ends in a packet cut short by publish()
  unanswered, \* history: pings since the last echo of this session, counted
              \* as far as one above Tolerance
  strayed     \* history: an echo of an earlier session ran ahead of this one

qvars == <<wifi, err, ready, link, ping, echo, wire, strays, writer, publishing,
           torn, unanswered, strayed>>
session == <<ping, echo, wire, strays, unanswered, strayed>>
stream == <<writer, publishing, torn>>

Connected == link # "closed"
Minus(a, b) == (a - b) % SeqMod

MqttInit ==
  /\ wifi = FALSE /\ err = TRUE /\ ready = FALSE /\ link = "closed"
  /\ ping = 0 /\ echo = 0 /\ wire = <<>> /\ strays = {}
  /\ writer = FreshWriter /\ publishing = FALSE /\ torn = FALSE
  /\ unanswered = 0 /\ strayed = FALSE
-----------------------------------------------------------------------------
\* The counters of a new session; what the old one left on its way may stray in.
NewSession ==
  /\ ping' = 0 /\ echo' = 0 /\ wire' = <<>>
  /\ strays' \in {{}, strays \cup {wire[i] : i \in DOMAIN wire}}
  /\ unanswered' = 0 /\ strayed' = FALSE

\* connect(): discovery may cut the session again (Discovery.cpp) and a small
\* packet written short, whose result is ignored, garbles it.
Connect ==
  IF Connected THEN UNCHANGED <<link, session, stream>>
  ELSE \/ UNCHANGED <<link, session, stream>>
       \/ /\ link' \in {"open", "closed", "dead"} /\ NewSession
          /\ torn' = FALSE /\ UNCHANGED <<writer, publishing>>

\* Mutant: the task only begins, it does not connect again.
RetryOnce ==
  IF ready THEN UNCHANGED <<ready, link, session, stream>> ELSE ready' = TRUE /\ Connect

\* begin() if need be, then connect().
RetryLink == ready' = TRUE /\ Connect

\* The retry task does nothing while the inverter is in error or WiFi is down.
Retry ==
  /\ ~publishing /\ ~err /\ wifi
  /\ RetryLink
  /\ UNCHANGED <<wifi, err>>

\* forceReconnect: only the session is dropped; the retry task comes later.
ForceReconnect ==
  /\ link' = "closed" /\ ping' = 0 /\ echo' = 0
  /\ wire' = <<>> /\ strays' \in {strays, strays \cup {wire[i] : i \in DOMAIN wire}}
  /\ unanswered' = 0 /\ strayed' = FALSE /\ torn' = FALSE

\* Mutant: an echo of an older ping sets the counter back.
EchoAlways(seq) == seq

\* onMessage on /ping: only forward, in the sense of half the modulus.
EchoAfter(seq) == IF Minus(seq, echo) < SeqMod \div 2 THEN seq ELSE echo

\* Mutant: a session that never echoed is not suspected.
StaleOnceEchoed == echo > 0 /\ Minus(ping, echo) >= Tolerance

\* Mutant: the tolerance is off by one.
StaleLate == ping > 0 /\ Minus(ping, echo) > Tolerance

Stale == ping > 0 /\ Minus(ping, echo) >= Tolerance

\* sendEchoPing: the number counts also when the ping is not sent, or is cut
\* short and garbles the session.
SendEchoPing ==
  /\ ping' = (ping + 1) % SeqMod
  /\ unanswered' = IF unanswered > Tolerance THEN unanswered ELSE unanswered + 1
  /\ \/ link = "open" /\ wire' = Append(wire, ping') /\ UNCHANGED link
     \/ link' \in {link, "dead"} /\ UNCHANGED wire
  /\ UNCHANGED <<echo, strays, strayed, stream>>

\* checkLiveness, once a ping interval, from loop().
CheckLiveness ==
  /\ ready /\ Connected /\ ~publishing
  /\ ping < MaxPings \/ link = "dead"
  /\ IF Stale THEN ForceReconnect /\ UNCHANGED <<writer, publishing>>
     ELSE SendEchoPing
  /\ UNCHANGED <<wifi, err, ready>>

\* An echo of this session, or one of an earlier session, reaches onMessage.
Echo ==
  /\ link = "open" /\ ~publishing
  /\ \/ /\ wire # <<>> /\ wire' = Tail(wire) /\ echo' = EchoAfter(Head(wire))
        /\ unanswered' = Minus(ping, Head(wire)) /\ UNCHANGED <<strays, strayed>>
     \/ \E seq \in strays :
          /\ strays' = strays \ {seq} /\ echo' = EchoAfter(seq)
          /\ strayed' = (strayed \/ seq > echo) /\ UNCHANGED <<wire, unanswered>>
  /\ UNCHANGED <<wifi, err, ready, link, ping, stream>>
-----------------------------------------------------------------------------
\* publish(): beginPublish writes the header, or fails and the session is dropped.
BeginPublish ==
  /\ ready /\ Connected /\ ~publishing
  /\ \/ /\ publishing' = TRUE /\ writer' = FreshWriter
        /\ UNCHANGED <<link, session, torn>>
     \/ ForceReconnect /\ UNCHANGED <<writer, publishing>>
  /\ UNCHANGED <<wifi, err, ready>>

\* A closed session takes nothing.
Most(n) == IF Connected THEN n ELSE 0

\* serializeJson hands the document on, buffer by buffer.
Serialize ==
  /\ publishing /\ writer.given < DocLen
  /\ \E k \in Turns(writer) : writer' \in Write(writer, k, Most(ChunkSize))
  /\ torn' = (torn \/ writer'.failed)
  /\ UNCHANGED <<wifi, err, ready, link, publishing, session>>

\* Mutant: a failed publish leaves the session as it is.
PublishFailedKeeps(w) == UNCHANGED <<link, session, torn>>

PublishFailed(w) == ForceReconnect

\* finish() and endPublish().
EndPublish ==
  /\ publishing /\ writer.given = DocLen
  /\ \E w \in Drains(writer, Most(Len(writer.buf))) :
       /\ writer' = FreshWriter
       /\ IF w.failed THEN PublishFailed(w) ELSE UNCHANGED <<link, session, torn>>
  /\ publishing' = FALSE
  /\ UNCHANGED <<wifi, err, ready>>
-----------------------------------------------------------------------------
\* WiFi and the inverter come and go; without WiFi an open session is dead.
Outside ==
  /\ \/ wifi' = ~wifi /\ UNCHANGED err
        /\ link' = IF link = "open" THEN "dead" ELSE link
     \/ err' = ~err /\ UNCHANGED <<wifi, link>>
  /\ UNCHANGED <<ready, session, stream>>

\* A session dies unnoticed, or is closed and the socket tells.
LoseSession ==
  /\ Connected /\ link' \in {"dead", "closed"}
  /\ UNCHANGED <<wifi, err, ready, session, stream>>

MqttNext == Retry \/ CheckLiveness \/ Echo \/ BeginPublish \/ Serialize
            \/ EndPublish \/ Outside \/ LoseSession

\* A publish in progress goes on, and loop() reaches checkLiveness in every pass,
\* between publishes too; the retry task runs every half minute, again and again
\* while it is allowed to, and a broker that can be reached is not refused for ever.
MqttSpec ==
  /\ MqttInit /\ [][MqttNext]_qvars
  /\ SF_qvars(CheckLiveness) /\ WF_qvars(Serialize) /\ WF_qvars(EndPublish)
  /\ SF_qvars(Retry /\ link' = "open")
-----------------------------------------------------------------------------
Seqs == 0 .. SeqMod - 1

MqttTypeOK ==
  /\ wifi \in BOOLEAN /\ err \in BOOLEAN /\ ready \in BOOLEAN
  /\ link \in {"closed", "open", "dead"} /\ (Connected => ready)
  /\ ping \in Seqs /\ echo \in Seqs
  /\ wire \in Seq(Seqs) /\ Len(wire) <= MaxPings /\ strays \subseteq Seqs
  /\ writer.buf \in Seq(1 .. DocLen) /\ Len(writer.buf) < ChunkSize
  /\ writer.given \in 0 .. DocLen
  /\ publishing \in BOOLEAN /\ torn \in BOOLEAN /\ strayed \in BOOLEAN
  /\ unanswered \in 0 .. MaxPings + Tolerance

\* However the socket stalls during a publish, what it takes is a prefix of the
\* document, it is waited for once, and a publish that counts as a success has
\* delivered the whole document (ChunkedWriter.h, test_chunked_writer.cpp).
WriterFaithful == Faithful(writer)

\* Once publish() has left a half-written packet behind, the session is gone
\* before anything else can be sent on it (MqttManager.cpp:165).
NoTornSession == torn /\ ~publishing => link = "closed"

\* A session is never kept for more than Tolerance pings without one of its own
\* echoes, unless an echo of an earlier session strayed in and stood for one.
SilenceBounded == unanswered <= Tolerance \/ strayed

\* checkLiveness suspects a session only if that many of its own pings have
\* gone unanswered, or an echo of an earlier session ran ahead of its own:
\* neither old counters nor old echoes behind its own raise the alarm.
AlarmIsJustified == Connected /\ Stale => unanswered >= Tolerance \/ strayed

\* A session that is dead though its socket looks open is found out and dropped.
DeadSessionDropped == link = "dead" ~> link # "dead"

\* Once the session is lost it comes back, provided that time and again WiFi is
\* up while the inverter answers: the retry task asks for both.
SessionComesBack == []<>(wifi /\ ~err) => (link = "closed" ~> link = "open")
=============================================================================
