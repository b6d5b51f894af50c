--------------------------- MODULE ChunkedWriter ---------------------------
(***************************************************************************)
(* ChunkedWriter (src/util/ChunkedWriter.h): batches a serialised document *)
(* into chunks for a sink that may take less than it is given.  A byte is  *)
(* known by its place in the document.                                     *)
(***************************************************************************)
EXTENDS Integers, Sequences

CONSTANTS
  ChunkSize, \* the template parameter N
  DocLen     \* bytes of the document

ASSUME WriterAssumption == ChunkSize \in Nat \ {0} /\ DocLen \in Nat

\* _buf[0.._n-1], _failed, bytes the serialiser has produced, bytes the sink
\* has taken, and how often the sink came up short.
FreshWriter == [buf |-> <<>>, failed |-> FALSE, given |-> 0, sink |-> <<>>, stalls |-> 0]

\* The sink takes the first n bytes of the buffer.
Taken(w, n) == [w EXCEPT !.buf = <<>>, !.sink = @ \o SubSeq(w.buf, 1, n),
                         !.failed = @ \/ n < Len(w.buf),
                         !.stalls = IF n < Len(w.buf) THEN @ + 1 ELSE @]

\* Mutant: a failure is not latched.
DrainsUnlatched(w, most) ==
  IF w.buf = <<>> THEN {w}
  ELSE {[Taken(w, n) EXCEPT !.failed = FALSE] : n \in 0 .. most}

\* drain(), when the sink takes at most "most" bytes.
Drains(w, most) ==
  IF w.buf = <<>> \/ w.failed THEN {w} ELSE {Taken(w, n) : n \in 0 .. most}

\* Mutant: the full buffer is noticed one byte late.
WriteLate(w, k, most) ==
  LET more   == [i \in 1 .. k |-> w.given + i]
      filled == [w EXCEPT !.given = @ + k, !.buf = IF w.failed THEN @ ELSE @ \o more]
  IN  IF Len(filled.buf) > ChunkSize THEN Drains(filled, most) ELSE {filled}

\* One turn of write(): k more bytes, as many as the buffer has room for, and
\* a drain once it is full.  After a failure they are dropped.
Write(w, k, most) ==
  LET more   == [i \in 1 .. k |-> w.given + i]
      filled == [w EXCEPT !.given = @ + k, !.buf = IF w.failed THEN @ ELSE @ \o more]
  IN  IF Len(filled.buf) = ChunkSize THEN Drains(filled, most) ELSE {filled}

Turns(w) == 1 .. (IF DocLen - w.given < ChunkSize - Len(w.buf)
                  THEN DocLen - w.given ELSE ChunkSize - Len(w.buf))

\* What has reached the sink is a prefix of the document, at most one write
\* came up short, and a writer that has not failed and has nothing buffered
\* has delivered everything it was given: finish() means what it says.
Faithful(w) ==
  /\ \A i \in DOMAIN w.sink : w.sink[i] = i
  /\ w.stalls <= 1
  /\ ~w.failed /\ w.buf = <<>> => Len(w.sink) = w.given
=============================================================================
