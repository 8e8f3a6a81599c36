----------------------------- MODULE EventStream -----------------------------
(***************************************************************************)
(* EventStream::Open and Read in src/src/connect_client.cpp over the       *)
(* chunked body HttpConnection::ReadBody delivers (src/src/http.cpp): the  *)
(* audio server puts envelopes into chunks as it likes, the network cuts   *)
(* the chunks where it likes, and each of the two layers keeps a buffer    *)
(* with a read position and reclaims the consumed prefix now and then.     *)
(*                                                                         *)
(* A byte is named by the frame it belongs to and its place in it; a CRLF  *)
(* is one symbol.  One step is one turn of a loop of Read, ReadBody or     *)
(* ReadLine, which keep no other state between turns.                      *)
(***************************************************************************)
EXTENDS Integers, Sequences

CONSTANTS
  Events,          \* frames whose payload is an event
  Endings,         \* the end-of-stream frame, frames that do not parse
  PayloadSize,     \* bytes of each frame's payload
  HeaderSize,      \* bytes of the flags and the length, 5
  PendingLimit,    \* consumed bytes of pending_ that trigger a compaction
  BufLimit,        \* the same for buf_
  RecvSize,        \* most bytes one Recv returns
  MaxFeed,         \* bound: frames sent and not yet read
  MaxWire          \* bound: symbols on the wire when the server writes more

Frames == Events \cup Endings

\* The name of no frame.
None == "none"

ASSUME StreamAssumption ==
  /\ Endings \cap Events = {} /\ None \notin Frames /\ Frames # {}
  /\ PayloadSize \in [Frames -> Nat \ {0}]
  /\ HeaderSize \in Nat \ {0, 1}
  /\ PendingLimit \in Nat /\ BufLimit \in Nat
  /\ RecvSize \in Nat \ {0} /\ MaxFeed \in Nat \ {0} /\ MaxWire \in Nat

\* Symbols of the body: a byte of an envelope, a chunk size, a line end.
ByteAt(f, k) == [is |-> "byte", of |-> f, n |-> k]
ChunkSize(k) == [is |-> "size", of |-> None, n |-> k]
LineEnd      == [is |-> "eol", of |-> None, n |-> 0]

EnvelopeSize(f) == HeaderSize + PayloadSize[f]

\* Envelope(): flags, length, payload.
Envelope(f) == [k \in 1 .. EnvelopeSize(f) |-> ByteAt(f, k)]

VARIABLES
  at,          \* the stream thread: "closed", "reading", "ended" (not closed yet)
  result,      \* what Read returned last, "none" while it runs
  pending,     \* pending_
  pendingPos,  \* pending_pos_
  buf,         \* buf_
  bufPos,      \* buf_pos_
  needSize,    \* chunk_need_size_
  remaining,   \* body_remaining_
  bodyDone,    \* body_done_
  wire,        \* sent to the plugin and not yet received
  unsent,      \* envelope bytes the server has not put into a chunk yet
  up,          \* the server's end of the connection
  finished     \* the server wrote the chunk of size 0

readVars == <<pending, pendingPos>>
bodyVars == <<buf, bufPos, needSize, remaining, bodyDone>>
sendVars == <<unsent, up, finished>>
vars == <<at, result, readVars, bodyVars, wire, sendVars>>

Returned(kind) == [kind |-> kind, frame |-> None]

\* The bytes from a read position on.
After(s, pos) == SubSeq(s, pos + 1, Len(s))

Init ==
  /\ at = "closed" /\ result = Returned("none")
  /\ pending = <<>> /\ pendingPos = 0
  /\ buf = <<>> /\ bufPos = 0
  /\ needSize = TRUE /\ remaining = 0 /\ bodyDone = TRUE
  /\ wire = <<>> /\ unsent = <<>> /\ up = FALSE /\ finished = FALSE

-----------------------------------------------------------------------------
(* The feed: frames not yet read, in order, by their last bytes              *)

Symbols == [is : {"byte", "size", "eol"}, of : Frames \cup {None}, n : Nat]

\* Each symbol of s in turn, replaced by what g gives for it.
Mapped(s, g) ==
  LET upto[n \in 0 .. Len(s)] == IF n = 0 THEN <<>> ELSE upto[n - 1] \o g[s[n]]
  IN upto[Len(s)]

EndOf == [c \in Symbols |->
            IF c.is = "byte" /\ c.n = EnvelopeSize(c.of) THEN <<c.of>> ELSE <<>>]

Unread ==
  IF at = "reading"
  THEN Mapped(After(pending, pendingPos) \o (After(buf, bufPos) \o wire) \o unsent, EndOf)
  ELSE <<>>

-----------------------------------------------------------------------------
(* Open and Close                                                            *)

\* Open on a fresh connection, answered with 200 and a chunked body.
Opens ==
  /\ at = "closed"
  /\ at' = "reading" /\ result' = Returned("none")
  /\ pending' = <<>> /\ pendingPos' = 0
  /\ buf' = <<>> /\ bufPos' = 0
  /\ needSize' = TRUE /\ remaining' = 0 /\ bodyDone' = FALSE
  /\ wire' = <<>> /\ unsent' = <<>> /\ up' = TRUE /\ finished' = FALSE

\* Open fails: no connection, no answer, or another status than 200.
OpenFails ==
  /\ at = "closed"
  /\ result' = Returned("ended")
  /\ pending' = <<>> /\ pendingPos' = 0
  /\ UNCHANGED <<at, bodyVars, wire, sendVars>>

\* StreamLoop closes the connection of a stream that ended; HttpConnection
\* drops its buffer.
Closes ==
  /\ at = "ended"
  /\ at' = "closed"
  /\ buf' = <<>> /\ bufPos' = 0 /\ bodyDone' = TRUE
  /\ up' = FALSE /\ wire' = <<>> /\ unsent' = <<>>
  /\ UNCHANGED <<result, readVars, needSize, remaining, finished>>

\* Read returns -1.
ReadReturnsEnded == at' = "ended" /\ result' = Returned("ended")

-----------------------------------------------------------------------------
(* Read: the envelope at the front of pending_                               *)

Available == Len(pending) - pendingPos

\* The length in the header: the frame's, if the header is really one.
DeclaredLength ==
  LET header == SubSeq(pending, pendingPos + 1, pendingPos + HeaderSize)
      f == header[1].of
  IN IF header = SubSeq(Envelope(f), 1, HeaderSize) THEN PayloadSize[f] ELSE 0

HasEnvelope ==
  /\ Available >= HeaderSize
  /\ Available >= HeaderSize + DeclaredLength

\* The frame whose payload it is; anything but a payload does not parse.
PayloadOf ==
  LET first == pendingPos + HeaderSize + 1
      bytes == SubSeq(pending, first, first + DeclaredLength - 1)
      f == pending[pendingPos + 1].of
  IN IF bytes = SubSeq(Envelope(f), HeaderSize + 1, EnvelopeSize(f))
     THEN f ELSE None

\* Mutant: the buffer is emptied, whatever follows the envelope.
ConsumesAll(n) ==
  IF pendingPos + n > PendingLimit
  THEN pending' = <<>> /\ pendingPos' = 0
  ELSE pendingPos' = pendingPos + n /\ UNCHANGED pending

\* pending_pos_ += 5 + length, and the consumed prefix goes when it is long.
Consumes(n) ==
  IF pendingPos + n > PendingLimit
  THEN pending' = After(pending, pendingPos + n) /\ pendingPos' = 0
  ELSE pendingPos' = pendingPos + n /\ UNCHANGED pending

ReadsEvent ==
  /\ at = "reading" /\ HasEnvelope /\ PayloadOf \in Events
  /\ result' = [kind |-> "event", frame |-> PayloadOf]
  /\ Consumes(HeaderSize + DeclaredLength)
  /\ UNCHANGED <<at, bodyVars, wire, sendVars>>

\* The end-of-stream envelope, or a payload that does not parse.
ReadsEnding ==
  /\ at = "reading" /\ HasEnvelope /\ PayloadOf \notin Events
  /\ ReadReturnsEnded
  /\ Consumes(HeaderSize + DeclaredLength)
  /\ UNCHANGED <<bodyVars, wire, sendVars>>

-----------------------------------------------------------------------------
(* ReadBody, chunked, into pending_                                          *)

InBody == at = "reading" /\ ~HasEnvelope

Buffered == After(buf, bufPos)

\* A whole line is buffered: ReadLine returns 1.
HasLine == \E i \in 1 .. Len(Buffered) : Buffered[i] = LineEnd

\* What ReadBody needs next is not in buf_: Fill is called.
Fills == InBody /\ ~bodyDone /\ IF needSize THEN ~HasLine ELSE Buffered = <<>>

\* The blank line that ends a chunk's data.
SkipsBlankLine ==
  /\ InBody /\ needSize /\ HasLine /\ Head(Buffered) = LineEnd
  /\ bufPos' = bufPos + 1
  /\ result' = Returned("none")
  /\ UNCHANGED <<at, readVars, buf, needSize, remaining, bodyDone,
                 wire, sendVars>>

ChunkStarts(k) == remaining' = k /\ needSize' = FALSE

ReadsSizeLine ==
  /\ InBody /\ needSize /\ HasLine /\ Head(Buffered).n > 0
  /\ bufPos' = bufPos + 2
  /\ ChunkStarts(Head(Buffered).n)
  /\ result' = Returned("none")
  /\ UNCHANGED <<at, readVars, buf, bodyDone, wire, sendVars>>

\* The chunk of size 0: ReadBody and Read return -1.
ReadsLastChunk ==
  /\ InBody /\ needSize /\ HasLine
  /\ Head(Buffered) = ChunkSize(0)
  /\ bufPos' = bufPos + 2
  /\ bodyDone' = TRUE
  /\ ReadReturnsEnded
  /\ UNCHANGED <<readVars, buf, needSize, remaining, wire, sendVars>>

\* Mutant: bytes beyond the chunk are taken for data.
TakesAll == Len(Buffered)

Takes == IF Len(Buffered) < remaining THEN Len(Buffered) ELSE remaining

ReadsChunkData ==
  /\ InBody /\ ~needSize /\ Buffered # <<>>
  /\ pending' = pending \o SubSeq(Buffered, 1, Takes)
  /\ bufPos' = bufPos + Takes
  /\ remaining' = remaining - Takes
  /\ needSize' = (remaining - Takes <= 0)
  /\ result' = Returned("none")
  /\ UNCHANGED <<at, pendingPos, buf, bodyDone, wire, sendVars>>

\* Mutant: the consumed prefix is never worth the copy.
ReclaimsNever == FALSE

\* Fill reclaims the consumed prefix first, once it is long.
Reclaims == bufPos > BufLimit

BufKept    == IF Reclaims THEN After(buf, bufPos) ELSE buf
BufPosKept == IF Reclaims THEN 0 ELSE bufPos

\* Fill: Recv returns some of what is on the wire.
Receives ==
  /\ Fills /\ wire # <<>>
  /\ \E k \in 1 .. RecvSize :
       /\ k <= Len(wire)
       /\ buf' = BufKept \o SubSeq(wire, 1, k)
       /\ wire' = After(wire, k)
  /\ bufPos' = BufPosKept
  /\ result' = Returned("none")
  /\ UNCHANGED <<at, readVars, needSize, remaining, bodyDone,
                 sendVars>>

\* Recv times out: ReadBody and Read return 0 and keep what they have.
TimesOut ==
  /\ Fills /\ wire = <<>> /\ up
  /\ result' = Returned("timeout")
  /\ buf' = BufKept
  /\ bufPos' = BufPosKept
  /\ UNCHANGED <<at, readVars, needSize, remaining, bodyDone, wire, sendVars>>

\* Recv returns -1 once nothing more can come.
ReadFails ==
  /\ Fills /\ wire = <<>> /\ ~up
  /\ ReadReturnsEnded
  /\ UNCHANGED <<readVars, bodyVars, wire, sendVars>>

-----------------------------------------------------------------------------
(* The audio server and the network                                          *)

ServerPublishes(f) ==
  /\ at = "reading" /\ up /\ ~finished
  /\ Len(Unread) < MaxFeed
  /\ unsent' = unsent \o Envelope(f)
  /\ UNCHANGED <<at, result, readVars, bodyVars, wire, up, finished>>

\* A chunk of any size, up to all there is.
ServerSendsChunk ==
  /\ up /\ Len(wire) <= MaxWire
  /\ \E k \in 1 .. Len(unsent) :
       /\ wire' = wire \o <<ChunkSize(k), LineEnd>>
                       \o SubSeq(unsent, 1, k) \o <<LineEnd>>
       /\ unsent' = After(unsent, k)
  /\ UNCHANGED <<at, result, readVars, bodyVars, up, finished>>

\* The handler returns: the body ends.
ServerFinishes ==
  /\ up /\ ~finished /\ unsent = <<>> /\ Len(wire) <= MaxWire
  /\ finished' = TRUE
  /\ wire' = wire \o <<ChunkSize(0), LineEnd, LineEnd>>
  /\ UNCHANGED <<at, result, readVars, bodyVars, unsent, up>>

\* A restart, a reset, a FIN, or Interrupt from the main thread: some of what
\* is under way never arrives.
ConnectionBreaks ==
  /\ up
  /\ up' = FALSE /\ unsent' = <<>>
  /\ \E n \in 0 .. Len(wire) : wire' = SubSeq(wire, 1, n)
  /\ UNCHANGED <<at, result, readVars, bodyVars, finished>>

-----------------------------------------------------------------------------
ReadSteps ==
  \/ ReadsEvent \/ ReadsEnding
  \/ SkipsBlankLine \/ ReadsSizeLine \/ ReadsLastChunk \/ ReadsChunkData
  \/ Receives \/ ReadFails

Next ==
  \/ Opens \/ OpenFails \/ Closes \/ ReadSteps \/ TimesOut
  \/ \E f \in Frames : ServerPublishes(f)
  \/ ServerSendsChunk \/ ServerFinishes \/ ConnectionBreaks

Spec == Init /\ [][Next]_vars

\* The stream thread runs; the server writes what it has.
FairSpec == Spec /\ WF_vars(ReadSteps) /\ WF_vars(ServerSendsChunk)

-----------------------------------------------------------------------------
(* Properties                                                                *)

\* Type correctness, and both read positions stay inside their buffers.
TypeOK ==
  /\ at \in {"closed", "reading", "ended"}
  /\ result \in [kind : {"event"}, frame : Events]
                  \cup [kind : {"none", "timeout", "ended"}, frame : {None}]
  /\ pending \in Seq(Symbols) /\ pendingPos \in 0 .. Len(pending)
  /\ buf \in Seq(Symbols) /\ bufPos \in 0 .. Len(buf)
  /\ needSize \in BOOLEAN /\ remaining \in Nat /\ bodyDone \in BOOLEAN
  /\ wire \in Seq(Symbols) /\ unsent \in Seq(Symbols)
  /\ up \in BOOLEAN /\ finished \in BOOLEAN

Feed == INSTANCE EventFeed WITH feed <- Unread, live <- (at = "reading")

\* However the server cuts its envelopes into chunks and the network the
\* chunks into reads, and wherever timeouts and compactions fall, StreamLoop
\* reads the frames that arrived, each once, in order and whole, and nothing
\* of an earlier subscription; and as long as there are any, it goes on.
ReadsTheFeed == Feed!FairSpec

\* A long-lived stream does not grow its buffers without bound: beyond the
\* consumed prefix that is tolerated, buf_ holds an incomplete line and one
\* Recv, and pending_ an incomplete envelope and what was in buf_.
BuffersAreReclaimed ==
  /\ Len(buf) <= BufLimit + RecvSize + 1
  /\ \E f \in Frames :
       Len(pending) <= PendingLimit + EnvelopeSize(f) + RecvSize
=============================================================================
