----------------------- MODULE StreamingDecoderProofs ------------------------
(* Proofs about StreamingDecoder, and HttpRangeStream under it, for any      *)
(* representations of the resource, prefetch, read sizes, number of attempts,  *)
(* packets, delay and padding.                                               *)
EXTENDS StreamingDecoder, FiniteSetTheorems, TLAPS

-----------------------------------------------------------------------------
(* The inductive invariant: the source.                                    *)

Bytes == [at : Nat, version : Versions]
Purposes == {"none", "probe", "initial", "read", "download"}
Stages == {"idle", "check", "send", "sent", "body"}
Replies == {"none", "opened", "bytes", "eof", "sought", "cancelled", "error"}
Opened == {"ready", "memory"}

SourceType ==
  /\ origin \in Versions /\ cancelled \in BOOLEAN /\ sentLate \in Nat
  /\ stream \in [phase : {"closed", "opening", "failed"} \cup Opened, position : Nat,
                 length : Nat, start : Nat, buffer : Seq(Bytes)]
RequestType ==
  request \in [purpose : Purposes, stage : Stages, start : Nat, len : Nat,
               total : Nat \cup {Unknown}, want : Nat, attempt : Nat, version : Versions]
ReplyType == reply \in [kind : Replies, at : Nat, bytes : Seq(Bytes)]
HttpTypeOK == SourceType /\ RequestType /\ ReplyType

\* What is buffered is the resource from `start` on, of a version of the length opened.
Holds(s) ==
  /\ \A i \in 1 .. Len(s.buffer) :
       s.buffer[i].at = s.start + i - 1 /\ LengthOf[s.buffer[i].version] = s.length
  /\ s.start + Len(s.buffer) <= s.length
BufferInv ==
  /\ Holds(stream)
  /\ stream.phase \in Opened => stream.position <= stream.length
  /\ stream.phase \notin Opened => stream.start = 0 /\ stream.position = 0
  /\ stream.phase = "memory" => stream.start = 0 /\ Len(stream.buffer) = stream.length

\* What is asked for, and what an answer that is arriving is of.
RequestInv ==
  /\ Idle <=> request.stage = "idle"
  /\ request.purpose \in {"probe", "initial", "download"} => stream.phase = "opening"
  /\ request.purpose = "probe" =>
       request.start = 0 /\ request.len = 1 /\ request.total = Unknown
  /\ request.purpose = "initial" =>
       /\ request.start = 0 /\ request.total \in Nat
       /\ request.len = Least(Prefetch, request.total)
  /\ request.purpose = "read" =>
       /\ stream.phase = "ready" /\ stream.position < stream.length
       /\ request.start = stream.position /\ request.total = stream.length
       /\ request.len \in 1 .. stream.length - stream.position
       /\ request.want > 0
  /\ request.stage = "body" /\ request.purpose \in {"initial", "read"} =>
       LengthOf[request.version] = request.total

\* A reply with bytes or the end of file ends a call on an open source.
WaitInv ==
  reply.kind \in {"bytes", "eof"} =>
    /\ Idle /\ stream.phase \in Opened
    /\ reply.kind = "eof" => stream.position >= stream.length

\* What was returned is what the position holds.
FaithInv ==
  /\ reply.kind = "bytes" =>
       /\ reply.bytes # <<>>
       /\ \A i \in DOMAIN reply.bytes :
            /\ reply.bytes[i].at = reply.at + i - 1
            /\ LengthOf[reply.bytes[i].version] = stream.length
  /\ reply.kind = "eof" => reply.at >= stream.length

\* Whatever the token stops has been sent, or is about to be.
TokenInv ==
  /\ ~cancelled => sentLate = 0
  /\ sentLate <= 1 /\ (request.stage = "send" => sentLate = 0)

SourceInv ==
  HttpTypeOK /\ BufferInv /\ RequestInv /\ WaitInv /\ FaithInv /\ TokenInv

-----------------------------------------------------------------------------
(* The inductive invariant: the decoder.                                   *)

Active == {"ready", "looping", "reading"}
Outcomes == {"none", "opened", "audio", "end", "sought", "cancelled", "error"}

DecoderType ==
  /\ owner \in {"native", "track"}
  /\ decoder \in [phase : {"closed", "opening", "probing", "failed"} \cup Active,
                  output : Nat, finished : BOOLEAN, atStart : BOOLEAN]
  /\ reader \in [next : Nat, held : Nat]
  /\ outcome \in Outcomes
  /\ base \in Nat /\ sought \in BOOLEAN /\ lost \in BOOLEAN /\ playedLate \in Nat

\* How far the decoder is determines how far the source is.
PhaseInv ==
  /\ decoder.phase = "closed" => stream.phase = "closed" /\ Idle
  /\ decoder.phase = "opening" /\ Idle /\ reply.kind = "opened" => stream.phase \in Opened
  /\ decoder.phase \in Active \cup {"probing"} => stream.phase \in Opened
  /\ request.purpose = "read" => decoder.phase \in {"probing", "reading"} /\ reader.held = 0
  /\ decoder.phase \notin Active \cup {"failed"} =>
       /\ decoder.output = 0 /\ ~decoder.finished /\ ~decoder.atStart
       /\ reader.next = 0 /\ outcome # "end"
       /\ heard = {} /\ base = 0 /\ ~sought /\ ~lost

\* A reply with bytes or the end of file waits for its reader, who has nothing else.
ReplyInv ==
  reply.kind \in {"bytes", "eof"} => reader.held = 0 /\ decoder.phase \in {"probing", "reading"}

\* Every byte the source has given out is a packet read or held.
PositionInv ==
  stream.position = reader.next + reader.held
                      + IF reply.kind = "bytes" THEN Len(reply.bytes) ELSE 0

\* An open source is as long as some representation of the resource.
LengthInv ==
  stream.phase \in Opened => \E v \in Versions : stream.length = LengthOf[v]

\* The cursor and what has been heard of a programme that ends at frame `e`, from the
\* frame `n` that is next on.
Programme(s, b, e) == {f \in (IF s THEN 0 ELSE Delay)..e - 1 : f >= b}
Trimmed(o, n, e, b, s, out, fresh, h, done) ==
  /\ b <= n /\ (~s => b = 0)
  /\ out = IF o = "track" THEN Least(n, Most(b, e)) ELSE Most(Least(n, Most(b, e)) - Delay, 0)
  /\ fresh => o = "track" /\ ~s /\ n <= Delay
  /\ o = "track" /\ ~fresh /\ ~s => n >= Delay
  /\ o = "track" \/ b >= Delay \/ ~s => h = {f \in Programme(s, b, e) : f < n}
  /\ done => n >= e
TrimInv ==
  decoder.phase \in Active /\ ~lost =>
    Trimmed(owner, FrameOf(reader.next), ProgrammeEnd, base, sought, decoder.output,
            decoder.atStart, heard, decoder.finished \/ outcome = "end")

LateInv ==
  /\ ~cancelled => playedLate = 0
  /\ playedLate <= 1 /\ (playedLate = 1 => decoder.phase # "reading")

StreamingIInv ==
  SourceInv /\ DecoderType /\ PhaseInv /\ ReplyInv /\ PositionInv /\ LateInv

\* The encoder's delay and padding lie within every representation of the resource.
RegionsFit == \A v \in Versions : Delay + Padding <= FrameOf(LengthOf[v])

-----------------------------------------------------------------------------
(* The source: what a read returns.                                        *)

Streams == [phase : {"closed", "opening", "failed"} \cup Opened, position : Nat,
            length : Nat, start : Nat, buffer : Seq(Bytes)]
Requests == [purpose : Purposes, stage : Stages, start : Nat, len : Nat,
             total : Nat \cup {Unknown}, want : Nat, attempt : Nat, version : Versions]
ReplyRecords == [kind : Replies, at : Nat, bytes : Seq(Bytes)]

\* The type invariant of the source, in its three records.
LEMMA Types ==
  HttpTypeOK <=> /\ origin \in Versions /\ cancelled \in BOOLEAN /\ sentLate \in Nat
                 /\ stream \in Streams /\ request \in Requests /\ reply \in ReplyRecords
  BY DEF HttpTypeOK, SourceType, RequestType, ReplyType, Streams, Requests, ReplyRecords

\* The lesser and the greater of two numbers.
LEMMA LeastMost ==
  \A a, b \in Int : /\ Least(a, b) \in {a, b} /\ Least(a, b) <= a /\ Least(a, b) <= b
                    /\ Most(a, b) \in {a, b} /\ Most(a, b) >= a /\ Most(a, b) >= b
  BY DEF Least, Most

\* A position within the buffer is served with at least a byte, from there on.
LEMMA ServedIs ==
  ASSUME NEW s \in Streams, Holds(s), NEW n \in Nat \ {0},
         s.start <= s.position, s.position < s.start + Len(s.buffer)
  PROVE  /\ Served(s, n) \in Seq(Bytes) /\ Len(Served(s, n)) > 0
         /\ s.position + Len(Served(s, n)) <= s.length
         /\ \A i \in 1 .. Len(Served(s, n)) :
              /\ Served(s, n)[i].at = s.position + i - 1
              /\ LengthOf[Served(s, n)[i].version] = s.length
<1> DEFINE offset == s.position - s.start
           count == Least(n, Len(s.buffer) - offset)
<1>1. /\ s.position \in Nat /\ s.start \in Nat /\ s.length \in Nat
      /\ s.buffer \in Seq(Bytes) /\ Len(s.buffer) \in Nat
  BY DEF Streams
<1>2. /\ offset \in Nat /\ count \in Nat /\ count > 0
      /\ offset + count <= Len(s.buffer)
      /\ s.position = s.start + offset
  BY <1>1 DEF Least
<1>3. Served(s, n) = SubSeq(s.buffer, offset + 1, offset + count)
  BY DEF Served
<1> HIDE DEF offset, count
<1>4. \A i \in 1 .. count : offset + i \in 1 .. Len(s.buffer)
  BY <1>1, <1>2
<1>5. /\ Served(s, n) \in Seq(Bytes) /\ Len(Served(s, n)) = count
      /\ \A i \in 1 .. count : Served(s, n)[i] = s.buffer[offset + i]
  <2>1. Served(s, n) = [i \in 1 .. count |-> s.buffer[offset + i]]
    BY <1>1, <1>2, <1>3
  <2>2. \A i \in 1 .. count : s.buffer[offset + i] \in Bytes
    BY <1>1, <1>4
  <2> QED BY <1>2, <2>1, <2>2
<1>6. ASSUME NEW i \in 1 .. count
      PROVE  /\ Served(s, n)[i].at = s.position + i - 1
             /\ LengthOf[Served(s, n)[i].version] = s.length
  <2>1. /\ s.buffer[offset + i].at = s.start + (offset + i) - 1
        /\ LengthOf[s.buffer[offset + i].version] = s.length
    BY <1>4 DEF Holds
  <2>2. s.start + (offset + i) - 1 = s.position + i - 1
    BY <1>1, <1>2
  <2> QED BY <1>5, <2>1, <2>2
<1>7. s.position + count <= s.length
  BY <1>1, <1>2 DEF Holds
<1> QED BY <1>2, <1>5, <1>6, <1>7

\* A whole body is the range asked for, of the version that answered.
LEMMA BytesOfIs ==
  ASSUME NEW v \in Versions, NEW start \in Nat, NEW len \in Nat
  PROVE  /\ BytesOf(v, start, len) \in Seq(Bytes) /\ Len(BytesOf(v, start, len)) = len
         /\ \A i \in 1 .. len : /\ BytesOf(v, start, len)[i].at = start + i - 1
                                /\ BytesOf(v, start, len)[i].version = v
<1>1. \A i \in 1 .. len : [at |-> start + i - 1, version |-> v] \in Bytes
  BY DEF Bytes
<1> QED BY <1>1 DEF BytesOf

-----------------------------------------------------------------------------
(* The source: every step keeps its invariant.                             *)

\* Answers and requests that are nothing or fresh are of their types.
LEMMA Records ==
  ASSUME HttpTypeOK
  PROVE  /\ NoRequest \in Requests /\ NoRequest.purpose = "none" /\ NoRequest.stage = "idle"
         /\ NoReply \in ReplyRecords /\ NoReply.kind = "none"
         /\ \A kind \in Replies :
              /\ Answer(kind) \in ReplyRecords /\ Answer(kind).kind = kind
              /\ Answer(kind).at = stream.position
<1>1. (CHOOSE v \in Versions : TRUE) \in Versions
  BY DEF HttpTypeOK, SourceType
<1>2. /\ NoRequest \in Requests /\ NoRequest.purpose = "none" /\ NoRequest.stage = "idle"
  BY <1>1 DEF NoRequest, Requests, Purposes, Stages, Unknown
<1>3. NoReply \in ReplyRecords /\ NoReply.kind = "none"
  BY DEF NoReply, ReplyRecords, Replies
<1>4. stream.position \in Nat
  BY DEF HttpTypeOK, SourceType
<1>5. \A kind \in Replies :
        /\ Answer(kind) \in ReplyRecords /\ Answer(kind).kind = kind
        /\ Answer(kind).at = stream.position
  BY <1>3, <1>4 DEF Answer, ReplyRecords
<1> QED BY <1>2, <1>3, <1>5

\* A step that changes nothing but the reply, and returns neither bytes nor the end.
LEMMA OnlyReplies ==
  ASSUME SourceInv, UNCHANGED <<origin, cancelled, stream, request, sentLate>>,
         reply' \in ReplyRecords, reply'.kind \notin {"bytes", "eof"}
  PROVE  SourceInv'
<1>1. HttpTypeOK'
  BY DEF SourceInv, HttpTypeOK, SourceType, RequestType, ReplyType, ReplyRecords
<1>2. BufferInv' /\ RequestInv'
  BY DEF SourceInv, BufferInv, Holds, RequestInv, Idle
<1>3. WaitInv' /\ FaithInv' /\ TokenInv'
  BY DEF SourceInv, WaitInv, FaithInv, TokenInv
<1> QED BY <1>1, <1>2, <1>3 DEF SourceInv

\* A step that only moves the request on.
LEMMA OnlyRequests ==
  ASSUME SourceInv, UNCHANGED <<origin, cancelled, stream, reply, sentLate>>,
         request' \in Requests, RequestInv',
         request'.stage = "send" => ~cancelled, ~Idle
  PROVE  SourceInv'
<1>1. HttpTypeOK'
  BY DEF SourceInv, HttpTypeOK, SourceType, RequestType, ReplyType, Requests
<1>2. BufferInv'
  BY DEF SourceInv, BufferInv, Holds
<1>3. WaitInv' /\ FaithInv' /\ TokenInv'
  BY DEF SourceInv, WaitInv, FaithInv, TokenInv
<1> QED BY <1>1, <1>2, <1>3 DEF SourceInv

\* A request that is given up leaves the source sound where it was.
LEMMA GivesUp ==
  ASSUME SourceInv, ~Idle, NEW kind, GiveUp(kind),
         UNCHANGED <<origin, cancelled, sentLate>>
  PROVE  /\ SourceInv'
         /\ reply'.kind \notin {"bytes", "eof"}
         /\ stream'.position = stream.position /\ stream'.length = stream.length
         /\ stream'.phase # stream.phase => stream.phase = "opening" /\ stream'.phase = "failed"
         /\ request'.purpose # "read"
         /\ request'.purpose # "none" => reply' = reply
         /\ request'.purpose = "none" => reply'.kind \in {"cancelled", "error"}
<1> USE DEF SourceInv
<1>1. /\ request.purpose \in {"probe", "initial", "read", "download"}
      /\ reply.kind \notin {"bytes", "eof"}
  BY DEF Idle, WaitInv, HttpTypeOK, RequestType, Purposes
<1>2. CASE /\ request' = Ask("download", 0, 0, Unknown) /\ UNCHANGED <<stream, reply>>
           /\ request.purpose \in {"probe", "initial"}
  <2>1. /\ request' \in Requests /\ request'.purpose = "download" /\ request'.stage = "check"
    <3>1. "download" \in Purposes /\ 0 \in Nat /\ Unknown \in Nat \cup {Unknown}
      BY DEF Purposes
    <3>2. HttpTypeOK
      OBVIOUS
    <3>3. /\ Ask("download", 0, 0, Unknown) \in Requests
          /\ Ask("download", 0, 0, Unknown).purpose = "download"
          /\ Ask("download", 0, 0, Unknown).stage = "check"
      BY <3>2, Records DEF Ask, Requests, Stages, Purposes
    <3> QED BY <1>2, <3>3
  <2>2. RequestInv'
    BY <1>2, <2>1 DEF RequestInv, Idle
  <2>3. SourceInv'
    BY <1>2, <2>1, <2>2, OnlyRequests
  <2> QED BY <1>1, <1>2, <2>1, <2>3
<1>3. CASE /\ request' = NoRequest
           /\ reply' = Answer(IF kind = "cancelled" THEN kind ELSE "error")
           /\ stream' = IF request.purpose = "read" THEN stream
                        ELSE [stream EXCEPT !.phase = "failed"]
  <2>1. /\ request' \in Requests /\ request'.purpose = "none" /\ request'.stage = "idle"
        /\ reply' \in ReplyRecords /\ reply'.kind \in {"cancelled", "error"}
    <3>1. "cancelled" \in Replies /\ "error" \in Replies
      BY DEF Replies
    <3> QED BY <1>3, <3>1, Records
  <2>2. stream \in Streams
    BY Types
  <2>3. /\ stream' \in Streams
        /\ stream'.position = stream.position /\ stream'.length = stream.length
        /\ stream'.start = stream.start /\ stream'.buffer = stream.buffer
    BY <1>3, <2>2 DEF Streams
  <2>4. stream'.phase # stream.phase => stream.phase = "opening" /\ stream'.phase = "failed"
    BY <1>1, <1>3, <2>2 DEF RequestInv, Streams
  <2>5. HttpTypeOK'
    BY <2>1, <2>3 DEF HttpTypeOK, SourceType, RequestType, ReplyType, Streams, Requests, ReplyRecords
  <2>6. BufferInv'
    BY <2>3, <2>4 DEF BufferInv, Holds, Opened
  <2>7. RequestInv'
    BY <2>1 DEF RequestInv, Idle
  <2>8. WaitInv' /\ FaithInv' /\ TokenInv'
    BY <2>1 DEF WaitInv, FaithInv, TokenInv
  <2> QED BY <2>1, <2>3, <2>4, <2>5, <2>6, <2>7, <2>8
<1> QED BY <1>2, <1>3 DEF GiveUp

\* Opening probes the origin, or fails before it asks.
LEMMA SourceOpens ==
  ASSUME SourceInv, OpenSource
  PROVE  /\ SourceInv'
         /\ stream.phase = "closed" /\ stream'.position = stream.position
         /\ stream'.phase \in {"opening", "failed"} /\ request'.purpose # "read"
         /\ reply'.kind = "cancelled" \/ ~Idle'
         /\ reply'.kind \notin {"bytes", "eof"}
<1> USE DEF SourceInv
<1>1. stream \in Streams /\ Idle /\ stream.phase = "closed"
  BY Types DEF OpenSource
<1>2. CASE cancelled
  <2>1. reply' \in ReplyRecords /\ reply'.kind = "cancelled"
    <3>1. "cancelled" \in Replies
      BY DEF Replies
    <3> QED BY <1>2, <3>1, Records DEF OpenSource
  <2>2. /\ stream' \in Streams /\ stream'.position = stream.position
        /\ stream'.start = stream.start /\ stream'.buffer = stream.buffer
        /\ stream'.length = stream.length /\ stream'.phase = "failed"
    BY <1>1, <1>2 DEF OpenSource, Streams
  <2>3. HttpTypeOK'
    BY <1>2, <2>1, <2>2 DEF OpenSource, HttpTypeOK, SourceType, RequestType, ReplyType, Streams, ReplyRecords
  <2>4. BufferInv'
    BY <1>1, <2>2 DEF BufferInv, Holds, Opened
  <2>5. RequestInv' /\ request'.purpose = "none"
    BY <1>1, <1>2 DEF OpenSource, RequestInv, Idle
  <2>6. WaitInv' /\ FaithInv' /\ TokenInv'
    BY <1>2, <2>1 DEF OpenSource, WaitInv, FaithInv, TokenInv
  <2> QED BY <1>1, <2>1, <2>2, <2>3, <2>4, <2>5, <2>6
<1>3. CASE ~cancelled
  <2>1. /\ request' \in Requests /\ request'.purpose = "probe" /\ request'.stage = "check"
        /\ request'.start = 0 /\ request'.len = 1 /\ request'.total = Unknown
    <3>1. "probe" \in Purposes /\ 0 \in Nat /\ 1 \in Nat /\ Unknown \in Nat \cup {Unknown}
      BY DEF Purposes
    <3>2. request' = Ask("probe", 0, 1, Unknown)
      BY <1>3 DEF OpenSource
    <3> QED BY <3>2, Records DEF Ask, Requests, Stages, Purposes
  <2>2. /\ stream' \in Streams /\ stream'.position = stream.position
        /\ stream'.start = stream.start /\ stream'.buffer = stream.buffer
        /\ stream'.length = stream.length /\ stream'.phase = "opening"
    BY <1>1, <1>3 DEF OpenSource, Streams
  <2>3. reply' = reply /\ reply.kind \notin {"bytes", "eof"}
    BY <1>1, <1>3 DEF OpenSource, WaitInv, Opened
  <2>4. HttpTypeOK'
    BY <1>3, <2>1, <2>2, <2>3 DEF OpenSource, HttpTypeOK, SourceType, RequestType, ReplyType, Streams, Requests
  <2>5. BufferInv'
    BY <1>1, <2>2 DEF BufferInv, Holds, Opened
  <2>6. RequestInv' /\ ~Idle'
    BY <2>1, <2>2 DEF RequestInv, Idle
  <2>7. WaitInv' /\ FaithInv' /\ TokenInv'
    BY <1>3, <2>1, <2>3 DEF OpenSource, WaitInv, FaithInv, TokenInv
  <2> QED BY <1>1, <2>1, <2>2, <2>3, <2>4, <2>5, <2>6, <2>7
<1> QED BY <1>2, <1>3

\* A call that is served returns bytes, and the position moves past them.
LEMMA Serves ==
  ASSUME SourceInv, NEW s \in Streams, Holds(s), NEW n \in Nat \ {0},
         s.start <= s.position, s.position < s.start + Len(s.buffer),
         s.phase \in Opened, s.phase = "memory" => s.start = 0 /\ Len(s.buffer) = s.length,
         Serve(s, n), UNCHANGED <<origin, cancelled, sentLate>>,
         request' \in Requests, request'.purpose = "none", request'.stage = "idle"
  PROVE  /\ SourceInv' /\ reply'.kind = "bytes"
         /\ stream'.phase = s.phase /\ stream'.length = s.length
         /\ stream'.position = s.position + Len(reply'.bytes)
<1> DEFINE bytes == Served(s, n)
<1>1. /\ bytes \in Seq(Bytes) /\ Len(bytes) > 0 /\ s.position + Len(bytes) <= s.length
      /\ \A i \in 1 .. Len(bytes) :
           bytes[i].at = s.position + i - 1 /\ LengthOf[bytes[i].version] = s.length
  BY ServedIs
<1>2. /\ reply' = [kind |-> IF bytes = <<>> THEN "eof" ELSE "bytes", at |-> s.position, bytes |-> bytes]
      /\ stream' = [s EXCEPT !.position = s.position + Len(bytes)]
  BY DEF Serve
<1> HIDE DEF bytes
<1>3. bytes # <<>> /\ s.position \in Nat /\ Len(bytes) \in Nat
  BY <1>1 DEF Streams
<1>4. /\ reply' \in ReplyRecords /\ reply'.kind = "bytes" /\ reply'.at = s.position
      /\ reply'.bytes = bytes
  BY <1>1, <1>2, <1>3 DEF ReplyRecords, Replies
<1>5. /\ stream' \in Streams /\ stream'.phase = s.phase /\ stream'.length = s.length
      /\ stream'.start = s.start /\ stream'.buffer = s.buffer
      /\ stream'.position = s.position + Len(bytes)
  BY <1>2, <1>3 DEF Streams
<1>6. HttpTypeOK'
  BY <1>4, <1>5 DEF SourceInv, HttpTypeOK, SourceType, RequestType, ReplyType, Streams, Requests, ReplyRecords
<1>7. BufferInv'
  <2>1. Holds(stream)'
    BY <1>5 DEF Holds
  <2> QED BY <1>1, <1>5, <2>1 DEF BufferInv
<1>8. RequestInv'
  BY DEF RequestInv, Idle
<1>9. WaitInv'
  BY <1>4, <1>5 DEF WaitInv, Idle
<1>10. FaithInv'
  BY <1>1, <1>3, <1>4, <1>5 DEF FaithInv
<1>11. TokenInv'
  BY DEF SourceInv, TokenInv
<1> QED BY <1>4, <1>5, <1>6, <1>7, <1>8, <1>9, <1>10, <1>11 DEF SourceInv

\* A read, whatever it does.
LEMMA SourceReads ==
  ASSUME SourceInv, reply.kind \notin {"bytes", "eof"},
         NEW n \in ReadSizes, Read(n) \/ ReadMemory(n)
  PROVE  /\ SourceInv'
         /\ stream.phase \in Opened /\ stream'.phase = stream.phase
         /\ stream'.length = stream.length
         /\ stream'.position
              = stream.position + IF reply'.kind = "bytes" THEN Len(reply'.bytes) ELSE 0
<1> USE DEF SourceInv
<1>1. n \in Nat \ {0}
  BY HttpAssumption
<1>2. /\ stream \in Streams /\ stream.position \in Nat /\ stream.start \in Nat
      /\ stream.length \in Nat /\ Len(stream.buffer) \in Nat
      /\ stream.phase \in Opened /\ Idle
  <2>1. stream \in Streams
    BY Types
  <2> QED BY <2>1 DEF Streams, Read, ReadMemory, Opened
<1>3. request \in Requests /\ request.purpose = "none" /\ request.stage = "idle"
  BY <1>2, Types DEF RequestInv, Idle
<1>4. "cancelled" \in Replies /\ "eof" \in Replies
  BY DEF Replies
<1>5. CASE reply' = Answer("cancelled") /\ UNCHANGED <<stream, request>>
           /\ UNCHANGED <<origin, cancelled, sentLate>>
  <2>1. reply' \in ReplyRecords /\ reply'.kind = "cancelled"
    BY <1>4, <1>5, Records
  <2> QED BY <1>2, <1>5, <2>1, OnlyReplies
<1>6. CASE /\ stream.position >= stream.length
           /\ reply' = Answer("eof") /\ UNCHANGED <<stream, request>>
           /\ UNCHANGED <<origin, cancelled, sentLate>>
  <2>1. reply' \in ReplyRecords /\ reply'.kind = "eof" /\ reply'.at = stream.position
    BY <1>4, <1>6, Records
  <2>2. HttpTypeOK'
    BY <1>6, <2>1 DEF HttpTypeOK, SourceType, RequestType, ReplyType, ReplyRecords
  <2>3. BufferInv' /\ RequestInv'
    BY <1>6 DEF BufferInv, Holds, RequestInv, Idle
  <2>4. WaitInv' /\ FaithInv' /\ TokenInv'
    BY <1>2, <1>6, <2>1 DEF WaitInv, FaithInv, TokenInv, Idle
  <2> QED BY <1>2, <1>6, <2>1, <2>2, <2>3, <2>4
<1>7. CASE /\ stream.position < stream.length
           /\ Serve(stream, n) /\ UNCHANGED request
           /\ UNCHANGED <<origin, cancelled, sentLate>>
           /\ Buffered(n) \/ stream.phase = "memory"
  <2>1. stream.start <= stream.position /\ stream.position < stream.start + Len(stream.buffer)
    <3>1. CASE Buffered(n)
      BY <1>1, <1>2, <3>1 DEF Buffered
    <3>2. CASE stream.phase = "memory"
      BY <1>2, <1>7, <3>2 DEF BufferInv
    <3> QED BY <1>7, <3>1, <3>2
  <2>2. Holds(stream) /\ (stream.phase = "memory" => stream.start = 0 /\ Len(stream.buffer) = stream.length)
    BY DEF BufferInv
  <2>3. /\ SourceInv' /\ reply'.kind = "bytes"
        /\ stream'.phase = stream.phase /\ stream'.length = stream.length
        /\ stream'.position = stream.position + Len(reply'.bytes)
    <3>1. request' \in Requests /\ request'.purpose = "none" /\ request'.stage = "idle"
      BY <1>3, <1>7
    <3> HIDE DEF SourceInv
    <3> QED BY <1>1, <1>2, <1>7, <2>1, <2>2, <3>1, Serves
  <2> QED BY <1>2, <2>3
<1>8. CASE /\ stream.position < stream.length /\ stream.phase = "ready"
           /\ request' = AskFor(n) /\ UNCHANGED <<stream, reply>>
           /\ UNCHANGED <<origin, cancelled, sentLate>>
  <2> DEFINE len == Least(Most(n, Prefetch), stream.length - stream.position)
  <2>1. len \in 1 .. stream.length - stream.position
    BY <1>1, <1>2, <1>8, HttpAssumption DEF Least, Most
  <2>2. request' = [Ask("read", stream.position, len, stream.length) EXCEPT !.want = n]
    BY <1>8 DEF AskFor
  <2> HIDE DEF len
  <2>3. len \in Nat
    BY <1>2, <2>1
  <2>4. /\ request' \in Requests /\ request'.purpose = "read" /\ request'.stage = "check"
        /\ request'.start = stream.position /\ request'.total = stream.length
        /\ request'.len = len /\ request'.want = n
    BY <1>1, <1>2, <2>2, <2>3, Records DEF Ask, Requests, Purposes, Stages
  <2>5. HttpTypeOK'
    BY <1>8, <2>4 DEF HttpTypeOK, SourceType, RequestType, ReplyType, Requests
  <2>6. BufferInv'
    BY <1>8 DEF BufferInv, Holds
  <2>7. RequestInv'
    BY <1>1, <1>8, <2>1, <2>4 DEF RequestInv, Idle
  <2>8. WaitInv' /\ FaithInv' /\ TokenInv'
    BY <1>8, <2>4 DEF WaitInv, FaithInv, TokenInv
  <2> QED BY <1>2, <1>8, <2>5, <2>6, <2>7, <2>8
<1>9. CASE Read(n)
  <2>1. stream.position >= stream.length \/ stream.position < stream.length
    BY <1>2
  <2> QED BY <1>5, <1>6, <1>7, <1>8, <1>9, <2>1 DEF Read
<1>10. CASE ReadMemory(n)
  <2>1. stream.position >= stream.length \/ stream.position < stream.length
    BY <1>2
  <2> QED BY <1>6, <1>7, <1>10, <2>1 DEF ReadMemory
<1> QED BY <1>9, <1>10

\* A seek within the resource moves the position and asks nothing.
LEMMA SourceSeeks ==
  ASSUME SourceInv, NEW to \in 0 .. stream.length - 1, Seek(to)
  PROVE  /\ SourceInv' /\ stream.phase \in Opened /\ stream'.phase = stream.phase
         /\ stream'.length = stream.length /\ stream'.position = to
         /\ reply'.kind = "sought" /\ request' = request /\ Idle
<1> USE DEF SourceInv
<1>1. stream \in Streams /\ stream.length \in Nat /\ to \in Nat /\ to < stream.length
  <2>1. stream \in Streams
    BY Types
  <2>2. stream.length \in Nat
    BY <2>1 DEF Streams
  <2> QED BY <2>1, <2>2
<1>2. /\ stream' = [stream EXCEPT !.position = to] /\ reply' = Answer("sought")
      /\ UNCHANGED <<origin, cancelled, request, sentLate>>
      /\ stream.phase \in Opened /\ Idle
  BY <1>1 DEF Seek, Opened
<1>3. reply' \in ReplyRecords /\ reply'.kind = "sought"
  <2>1. "sought" \in Replies
    BY DEF Replies
  <2> QED BY <1>2, <2>1, Records
<1>4. /\ stream' \in Streams /\ stream'.position = to /\ stream'.phase = stream.phase
      /\ stream'.start = stream.start /\ stream'.buffer = stream.buffer
      /\ stream'.length = stream.length
  BY <1>1, <1>2 DEF Streams
<1>5. HttpTypeOK'
  BY <1>2, <1>3, <1>4 DEF HttpTypeOK, SourceType, RequestType, ReplyType, Streams, ReplyRecords
<1>6. BufferInv'
  BY <1>1, <1>2, <1>4 DEF BufferInv, Holds
<1>7. RequestInv'
  BY <1>2, <1>4 DEF RequestInv, Idle
<1>8. WaitInv' /\ FaithInv' /\ TokenInv'
  BY <1>2, <1>3 DEF WaitInv, FaithInv, TokenInv
<1> QED BY <1>2, <1>3, <1>4, <1>5, <1>6, <1>7, <1>8

\* What a step of an exchange may do to the stream and the reply.
Exchanges ==
  /\ SourceInv' /\ cancelled' = cancelled
  /\ stream.phase \in Opened => stream'.phase = stream.phase /\ stream'.length = stream.length
  /\ stream'.position
       = stream.position + IF reply'.kind = "bytes" THEN Len(reply'.bytes) ELSE 0
  /\ reply'.kind \in {"bytes", "eof"} \/ request'.purpose = "read" => request.purpose = "read"
  /\ reply'.kind = "opened" /\ Idle' => stream'.phase \in Opened
  /\ stream'.phase \in Opened =>
       stream.phase \in Opened \/ \E v \in Versions : stream'.length = LengthOf[v]

\* Giving up is an exchange with the origin that reads nothing.
LEMMA GivingUpExchanges ==
  ASSUME SourceInv, ~Idle, NEW kind, GiveUp(kind), UNCHANGED <<origin, cancelled, sentLate>>
  PROVE  Exchanges
<1>1. stream.position \in Nat
  BY Types DEF SourceInv, Streams
<1>2. request'.purpose = "none" <=> Idle'
  BY DEF Idle
<1>3. reply.kind \notin {"bytes", "eof"}
  BY DEF SourceInv, WaitInv
<1>4. /\ stream.phase \in Opened => stream.phase # "opening"
      /\ "failed" \notin Opened
  BY DEF Opened
<1> QED BY <1>1, <1>2, <1>3, <1>4, GivesUp DEF Exchanges

\* A request that moves on.
LEMMA MovingOnExchanges ==
  ASSUME SourceInv, ~Idle, UNCHANGED <<origin, cancelled, stream, reply>>,
         request' \in Requests, RequestInv', ~Idle',
         request'.purpose = "read" => request.purpose = "read",
         TokenInv', sentLate' \in Nat
  PROVE  Exchanges
<1>1. stream.position \in Nat /\ reply.kind \notin {"bytes", "eof"}
  BY Types DEF SourceInv, Streams, WaitInv
<1>2. HttpTypeOK'
  BY DEF SourceInv, HttpTypeOK, SourceType, RequestType, ReplyType, Requests
<1>3. BufferInv'
  BY DEF SourceInv, BufferInv, Holds
<1>4. WaitInv' /\ FaithInv'
  BY <1>1 DEF SourceInv, WaitInv, FaithInv
<1> QED BY <1>1, <1>2, <1>3, <1>4 DEF SourceInv, Exchanges

\* So is a check for cancellation before a request.
LEMMA CheckExchanges ==
  ASSUME SourceInv, Check PROVE Exchanges
<1> USE DEF SourceInv
<1>1. ~Idle /\ request \in Requests
  BY Types DEF Check, RequestInv
<1>2. CASE cancelled
  BY <1>1, <1>2, GivingUpExchanges DEF Check
<1>3. CASE ~cancelled
  <2>1. request' = [request EXCEPT !.stage = "send"] /\ UNCHANGED <<stream, reply>>
        /\ UNCHANGED <<origin, cancelled, sentLate>>
    BY <1>3 DEF Check
  <2>2. /\ request' \in Requests /\ request'.purpose = request.purpose
        /\ request'.stage = "send" /\ request'.start = request.start
        /\ request'.len = request.len /\ request'.total = request.total
        /\ request'.want = request.want
    BY <1>1, <2>1 DEF Requests, Stages
  <2>3. RequestInv' /\ ~Idle'
    BY <1>1, <2>1, <2>2 DEF RequestInv, Idle
  <2>4. TokenInv' /\ sentLate' \in Nat
    BY <1>3, <2>1, Types DEF TokenInv
  <2> QED BY <1>1, <2>1, <2>2, <2>3, <2>4, MovingOnExchanges
<1> QED BY <1>2, <1>3

\* So is sending the request.
LEMMA SendExchanges ==
  ASSUME SourceInv, Send PROVE Exchanges
<1> USE DEF SourceInv
<1>1. ~Idle /\ request \in Requests
  BY Types DEF Send, RequestInv
<1>2. request' = [request EXCEPT !.stage = "sent"] /\ UNCHANGED <<origin, cancelled, stream, reply>>
  BY DEF Send
<1>3. /\ request' \in Requests /\ request'.purpose = request.purpose
      /\ request'.stage = "sent" /\ request'.start = request.start
      /\ request'.len = request.len /\ request'.total = request.total
      /\ request'.want = request.want
  BY <1>1, <1>2 DEF Requests, Stages
<1>4. RequestInv' /\ ~Idle'
  BY <1>1, <1>2, <1>3 DEF RequestInv, Idle
<1>5. sentLate = 0 /\ sentLate' = IF cancelled THEN 1 ELSE 0
  BY DEF Send, TokenInv
<1>6. TokenInv' /\ sentLate' \in Nat
  BY <1>2, <1>3, <1>5 DEF TokenInv
<1> QED BY <1>1, <1>2, <1>3, <1>4, <1>6, MovingOnExchanges

\* So is a failure, retried or final.
LEMMA FailExchanges ==
  ASSUME SourceInv, ~Idle, request.stage # "send", NEW kind, NEW retried, Fail(kind, retried),
         UNCHANGED <<origin, cancelled, sentLate>>
  PROVE  Exchanges
<1> USE DEF SourceInv
<1>1. request \in Requests
  BY Types
<1>2. CASE GiveUp(kind)
  BY <1>2, GivingUpExchanges
<1>3. CASE /\ request' = [request EXCEPT !.stage = "check", !.attempt = request.attempt + 1]
           /\ UNCHANGED <<stream, reply>>
  <2>1. request.attempt + 1 \in Nat
    BY <1>1 DEF Requests
  <2>2. /\ request' \in Requests /\ request'.purpose = request.purpose
        /\ request'.stage = "check" /\ request'.start = request.start
        /\ request'.len = request.len /\ request'.total = request.total
        /\ request'.want = request.want
    BY <1>1, <1>3, <2>1 DEF Requests, Stages
  <2>3. RequestInv' /\ ~Idle'
    BY <1>1, <1>3, <2>2 DEF RequestInv, Idle
  <2>4. TokenInv' /\ sentLate' \in Nat
    BY <2>2, Types DEF TokenInv
  <2> QED BY <1>3, <2>2, <2>3, <2>4, MovingOnExchanges
<1> QED BY <1>2, <1>3 DEF Fail

\* So is an answer's status and headers, taken or refused.
LEMMA AnsweredExchanges ==
  ASSUME SourceInv, Answered PROVE Exchanges
<1> USE DEF SourceInv
<1>1. PICK kind \in {"good", "refused", "invalid", "transient", "final"} :
        /\ kind = "good" /\ request.purpose # "download" => RangeMatches
        /\ Headers(kind)
  BY DEF Answered
<1>2. ~Idle /\ request \in Requests /\ request.stage = "sent" /\ origin \in Versions
  BY <1>1, Types DEF Headers, RequestInv
<1>3. CASE kind # "good"
  BY <1>1, <1>2, <1>3, FailExchanges DEF Headers
<1>4. CASE kind = "good"
  <2>1. request' = [request EXCEPT !.stage = "body", !.version = origin]
        /\ UNCHANGED <<origin, cancelled, stream, reply, sentLate>>
    BY <1>1, <1>4 DEF Headers
  <2>2. /\ request' \in Requests /\ request'.purpose = request.purpose
        /\ request'.stage = "body" /\ request'.start = request.start
        /\ request'.len = request.len /\ request'.total = request.total
        /\ request'.want = request.want /\ request'.version = origin
    BY <1>2, <2>1 DEF Requests, Stages
  <2>3. request.purpose \in {"initial", "read"} => LengthOf[origin] = request.total
    <3>1. request.purpose \in {"initial", "read"} => request.total \in Nat
      BY <1>2, Types DEF RequestInv, Streams
    <3>2. \A n \in Nat : n # Unknown
      BY DEF Unknown
    <3> QED BY <1>1, <1>4, <3>1, <3>2 DEF RangeMatches
  <2>4. RequestInv' /\ ~Idle'
    BY <1>2, <2>1, <2>2, <2>3 DEF RequestInv, Idle
  <2>5. TokenInv' /\ sentLate' \in Nat
    BY <2>1, <2>2, Types DEF TokenInv
  <2> QED BY <1>2, <2>1, <2>2, <2>4, <2>5, MovingOnExchanges
<1> QED BY <1>3, <1>4

\* A source that opens over `body`, the start of the representation that answered.
LEMMA OpensOver ==
  ASSUME SourceInv, NEW phase \in Opened, stream.phase = "opening",
         NEW v \in Versions, NEW len \in Nat, len <= LengthOf[v],
         phase = "memory" => len = LengthOf[v],
         stream' = [stream EXCEPT !.phase = phase, !.length = LengthOf[v], !.buffer = BytesOf(v, 0, len)],
         request' = NoRequest, reply' = Answer("opened"),
         UNCHANGED <<origin, cancelled, sentLate>>
  PROVE  Exchanges
<1> USE DEF SourceInv
<1>1. stream \in Streams /\ stream.start = 0 /\ stream.position = 0
  BY Types DEF BufferInv, Opened
<1>2. LengthOf[v] \in Nat
  BY HttpAssumption
<1>3. /\ BytesOf(v, 0, len) \in Seq(Bytes) /\ Len(BytesOf(v, 0, len)) = len
      /\ \A i \in 1 .. len : /\ BytesOf(v, 0, len)[i].at = 0 + i - 1
                             /\ BytesOf(v, 0, len)[i].version = v
  BY BytesOfIs
<1>4. /\ stream' \in Streams /\ stream'.phase = phase /\ stream'.length = LengthOf[v]
      /\ stream'.buffer = BytesOf(v, 0, len) /\ stream'.start = 0 /\ stream'.position = 0
  BY <1>1, <1>2, <1>3 DEF Streams
<1>5. /\ request' \in Requests /\ request'.purpose = "none" /\ request'.stage = "idle"
      /\ reply' \in ReplyRecords /\ reply'.kind = "opened"
  <2>1. "opened" \in Replies
    BY DEF Replies
  <2> QED BY <2>1, Records
<1>6. HttpTypeOK'
  BY <1>4, <1>5 DEF HttpTypeOK, SourceType, RequestType, ReplyType, Streams, ReplyRecords, Requests
<1>7. BufferInv'
  <2>1. Holds(stream)'
    BY <1>2, <1>3, <1>4 DEF Holds
  <2> QED BY <1>2, <1>3, <1>4, <2>1 DEF BufferInv
<1>8. RequestInv' /\ WaitInv' /\ FaithInv' /\ TokenInv'
  BY <1>5 DEF RequestInv, Idle, WaitInv, FaithInv, TokenInv
<1>9. stream.phase \notin Opened
  BY DEF Opened
<1> QED BY <1>1, <1>4, <1>5, <1>6, <1>7, <1>8, <1>9 DEF Exchanges

\* A complete body is read from the position on, or opens the source.
LEMMA CompletedExchanges ==
  ASSUME SourceInv, request.stage = "body", Completed, UNCHANGED <<origin, cancelled, sentLate>>
  PROVE  Exchanges
<1> USE DEF SourceInv
<1> DEFINE v == request.version
           total == LengthOf[v]
           first == Least(Prefetch, total)
<1>1. /\ request \in Requests /\ stream \in Streams /\ ~Idle /\ v \in Versions
      /\ total \in Nat /\ total > 0 /\ Prefetch \in Nat /\ Prefetch > 0
  <2>1. request \in Requests /\ stream \in Streams
    BY Types
  <2>2. v \in Versions
    BY <2>1 DEF Requests
  <2> QED BY <2>1, <2>2, HttpAssumption DEF RequestInv
<1>2. first \in Nat /\ first > 0 /\ first <= total
  BY <1>1 DEF Least
<1>3. CASE /\ request.purpose = "probe"
           /\ request' = Ask("initial", 0, first, total) /\ UNCHANGED <<stream, reply>>
  <2>1. /\ request' \in Requests /\ request'.purpose = "initial" /\ request'.stage = "check"
        /\ request'.start = 0 /\ request'.len = first /\ request'.total = total
    BY <1>1, <1>2, <1>3, Records DEF Ask, Requests, Purposes, Stages
  <2>2. RequestInv' /\ ~Idle'
    BY <1>1, <1>3, <2>1 DEF RequestInv, Idle
  <2>3. TokenInv' /\ sentLate' \in Nat
    BY <2>1, Types DEF TokenInv
  <2> QED BY <1>1, <1>3, <2>1, <2>2, <2>3, MovingOnExchanges
<1>4. CASE /\ request.purpose = "initial" \/ (request.purpose = "probe" /\ first = 1)
           /\ stream' = [stream EXCEPT !.phase = "ready", !.length = total,
                                       !.buffer = BytesOf(v, request.start, request.len)]
           /\ request' = NoRequest /\ reply' = Answer("opened")
  <2>1. request.start = 0 /\ stream.phase = "opening"
    BY <1>4 DEF RequestInv
  <2>2. request.len \in Nat /\ request.len <= total
    <3>1. CASE request.purpose = "initial"
      BY <1>2, <3>1 DEF RequestInv
    <3>2. CASE request.purpose = "probe" /\ first = 1
      BY <1>2, <3>2 DEF RequestInv
    <3> QED BY <1>4, <3>1, <3>2
  <2>3. stream' = [stream EXCEPT !.phase = "ready", !.length = LengthOf[v],
                                 !.buffer = BytesOf(v, 0, request.len)]
    BY <1>4, <2>1
  <2>4. "ready" \in Opened /\ "ready" # "memory"
    BY DEF Opened
  <2> HIDE DEF SourceInv
  <2> QED BY <1>1, <1>4, <2>1, <2>2, <2>3, <2>4, OpensOver
<1>5. CASE /\ request.purpose = "read" /\ request' = NoRequest
           /\ Serve([stream EXCEPT !.start = stream.position,
                                   !.buffer = BytesOf(v, request.start, request.len)], request.want)
  <2> DEFINE s == [stream EXCEPT !.start = stream.position,
                                 !.buffer = BytesOf(v, request.start, request.len)]
  <2>1. /\ stream.phase = "ready" /\ request.start = stream.position
        /\ request.len \in 1 .. stream.length - stream.position
        /\ total = stream.length /\ request.want \in Nat \ {0}
        /\ stream.position \in Nat /\ stream.length \in Nat
    BY <1>1, <1>5 DEF RequestInv, Requests, Streams
  <2>2. request.len \in Nat /\ request.len > 0 /\ stream.position + request.len <= stream.length
    BY <2>1
  <2>3. /\ BytesOf(v, request.start, request.len) \in Seq(Bytes)
        /\ Len(BytesOf(v, request.start, request.len)) = request.len
        /\ \A i \in 1 .. request.len :
             /\ BytesOf(v, request.start, request.len)[i].at = request.start + i - 1
             /\ BytesOf(v, request.start, request.len)[i].version = v
    <3>1. v \in Versions /\ request.start \in Nat
      BY <1>1, <2>1
    <3>2. \A i \in 1 .. request.len : [at |-> request.start + i - 1, version |-> v] \in Bytes
      BY <3>1 DEF Bytes
    <3> QED BY <2>2, <3>2 DEF BytesOf
  <2>4. /\ s \in Streams /\ s.phase = "ready" /\ s.position = stream.position
        /\ s.start = stream.position /\ s.length = stream.length
        /\ s.buffer = BytesOf(v, request.start, request.len)
    BY <1>1, <2>1, <2>3 DEF Streams
  <2> HIDE DEF s
  <2>5. Holds(s)
    BY <2>1, <2>2, <2>3, <2>4 DEF Holds
  <2>6. s.start <= s.position /\ s.position < s.start + Len(s.buffer)
    BY <2>1, <2>2, <2>3, <2>4
  <2>7. request' \in Requests /\ request'.purpose = "none" /\ request'.stage = "idle"
    BY <1>5, Records
  <2>8. Serve(s, request.want)
    BY <1>5 DEF s
  <2>9. "ready" \in Opened /\ "ready" # "memory"
    BY DEF Opened
  <2>10. /\ SourceInv' /\ reply'.kind = "bytes"
         /\ stream'.phase = s.phase /\ stream'.length = s.length
         /\ stream'.position = s.position + Len(reply'.bytes)
    <3> HIDE DEF SourceInv
    <3> QED BY <2>1, <2>4, <2>5, <2>6, <2>7, <2>8, <2>9, Serves
  <2> QED BY <1>5, <2>1, <2>4, <2>7, <2>10 DEF Exchanges
<1>6. CASE /\ request.purpose = "download" /\ request' = NoRequest
           /\ IF total > MaxDownload
              THEN reply' = Answer("error") /\ stream' = [stream EXCEPT !.phase = "failed"]
              ELSE /\ stream' = [stream EXCEPT !.phase = "memory", !.length = total,
                                               !.buffer = BytesOf(v, 0, total)]
                   /\ reply' = Answer("opened")
  <2>1. CASE total > MaxDownload
    <3>1. GiveUp("final")
      BY <1>6, <2>1 DEF GiveUp
    <3> QED BY <1>1, <3>1, GivingUpExchanges
  <2>2. CASE ~(total > MaxDownload)
    <3>1. stream.phase = "opening" /\ "memory" \in Opened
      BY <1>6 DEF RequestInv, Opened
    <3>2. /\ stream' = [stream EXCEPT !.phase = "memory", !.length = LengthOf[v],
                                      !.buffer = BytesOf(v, 0, LengthOf[v])]
          /\ request' = NoRequest /\ reply' = Answer("opened")
      BY <1>6, <2>2
    <3>3. v \in Versions /\ LengthOf[v] \in Nat /\ LengthOf[v] <= LengthOf[v]
      BY <1>1
    <3> HIDE DEF SourceInv, v
    <3> QED BY <3>1, <3>2, <3>3, OpensOver
  <2> QED BY <2>1, <2>2
<1>7. Completed =>
        \/ /\ request.purpose = "probe"
           /\ request' = Ask("initial", 0, first, total) /\ UNCHANGED <<stream, reply>>
        \/ /\ request.purpose = "initial" \/ (request.purpose = "probe" /\ first = 1)
           /\ stream' = [stream EXCEPT !.phase = "ready", !.length = total,
                                       !.buffer = BytesOf(v, request.start, request.len)]
           /\ request' = NoRequest /\ reply' = Answer("opened")
        \/ /\ request.purpose = "read" /\ request' = NoRequest
           /\ Serve([stream EXCEPT !.start = stream.position,
                                   !.buffer = BytesOf(v, request.start, request.len)], request.want)
        \/ /\ request.purpose = "download" /\ request' = NoRequest
           /\ IF total > MaxDownload
              THEN reply' = Answer("error") /\ stream' = [stream EXCEPT !.phase = "failed"]
              ELSE /\ stream' = [stream EXCEPT !.phase = "memory", !.length = total,
                                               !.buffer = BytesOf(v, 0, total)]
                   /\ reply' = Answer("opened")
  <2>1. \A a, b : [[stream EXCEPT !.phase = "ready", !.length = total, !.buffer = a]
                     EXCEPT !.phase = "memory", !.buffer = b]
                  = [stream EXCEPT !.phase = "memory", !.length = total, !.buffer = b]
    BY <1>1 DEF Streams
  <2> QED BY <2>1 DEF Completed
<1> QED BY <1>3, <1>4, <1>5, <1>6, <1>7

\* So does every end of a body.
LEMMA BodyExchanges ==
  ASSUME SourceInv, Body PROVE Exchanges
<1>1. request.stage = "body" /\ ~Idle /\ UNCHANGED <<origin, cancelled, sentLate>>
  BY DEF Body, SourceInv, RequestInv
<1>2. CASE \E kind : GiveUp(kind)
  BY <1>1, <1>2, GivingUpExchanges
<1>3. CASE Completed
  BY <1>1, <1>3, CompletedExchanges
<1>4. CASE Fail(BodyFailure.kind, BodyFailure.again)
  BY <1>1, <1>4, FailExchanges
<1> QED BY <1>2, <1>3, <1>4 DEF Body

\* Every step of a request is an exchange, and takes place in one.
LEMMA SourceExchanges ==
  ASSUME SourceInv, Exchange PROVE Exchanges /\ ~Idle
<1>1. ~Idle
  BY DEF Exchange, Check, Send, Answered, Headers, Body, SourceInv, RequestInv
<1> QED
  BY <1>1, CheckExchanges, SendExchanges, AnsweredExchanges, BodyExchanges DEF Exchange

\* The token and the origin.
LEMMA SourceEnvironment ==
  ASSUME SourceInv, Cancel \/ Replace
  PROVE  SourceInv' /\ UNCHANGED <<stream, request, reply>>
<1> USE DEF SourceInv
<1>1. UNCHANGED <<stream, request, reply, sentLate>> /\ origin' \in Versions /\ cancelled' \in BOOLEAN
      /\ (cancelled => cancelled')
  BY Types DEF Cancel, Replace
<1>2. HttpTypeOK'
  BY <1>1 DEF HttpTypeOK, SourceType, RequestType, ReplyType
<1>3. BufferInv' /\ RequestInv'
  BY <1>1 DEF BufferInv, Holds, RequestInv, Idle
<1>4. WaitInv' /\ FaithInv' /\ TokenInv'
  BY <1>1 DEF WaitInv, FaithInv, TokenInv, Idle
<1> QED BY <1>1, <1>2, <1>3, <1>4

\* A reply is taken.
LEMMA SourceConsumes ==
  ASSUME SourceInv, reply' = NoReply, UNCHANGED <<origin, cancelled, stream, request, sentLate>>
  PROVE  SourceInv'
<1>1. reply' \in ReplyRecords /\ reply'.kind = "none"
  BY Records DEF SourceInv
<1> QED BY <1>1, OnlyReplies

-----------------------------------------------------------------------------
(* Frames and packets.                                                     *)

\* A foreign packet has no frames, any other `PacketFrames` of them.
LEMMA FrameOfNat ==
  ASSUME NEW i \in Nat
  PROVE  /\ FrameOf(i) \in Nat
         /\ i \in Foreign => FrameOf(i + 1) = FrameOf(i)
         /\ i \notin Foreign => FrameOf(i + 1) = FrameOf(i) + PacketFrames
<1> DEFINE before == (0 .. i - 1) \ Foreign
<1>1. IsFiniteSet(0 .. i - 1)
  BY FS_Interval
<1>2. IsFiniteSet(before) /\ Cardinality(before) \in Nat
  BY <1>1, FS_Difference, FS_CardinalityType
<1>3. FrameOf(i) = PacketFrames * Cardinality(before)
  BY DEF FrameOf
<1>4. \A n \in Nat : PacketFrames * n \in Nat /\ PacketFrames * (n + 1) = PacketFrames * n + PacketFrames
  BY DecoderAssumption
<1>5. 0 .. (i + 1) - 1 = (0 .. i - 1) \cup {i}
  OBVIOUS
<1>6. CASE i \in Foreign
  <2>1. (0 .. (i + 1) - 1) \ Foreign = before
    BY <1>5, <1>6
  <2> QED BY <1>2, <1>3, <1>4, <1>6, <2>1 DEF FrameOf
<1>7. CASE i \notin Foreign
  <2>1. (0 .. (i + 1) - 1) \ Foreign = before \cup {i} /\ i \notin before
    BY <1>5, <1>7
  <2> HIDE DEF before
  <2>2. Cardinality(before \cup {i}) = Cardinality(before) + 1
    BY <1>2, <2>1, FS_AddElement
  <2>3. FrameOf(i + 1) = PacketFrames * (Cardinality(before) + 1)
    BY <2>1, <2>2 DEF FrameOf
  <2> QED BY <1>2, <1>3, <1>4, <1>7, <2>3
<1> QED BY <1>6, <1>7

\* The first packet begins at the first frame.
LEMMA FrameOfStart == FrameOf(0) = 0
<1>1. (0 .. 0 - 1) \ Foreign = {} /\ Cardinality({}) = 0
  BY FS_EmptySet
<1> QED BY <1>1, DecoderAssumption DEF FrameOf

\* Later packets begin no earlier.
LEMMA FrameOfGrows ==
  ASSUME NEW i \in Nat, NEW j \in Nat, i <= j
  PROVE  FrameOf(i) <= FrameOf(j)
<1> DEFINE A == (0 .. i - 1) \ Foreign
           B == (0 .. j - 1) \ Foreign
<1>1. A \subseteq B
  OBVIOUS
<1>2. IsFiniteSet(B)
  <2>1. IsFiniteSet(0 .. j - 1)
    BY FS_Interval
  <2> QED BY <2>1, FS_Difference
<1>3. IsFiniteSet(A) /\ Cardinality(A) <= Cardinality(B)
  BY <1>1, <1>2, FS_Subset
<1>4. Cardinality(A) \in Nat /\ Cardinality(B) \in Nat
  BY <1>2, <1>3, FS_CardinalityType
<1>5. \A a, b \in Nat : a <= b => PacketFrames * a <= PacketFrames * b
  BY DecoderAssumption
<1> HIDE DEF A, B
<1>6. PacketFrames * Cardinality(A) <= PacketFrames * Cardinality(B)
  BY <1>3, <1>4, <1>5
<1> QED BY <1>6 DEF FrameOf, A, B

\* An interval of frames, its size and its first frame.
LEMMA IntervalOf ==
  ASSUME NEW a \in Int, NEW b \in Int
  PROVE  /\ IsFiniteSet(a .. b - 1)
         /\ a < b => /\ Cardinality(a .. b - 1) = b - a
                     /\ (CHOOSE f \in a .. b - 1 : \A g \in a .. b - 1 : f <= g) = a
         /\ ~(a < b) => a .. b - 1 = {}
<1>1. IsFiniteSet(a .. b - 1)
  BY FS_Interval
<1>2. ASSUME a < b
      PROVE  /\ Cardinality(a .. b - 1) = b - a
             /\ (CHOOSE f \in a .. b - 1 : \A g \in a .. b - 1 : f <= g) = a
  <2>1. Cardinality(a .. b - 1) = b - a
    <3>1. Cardinality(a .. b - 1) = IF a > b - 1 THEN 0 ELSE (b - 1) - a + 1
      BY FS_Interval
    <3> QED BY <1>2, <3>1
  <2>2. \E f \in a .. b - 1 : \A g \in a .. b - 1 : f <= g
    BY <1>2
  <2>3. \A f \in a .. b - 1 : (\A g \in a .. b - 1 : f <= g) => f = a
    BY <1>2
  <2> QED BY <2>1, <2>2, <2>3
<1> QED BY <1>1, <1>2

\* The frames of a packet are an interval.
From(i) == IF owner = "native" THEN Most(FrameOf(i), Delay) ELSE FrameOf(i)
To(i) == IF owner = "native" THEN Least(FrameOf(i) + PacketFrames, ProgrammeEnd)
         ELSE FrameOf(i) + PacketFrames

\* The frames of a packet that survive the trim are a run of them.
LEMMA DecodedIs ==
  ASSUME NEW i \in Nat, stream.length \in Nat
  PROVE  /\ Decoded(i) = From(i) .. To(i) - 1
         /\ From(i) \in Nat /\ To(i) \in Int /\ ProgrammeEnd \in Int
<1>1. FrameOf(i) \in Nat /\ ProgrammeEnd \in Int
  BY FrameOfNat, DecoderAssumption DEF ProgrammeEnd, RawTotal
<1>2. \A a, b, c, d \in Int : (a .. b - 1) \cap (c .. d - 1) = Most(a, c) .. Least(b, d) - 1
  BY DEF Least, Most
<1>3. From(i) \in Nat /\ To(i) \in Int
  BY <1>1, DecoderAssumption DEF From, To, Least, Most
<1>4. CASE owner = "native"
  <2>1. Decoded(i) = (FrameOf(i) .. FrameOf(i) + PacketFrames - 1) \cap (Delay .. ProgrammeEnd - 1)
    BY <1>4 DEF Decoded
  <2>2. FrameOf(i) + PacketFrames \in Int /\ Delay \in Int /\ FrameOf(i) \in Int
    BY <1>1, DecoderAssumption
  <2>3. (FrameOf(i) .. FrameOf(i) + PacketFrames - 1) \cap (Delay .. ProgrammeEnd - 1)
          = Most(FrameOf(i), Delay) .. Least(FrameOf(i) + PacketFrames, ProgrammeEnd) - 1
    <3>1. PICK a \in Int, b \in Int, d \in Int :
             a = FrameOf(i) /\ b = FrameOf(i) + PacketFrames /\ d = ProgrammeEnd
      BY <1>1, <2>2
    <3>2. (a .. b - 1) \cap (Delay .. d - 1) = Most(a, Delay) .. Least(b, d) - 1
      BY <1>2, <2>2
    <3>3. FrameOf(i) + PacketFrames - 1 = b - 1
      BY <1>1, <3>1, DecoderAssumption
    <3>4. FrameOf(i) = a /\ ProgrammeEnd - 1 = d - 1
      BY <3>1
    <3> QED BY <3>1, <3>2, <3>3, <3>4, Zenon
  <2> QED BY <1>1, <1>3, <1>4, <2>1, <2>3 DEF From, To
<1>5. CASE owner # "native"
  <2>1. Decoded(i) = FrameOf(i) .. FrameOf(i) + PacketFrames - 1
    BY <1>5 DEF Decoded
  <2>2. From(i) = FrameOf(i) /\ To(i) = FrameOf(i) + PacketFrames
    BY <1>5 DEF From, To
  <2>3. FrameOf(i) + PacketFrames - 1 = To(i) - 1
    BY <1>1, <2>2, DecoderAssumption
  <2>4. Decoded(i) = From(i) .. To(i) - 1
    BY <2>1, <2>2, <2>3, Zenon
  <2> QED BY <1>1, <1>3, <2>4
<1> QED BY <1>4, <1>5

-----------------------------------------------------------------------------
(* The decoder: every step keeps its invariant.                            *)

\* A step that leaves the source alone leaves it sound.
LEMMA SourceStays ==
  ASSUME SourceInv, UNCHANGED httpVars PROVE SourceInv'
<1> USE DEF SourceInv, httpVars
<1>1. HttpTypeOK'
  BY DEF HttpTypeOK, SourceType, RequestType, ReplyType
<1>2. BufferInv' /\ RequestInv'
  BY DEF BufferInv, Holds, RequestInv, Idle
<1>3. WaitInv' /\ FaithInv' /\ TokenInv'
  BY DEF WaitInv, FaithInv, TokenInv, Idle
<1> QED BY <1>1, <1>2, <1>3

Decoders == [phase : {"closed", "opening", "probing", "failed"} \cup Active,
             output : Nat, finished : BOOLEAN, atStart : BOOLEAN]

\* What the delay and the padding leave of a packet.
LEMMA PacketSizes ==
  ASSUME DecoderType, NEW count \in Nat, stream.length \in Nat
  PROVE  /\ DelayToSkip(count) \in Nat /\ DelayToSkip(count) <= count
         /\ DelayToSkip(count) =
              IF owner = "track" /\ decoder.atStart
              THEN Least(Most(Delay - decoder.output, 0), count) ELSE 0
         /\ \A skip \in Nat : skip <= count =>
              /\ Room(count, skip) \in Nat
              /\ Room(count, skip) =
                   IF owner = "track"
                   THEN Least(count - skip, Most(ProgrammeEnd - (decoder.output + skip), 0))
                   ELSE count
<1>1. decoder.output \in Nat
  BY DEF DecoderType
<1>2. ProgrammeEnd \in Int
  BY FrameOfNat, DecoderAssumption DEF ProgrammeEnd, RawTotal
<1>3. DelayToSkip(count) \in Nat /\ DelayToSkip(count) <= count
  BY <1>1, DecoderAssumption DEF DelayToSkip, Least, Most
<1>4. ASSUME NEW skip \in Nat, skip <= count
      PROVE  Room(count, skip) \in Nat
  <2>1. PICK e \in Int : e = ProgrammeEnd
    BY <1>2
  <2> QED BY <1>1, <1>4, <2>1 DEF Room, Least, Most
<1> QED BY <1>3, <1>4 DEF DelayToSkip, Room

\* A packet with frames.
LEMMA DecodedPacket ==
  ASSUME DecoderType, stream.length \in Nat, Decoded(reader.next) # {}
  PROVE  LET i == reader.next
             count == Cardinality(Decoded(i))
         IN /\ i \in Nat /\ From(i) \in Nat /\ To(i) \in Nat /\ From(i) < To(i)
            /\ count = To(i) - From(i) /\ count \in Nat
            /\ (CHOOSE f \in Decoded(i) : \A g \in Decoded(i) : f <= g) = From(i)
<1> DEFINE i == reader.next
<1>1. i \in Nat
  BY DEF DecoderType
<1>2. /\ Decoded(i) = From(i) .. To(i) - 1
      /\ From(i) \in Nat /\ To(i) \in Int
  BY <1>1, DecodedIs
<1> HIDE DEF i
<1>3. PICK a \in Nat, b \in Int : a = From(i) /\ b = To(i)
  BY <1>2
<1>4. Decoded(i) = a .. b - 1
  BY <1>2, <1>3, Zenon
<1>5. /\ a < b => /\ Cardinality(a .. b - 1) = b - a
                  /\ (CHOOSE f \in a .. b - 1 : \A g \in a .. b - 1 : f <= g) = a
      /\ ~(a < b) => a .. b - 1 = {}
  BY IntervalOf
<1>6. a < b /\ b - a \in Nat /\ b \in Nat
  <2>1. Decoded(i) # {}
    BY DEF i
  <2>2. a < b
    BY <1>4, <1>5, <2>1
  <2> QED BY <2>2
<1>7. Cardinality(Decoded(i)) = b - a
  BY <1>4, <1>5, <1>6
<1>8. (CHOOSE f \in Decoded(i) : \A g \in Decoded(i) : f <= g) = From(i)
  BY <1>3, <1>4, <1>5, <1>6, Zenon
<1>9. /\ i \in Nat /\ From(i) \in Nat /\ To(i) \in Nat /\ From(i) < To(i)
      /\ Cardinality(Decoded(i)) = To(i) - From(i) /\ Cardinality(Decoded(i)) \in Nat
  BY <1>1, <1>3, <1>6, <1>7
<1> QED BY <1>8, <1>9 DEF i

\* A source at rest and the decoder's own record; the rest follows the definitions.
LEMMA DecoderOpens ==
  ASSUME StreamingIInv, Open PROVE StreamingIInv'
<1> USE DEF StreamingIInv
<1>1. /\ SourceInv' /\ stream.phase = "closed" /\ stream'.position = stream.position
      /\ stream'.phase \in {"opening", "failed"} /\ request'.purpose # "read"
      /\ reply'.kind = "cancelled" \/ ~Idle'
      /\ reply'.kind \notin {"bytes", "eof"}
  BY SourceOpens DEF Open
<1>2. /\ decoder.phase = "closed" /\ decoder' = [decoder EXCEPT !.phase = "opening"]
      /\ UNCHANGED <<owner, reader, outcome, heard, base, sought, lost, playedLate>>
      /\ cancelled' = cancelled
  BY DEF Open, OpenSource, history
<1>3. /\ decoder \in Decoders /\ decoder'.phase = "opening" /\ decoder'.output = decoder.output
      /\ decoder'.finished = decoder.finished /\ decoder'.atStart = decoder.atStart
      /\ decoder' \in Decoders
  <2>1. decoder \in Decoders
    BY DEF DecoderType, Decoders
  <2> QED BY <1>2, <2>1 DEF Decoders
<1>4. DecoderType'
  BY <1>2, <1>3 DEF DecoderType, Decoders
<1>5. PhaseInv'
  BY <1>1, <1>2, <1>3 DEF PhaseInv, Active
<1>6. ReplyInv'
  BY <1>1 DEF ReplyInv
<1>7. PositionInv'
  <2>1. reply.kind # "bytes"
    BY <1>2 DEF ReplyInv
  <2> QED BY <1>1, <1>2, <2>1 DEF PositionInv
<1>8. LateInv'
  BY <1>2, <1>3 DEF LateInv
<1> QED BY <1>1, <1>4, <1>5, <1>6, <1>7, <1>8

\* A step of the decoder alone that takes or leaves the packets it holds.
LEMMA DecoderMoves ==
  ASSUME StreamingIInv, UNCHANGED <<httpVars, owner, base, sought>>,
         decoder' \in Decoders, reader' \in [next : Nat, held : Nat], outcome' \in Outcomes,
         lost' \in BOOLEAN, decoder'.phase # "closed",
         decoder'.phase \in Active \cup {"probing"} => stream.phase \in Opened,
         decoder'.phase # "opening", playedLate' \in Nat, LateInv',
         request.purpose = "read" =>
           decoder'.phase \in {"probing", "reading"} /\ reader'.held = 0,
         decoder'.phase \notin Active \cup {"failed"} =>
           /\ decoder'.output = 0 /\ ~decoder'.finished /\ ~decoder'.atStart
           /\ reader'.next = 0 /\ outcome' # "end"
           /\ heard' = {} /\ base' = 0 /\ ~sought' /\ ~lost',
         ReplyInv', reader'.next + reader'.held = reader.next + reader.held
  PROVE  StreamingIInv'
<1> USE DEF StreamingIInv
<1>1. SourceInv'
  BY SourceStays
<1>2. UNCHANGED <<origin, cancelled, stream, request, reply, sentLate>>
  BY DEF httpVars
<1>3. DecoderType'
  BY DEF DecoderType, Decoders
<1>4. PhaseInv'
  BY <1>2 DEF PhaseInv, Idle
<1>5. PositionInv'
  BY <1>2 DEF PositionInv
<1> QED BY <1>1, <1>3, <1>4, <1>5

\* Opening the source for the probe keeps the invariant.
LEMMA DecoderProbes ==
  ASSUME StreamingIInv, Probe PROVE StreamingIInv'
<1> USE DEF StreamingIInv
<1>1. /\ decoder \in Decoders /\ decoder.phase = "opening" /\ Idle
      /\ UNCHANGED <<httpVars, owner, reader, heard, base, sought, lost, playedLate>>
      /\ cancelled' = cancelled /\ request.purpose = "none" /\ reply' = reply
  BY DEF DecoderType, Decoders, Probe, Idle, history, httpVars
<1>2. CASE /\ reply.kind = "opened" /\ ~cancelled
           /\ decoder' = [decoder EXCEPT !.phase = "probing"] /\ UNCHANGED outcome
  <2>1. /\ decoder' \in Decoders /\ decoder'.phase = "probing"
        /\ decoder'.output = decoder.output /\ decoder'.finished = decoder.finished
        /\ decoder'.atStart = decoder.atStart
    BY <1>1, <1>2 DEF Decoders
  <2>2. stream.phase \in Opened
    BY <1>1, <1>2 DEF PhaseInv
  <2>3. LateInv' /\ playedLate' \in Nat
    BY <1>1, <1>2, <2>1 DEF LateInv, DecoderType
  <2>4. ReplyInv'
    BY <1>1, <1>2 DEF ReplyInv
  <2>5. /\ reader' \in [next : Nat, held : Nat] /\ outcome' \in Outcomes /\ lost' \in BOOLEAN
    BY <1>1, <1>2 DEF DecoderType
  <2>6. /\ decoder'.output = 0 /\ ~decoder'.finished /\ ~decoder'.atStart
        /\ reader'.next = 0 /\ outcome' # "end"
        /\ heard' = {} /\ base' = 0 /\ ~sought' /\ ~lost'
    BY <1>1, <1>2, <2>1 DEF PhaseInv, Active
  <2>7. "probing" \notin {"closed", "opening"}
    OBVIOUS
  <2> QED BY <1>1, <2>1, <2>2, <2>3, <2>4, <2>5, <2>6, <2>7, DecoderMoves
<1>3. CASE /\ decoder' = [decoder EXCEPT !.phase = "failed"]
           /\ outcome' \in {"cancelled", "error"}
  <2>1. /\ decoder' \in Decoders /\ decoder'.phase = "failed"
    BY <1>1, <1>3 DEF Decoders
  <2>2. LateInv' /\ playedLate' \in Nat
    BY <1>1, <2>1 DEF LateInv, DecoderType
  <2>3. ReplyInv'
    BY <1>1 DEF ReplyInv
  <2>4. /\ reader' \in [next : Nat, held : Nat] /\ outcome' \in Outcomes /\ lost' \in BOOLEAN
    BY <1>1, <1>3 DEF DecoderType, Outcomes
  <2>5. "failed" \notin {"closed", "opening", "probing"} \cup Active
    BY DEF Active
  <2> QED BY <1>1, <2>1, <2>2, <2>3, <2>4, <2>5, DecoderMoves
<1>4. outcome' = (IF cancelled \/ reply.kind = "cancelled" THEN "cancelled" ELSE "error")
        => outcome' \in {"cancelled", "error"}
  OBVIOUS
<1> QED BY <1>2, <1>3, <1>4 DEF Probe, Return

\* Building the decoder from what was probed keeps the invariant.
LEMMA DecoderBuilds ==
  ASSUME StreamingIInv, Build PROVE StreamingIInv'
<1> USE DEF StreamingIInv
<1>1. /\ decoder \in Decoders /\ decoder.phase = "probing"
      /\ UNCHANGED <<httpVars, owner, reader, heard, base, sought, lost, playedLate>>
      /\ cancelled' = cancelled /\ request.purpose = "none" /\ reply' = reply
      /\ stream.phase \in Opened /\ reply.kind \notin {"bytes", "eof"}
  BY DEF DecoderType, Decoders, Build, Idle, history, httpVars, PhaseInv, ReplyInv
<1>2. /\ decoder' \in Decoders /\ decoder'.phase \in {"failed", "ready"}
      /\ outcome' \in {"opened", "cancelled"}
  BY <1>1 DEF Build, Built, Return, Decoders, Active
<1>3. LateInv' /\ playedLate' \in Nat
  BY <1>1, <1>2 DEF LateInv, DecoderType
<1>4. ReplyInv'
  BY <1>1 DEF ReplyInv
<1>5. /\ reader' \in [next : Nat, held : Nat] /\ outcome' \in Outcomes /\ lost' \in BOOLEAN
  BY <1>1, <1>2 DEF DecoderType, Outcomes
<1>6. decoder'.phase \notin {"closed", "opening", "probing"} /\ decoder'.phase \in Active \cup {"failed"}
  BY <1>2 DEF Active
<1> QED BY <1>1, <1>2, <1>3, <1>4, <1>5, <1>6, DecoderMoves

\* A call for the next packet keeps the invariant.
LEMMA DecoderCalled ==
  ASSUME StreamingIInv, Decode \/ DecodeNext PROVE StreamingIInv'
<1> USE DEF StreamingIInv
<1>1. /\ decoder \in Decoders /\ decoder.phase \in {"ready", "looping"}
      /\ UNCHANGED <<httpVars, owner, reader, heard, base, sought, lost, playedLate>>
      /\ cancelled' = cancelled /\ reply' = reply
  BY DEF DecoderType, Decoders, Decode, DecodeNext, history, httpVars
<1>2. /\ request.purpose # "read" /\ stream.phase \in Opened /\ reply.kind \notin {"bytes", "eof"}
  BY <1>1 DEF PhaseInv, ReplyInv, Active
<1>3. /\ decoder' \in Decoders /\ decoder'.phase \in Active
      /\ decoder'.phase = "reading" => ~cancelled
      /\ outcome' \in Outcomes
  BY <1>1 DEF Decode, DecodeNext, Return, Decoders, Active, DecoderType, Outcomes
<1>4. LateInv' /\ playedLate' \in Nat
  BY <1>1, <1>3 DEF LateInv, DecoderType
<1>5. ReplyInv'
  BY <1>1, <1>2 DEF ReplyInv
<1>6. /\ reader' \in [next : Nat, held : Nat] /\ lost' \in BOOLEAN
  BY <1>1 DEF DecoderType
<1>7. decoder'.phase \notin {"closed", "opening", "probing"}
  BY <1>3 DEF Active
<1> QED BY <1>1, <1>2, <1>3, <1>4, <1>5, <1>6, <1>7, DecoderMoves

\* A packet is taken, whatever becomes of it.
LEMMA DecoderTakes ==
  ASSUME StreamingIInv, decoder.phase = "reading", reader.held > 0, reader' = Consumed,
         UNCHANGED <<httpVars, owner, base, sought>>, decoder' \in Decoders,
         decoder'.phase \in {"ready", "looping"}, outcome' \in Outcomes, lost' \in BOOLEAN,
         playedLate' = playedLate \/ (cancelled /\ playedLate' = playedLate + 1)
  PROVE  StreamingIInv'
<1> USE DEF StreamingIInv
<1>1. /\ reader' \in [next : Nat, held : Nat]
      /\ reader'.next + reader'.held = reader.next + reader.held
  BY DEF DecoderType, Consumed
<1>2. reply.kind \notin {"bytes", "eof"} /\ request.purpose # "read" /\ stream.phase \in Opened
  BY DEF ReplyInv, PhaseInv, Active, DecoderType
<1>3. playedLate \in {0, 1} /\ playedLate # 1
  BY DEF LateInv, DecoderType
<1>4. LateInv' /\ playedLate' \in Nat
  BY <1>3 DEF LateInv, httpVars
<1>5. ReplyInv'
  BY <1>2 DEF ReplyInv, httpVars
<1>6. /\ decoder'.phase \notin {"closed", "opening", "probing"} /\ decoder'.phase \in Active
  BY DEF Active
<1> QED BY <1>1, <1>2, <1>4, <1>5, <1>6, DecoderMoves

\* A foreign or broken packet keeps the invariant.
LEMMA DecoderSkips ==
  ASSUME StreamingIInv, PacketSkipped \/ PacketFails PROVE StreamingIInv'
<1> USE DEF StreamingIInv
<1>1. /\ decoder.phase = "reading" /\ reader.held > 0 /\ reader' = Consumed
      /\ UNCHANGED <<httpVars, owner, base, sought, playedLate>>
  BY DEF PacketSkipped, PacketFails
<1>2. decoder \in Decoders
  BY DEF DecoderType, Decoders
<1>3. /\ decoder' \in Decoders /\ decoder'.phase \in {"ready", "looping"}
      /\ outcome' \in Outcomes /\ lost' \in BOOLEAN
  BY <1>2 DEF PacketSkipped, PacketFails, Return, Decoders, Active, DecoderType, Outcomes
<1> QED BY <1>1, <1>3, DecoderTakes

\* What a packet with frames does, in numbers.
Played(a, b, skip, kept) ==
  /\ a = From(reader.next) /\ b = To(reader.next) /\ a < b
  /\ skip = DelayToSkip(b - a) /\ skip <= b - a /\ kept = Room(b - a, skip)
  /\ skip = b - a =>
       /\ decoder' = [decoder EXCEPT !.phase = "looping", !.output = @ + skip]
       /\ UNCHANGED <<outcome, heard, playedLate>>
  /\ skip # b - a =>
       /\ decoder' = [decoder EXCEPT !.phase = "ready", !.output = @ + skip + kept,
                        !.atStart = FALSE, !.finished = (kept = 0)]
       /\ outcome' = IF kept = 0 THEN "end" ELSE "audio"
       /\ heard' = heard \cup (a + skip .. a + skip + kept - 1)
       /\ playedLate' = IF cancelled /\ kept > 0 THEN playedLate + 1 ELSE playedLate

\* A decoded packet plays a run of its frames behind what was skipped.
LEMMA PacketEffect ==
  ASSUME DecoderType, stream.length \in Nat, PacketDecoded
  PROVE  \E a, b, skip, kept \in Nat : Played(a, b, skip, kept)
<1> DEFINE i == reader.next
           count == Cardinality(Decoded(i))
           first == CHOOSE f \in Decoded(i) : \A g \in Decoded(i) : f <= g
           skip == DelayToSkip(count)
           kept == Room(count, skip)
<1>1. /\ IF skip = count
         THEN /\ decoder' = [decoder EXCEPT !.phase = "looping", !.output = @ + skip]
              /\ UNCHANGED <<outcome, heard, playedLate>>
         ELSE /\ decoder' = [decoder EXCEPT !.phase = "ready", !.output = @ + skip + kept,
                               !.atStart = FALSE, !.finished = (kept = 0)]
              /\ outcome' = IF kept = 0 THEN "end" ELSE "audio"
              /\ heard' = heard \cup (first + skip .. first + skip + kept - 1)
              /\ playedLate' = IF cancelled /\ kept > 0 THEN playedLate + 1 ELSE playedLate
  BY Zenon DEF PacketDecoded, Return
<1>2. /\ From(i) \in Nat /\ To(i) \in Nat /\ From(i) < To(i)
      /\ count = To(i) - From(i) /\ count \in Nat /\ first = From(i)
  <2>1. Decoded(i) # {}
    BY DEF PacketDecoded
  <2> QED BY <2>1, DecodedPacket
<1> HIDE DEF count, first
<1>3. skip \in Nat /\ skip <= count
  BY <1>2, PacketSizes
<1>4. kept \in Nat
  BY <1>2, <1>3, PacketSizes
<1>5. skip = DelayToSkip(To(i) - From(i)) /\ kept = Room(To(i) - From(i), skip)
  BY <1>2, Zenon
<1> HIDE DEF skip, kept
<1>6. PICK a, b, s, k \in Nat : a = From(i) /\ b = To(i) /\ s = skip /\ k = kept
  BY <1>2, <1>3, <1>4
<1>7. Played(a, b, s, k)
  <2>1. s = DelayToSkip(b - a) /\ k = Room(b - a, s)
    BY <1>5, <1>6, Zenon
  <2>2. first = a /\ count = b - a /\ a < b /\ s <= b - a
    BY <1>2, <1>3, <1>6
  <2> QED BY <1>1, <1>6, <2>1, <2>2 DEF Played
<1> QED BY <1>7

\* A decoded packet keeps the invariant.
LEMMA DecoderDecodes ==
  ASSUME StreamingIInv, PacketDecoded PROVE StreamingIInv'
<1> USE DEF StreamingIInv
<1>1. decoder \in Decoders /\ stream.length \in Nat
  <2>1. stream \in Streams
    BY Types DEF SourceInv
  <2> QED BY <2>1 DEF DecoderType, Decoders, Streams
<1>2. PICK a, b, skip, kept \in Nat : Played(a, b, skip, kept)
  BY <1>1, PacketEffect
<1>3. /\ decoder.phase = "reading" /\ reader.held > 0 /\ reader' = Consumed
      /\ UNCHANGED <<httpVars, owner, base, sought, lost>>
  BY DEF PacketDecoded
<1>4. decoder.output + skip \in Nat /\ decoder.output + skip + kept \in Nat
  BY <1>1 DEF Decoders
<1>5. /\ decoder' \in Decoders /\ decoder'.phase \in {"ready", "looping"}
  BY <1>1, <1>2, <1>4 DEF Played, Decoders, Active
<1>6. outcome' \in Outcomes /\ lost' \in BOOLEAN
  BY <1>2, <1>3 DEF Played, DecoderType, Outcomes
<1>7. playedLate' = playedLate \/ (cancelled /\ playedLate' = playedLate + 1)
  BY <1>2 DEF Played
<1> QED BY <1>3, <1>5, <1>6, <1>7, DecoderTakes

\* A read of the container, from the source or from its buffer, keeps the invariant.
LEMMA DecoderReadsOn ==
  ASSUME StreamingIInv, ReadOn PROVE StreamingIInv'
<1> USE DEF StreamingIInv
<1>1. PICK n \in ReadSizes : Read(n) \/ ReadMemory(n)
  BY DEF ReadOn
<1>2. /\ decoder.phase \in {"probing", "reading"} /\ reader.held = 0
      /\ reply.kind \notin {"bytes", "eof"} /\ UNCHANGED decoderVars
  BY DEF ReadOn, Reading
<1>3. /\ SourceInv' /\ stream.phase \in Opened /\ stream'.phase = stream.phase
      /\ stream'.position
           = stream.position + IF reply'.kind = "bytes" THEN Len(reply'.bytes) ELSE 0
  BY <1>1, <1>2, SourceReads
<1>4. cancelled' = cancelled
  BY <1>1 DEF Read, ReadMemory
<1>5. DecoderType' /\ LateInv'
  BY <1>2, <1>4 DEF DecoderType, LateInv, decoderVars
<1>6. PhaseInv'
  BY <1>2, <1>3 DEF PhaseInv, Active, decoderVars
<1>7. ReplyInv'
  BY <1>2 DEF ReplyInv, decoderVars
<1>8. PositionInv'
  <2>1. reader' = reader /\ stream.position = reader.next + reader.held
    BY <1>2 DEF PositionInv, DecoderType, decoderVars
  <2> QED BY <1>3, <2>1 DEF PositionInv
<1> QED BY <1>3, <1>5, <1>6, <1>7, <1>8

\* A step of the source's request keeps the invariant.
LEMMA DecoderExchanges ==
  ASSUME StreamingIInv, Exchange, UNCHANGED decoderVars PROVE StreamingIInv'
<1> USE DEF StreamingIInv
<1>1. Exchanges /\ ~Idle
  BY SourceExchanges
<1>2. reply.kind \notin {"bytes", "eof"}
  BY <1>1 DEF SourceInv, WaitInv
<1>3. UNCHANGED <<owner, decoder, reader, outcome, heard, base, sought, lost, playedLate>>
  BY DEF decoderVars
<1>4. DecoderType' /\ LateInv'
  BY <1>1, <1>3 DEF DecoderType, LateInv, Exchanges
<1>5. PhaseInv'
  BY <1>1, <1>3 DEF PhaseInv, Exchanges
<1>6. ReplyInv'
  BY <1>1, <1>3 DEF ReplyInv, PhaseInv, Exchanges
<1>7. PositionInv'
  <2>1. reader' = reader /\ stream.position = reader.next + reader.held
    BY <1>2, <1>3 DEF PositionInv, DecoderType
  <2> QED BY <1>1, <2>1 DEF PositionInv, Exchanges
<1> QED BY <1>1, <1>4, <1>5, <1>6, <1>7 DEF Exchanges

\* A reply is taken by the reader.
LEMMA DecoderReceives ==
  ASSUME StreamingIInv, Receive \/ Broken \/ Retried PROVE StreamingIInv'
<1> USE DEF StreamingIInv
<1>1. /\ decoder.phase \in {"probing", "reading"} /\ Idle /\ reader.held = 0
      /\ reply' = NoReply /\ UNCHANGED <<origin, cancelled, stream, request, sentLate>>
      /\ UNCHANGED <<owner, heard, base, sought, lost, playedLate>>
  BY DEF Receive, Broken, Retried, decoderVars, Reading, history
<1>2. SourceInv'
  BY <1>1, SourceConsumes
<1>3. reply'.kind = "none" /\ request'.purpose = "none"
  BY <1>1 DEF NoReply, Idle
<1>4. decoder \in Decoders /\ stream.phase \in Opened
  BY <1>1 DEF DecoderType, Decoders, PhaseInv, Active
<1>5. /\ reader' \in [next : Nat, held : Nat]
      /\ stream.position = reader'.next + reader'.held
  <2>1. CASE Receive
    <3>1. reply.kind = "bytes" /\ reader' = [reader EXCEPT !.held = Len(reply.bytes)]
      BY <2>1 DEF Receive
    <3>2. Len(reply.bytes) \in Nat
      <4>1. reply \in ReplyRecords
        BY Types DEF SourceInv
      <4> QED BY <4>1 DEF ReplyRecords
    <3> QED BY <1>1, <3>1, <3>2 DEF PositionInv, DecoderType
  <2>2. CASE Broken
    <3>1. reply.kind # "bytes" /\ reader' = reader
      BY <2>2 DEF Broken
    <3> QED BY <1>1, <3>1 DEF PositionInv, DecoderType
  <2>3. CASE Retried
    <3>1. reader' = reader
      BY <2>3 DEF Retried, decoderVars
    <3>2. reader \in [next : Nat, held : Nat] /\ stream.position = reader.next + reader.held
      BY <2>3 DEF Retried, PositionInv, DecoderType
    <3> QED BY <3>1, <3>2, Zenon
  <2> QED BY <2>1, <2>2, <2>3
<1>6. /\ decoder' \in Decoders /\ outcome' \in Outcomes
      /\ decoder'.phase \in Active \cup {"probing", "failed"}
      /\ decoder'.phase = "reading" => decoder.phase = "reading"
      /\ decoder'.phase = "probing" => decoder' = decoder /\ outcome' = outcome
                                       /\ reader'.next = reader.next /\ decoder.phase = "probing"
  <2>1. CASE Receive
    <3>1. decoder' = decoder /\ outcome' = outcome /\ reader'.next = reader.next
      BY <2>1 DEF Receive, history, DecoderType
    <3> QED BY <1>1, <1>4, <3>1 DEF DecoderType, Active
  <2>2. CASE Broken
    <3>1. /\ decoder' \in Decoders /\ decoder'.phase \in {"ready", "failed"}
          /\ outcome' \in {"end", "error"}
      <4>1. CASE /\ decoder' = [decoder EXCEPT !.phase = "failed"] /\ outcome' = "error"
        BY <1>4, <4>1 DEF Decoders
      <4>2. CASE /\ decoder' = [decoder EXCEPT !.phase = "ready",
                                               !.finished = @ \/ reply.kind = "eof"]
                 /\ outcome' = IF reply.kind = "eof" THEN "end" ELSE "error"
        <5>1. (decoder.finished \/ reply.kind = "eof") \in BOOLEAN
          BY <1>4 DEF Decoders
        <5>2. "ready" \in Active
          BY DEF Active
        <5> QED BY <1>4, <4>2, <5>1, <5>2, Zenon DEF Decoders
      <4> QED BY <2>2, <4>1, <4>2 DEF Broken, Return
    <3> QED BY <3>1 DEF Outcomes, Active
  <2>3. CASE Retried
    <3>1. decoder' = decoder /\ outcome' = outcome /\ reader'.next = reader.next
      BY <2>3 DEF Retried, decoderVars
    <3> QED BY <1>1, <1>4, <3>1 DEF DecoderType, Active
  <2> QED BY <2>1, <2>2, <2>3
<1>7. DecoderType' /\ LateInv'
  BY <1>1, <1>5, <1>6 DEF DecoderType, Decoders, LateInv
<1>8. PhaseInv'
  BY <1>1, <1>3, <1>4, <1>6 DEF PhaseInv, Active
<1>9. ReplyInv' /\ PositionInv'
  BY <1>1, <1>3, <1>5 DEF ReplyInv, PositionInv
<1> QED BY <1>2, <1>7, <1>8, <1>9

\* A seek of the decoder keeps the invariant.
LEMMA DecoderSeeks ==
  ASSUME StreamingIInv, NEW i \in 0 .. stream.length - 1, SeekTo(i) PROVE StreamingIInv'
<1> USE DEF StreamingIInv
<1>1. /\ decoder \in Decoders /\ decoder.phase = "ready" /\ UNCHANGED <<owner, playedLate>>
      /\ request.purpose # "read" /\ stream.phase \in Opened /\ reply.kind \notin {"bytes", "eof"}
      /\ stream.length \in Nat /\ i \in Nat /\ i < stream.length
  <2>1. stream \in Streams
    BY Types DEF SourceInv
  <2>2. stream.length \in Nat
    BY <2>1 DEF Streams
  <2> QED BY <2>2 DEF DecoderType, Decoders, SeekTo, PhaseInv, ReplyInv, Active
<1>2. CASE Seek(i) /\ Return("sought")
           /\ decoder' = [decoder EXCEPT !.finished = FALSE, !.output = RawPosition(i),
                                         !.atStart = FALSE]
           /\ reader' = [next |-> i, held |-> 0]
           /\ heard' = {} /\ base' = FrameOf(i) /\ sought' = TRUE /\ lost' = FALSE
  <2>1. /\ SourceInv' /\ stream'.phase = stream.phase /\ stream'.position = i
        /\ reply'.kind = "sought" /\ request' = request /\ Idle
    BY <1>2, SourceSeeks
  <2>2. RawPosition(i) \in Nat /\ FrameOf(i) \in Nat
    <3>1. PICK f \in Nat : f = FrameOf(i)
      BY <1>1, FrameOfNat
    <3> QED BY <3>1, DecoderAssumption DEF RawPosition, Most
  <2>3. /\ decoder' \in Decoders /\ decoder'.phase = "ready"
    BY <1>1, <1>2, <2>2 DEF Decoders
  <2>4. DecoderType'
    BY <1>1, <1>2, <2>2, <2>3 DEF DecoderType, Decoders, Return, Outcomes
  <2>5. cancelled' = cancelled
    BY <1>2 DEF Seek
  <2>6. LateInv'
    BY <1>1, <2>3, <2>5 DEF LateInv
  <2>7. PhaseInv' /\ ReplyInv'
    BY <1>1, <2>1, <2>3 DEF PhaseInv, ReplyInv, Active, Idle
  <2>8. PositionInv'
    BY <1>1, <1>2, <2>1 DEF PositionInv
  <2> QED BY <2>1, <2>4, <2>6, <2>7, <2>8
<1>3. CASE Return("error") /\ UNCHANGED <<httpVars, decoder, reader, heard, base, sought, lost>>
  <2>1. outcome' \in Outcomes /\ outcome' = "error"
    BY <1>3 DEF Return, Outcomes
  <2>2. LateInv' /\ ReplyInv'
    BY <1>1, <1>3 DEF LateInv, ReplyInv, httpVars
  <2>3. reader' \in [next : Nat, held : Nat] /\ lost' \in BOOLEAN /\ playedLate' \in Nat
    BY <1>1, <1>3 DEF DecoderType
  <2>4. decoder' \in Decoders /\ decoder'.phase \in Active
        /\ decoder'.phase \notin {"closed", "opening"}
    BY <1>1, <1>3 DEF Active
  <2> QED BY <1>1, <1>3, <2>1, <2>2, <2>3, <2>4, DecoderMoves
<1> QED BY <1>2, <1>3 DEF SeekTo

\* A cancellation or a new version at the origin keeps the invariant.
LEMMA DecoderInterrupted ==
  ASSUME StreamingIInv, Environment PROVE StreamingIInv'
<1> USE DEF StreamingIInv
<1>1. SourceInv' /\ UNCHANGED <<stream, request, reply>>
  BY SourceEnvironment DEF Environment
<1>2. UNCHANGED <<owner, decoder, reader, outcome, heard, base, sought, lost, playedLate>>
      /\ (cancelled => cancelled')
  <2>1. cancelled => cancelled'
    BY DEF Environment, Cancel, Replace
  <2> QED BY <2>1 DEF Environment, decoderVars
<1>3. DecoderType' /\ LateInv'
  BY <1>2 DEF DecoderType, LateInv
<1>4. PhaseInv' /\ ReplyInv' /\ PositionInv'
  BY <1>1, <1>2 DEF PhaseInv, ReplyInv, PositionInv, Idle
<1> QED BY <1>1, <1>3, <1>4

\* A step of something else keeps the invariant.
LEMMA DecoderRests ==
  ASSUME StreamingIInv, UNCHANGED streamingVars PROVE StreamingIInv'
<1> USE DEF StreamingIInv
<1>1. SourceInv' /\ UNCHANGED <<origin, cancelled, stream, request, reply, sentLate>>
  BY SourceStays DEF streamingVars, httpVars
<1>2. UNCHANGED <<owner, decoder, reader, outcome, heard, base, sought, lost, playedLate>>
  BY DEF streamingVars, decoderVars
<1>3. DecoderType' /\ LateInv'
  BY <1>1, <1>2 DEF DecoderType, LateInv
<1>4. PhaseInv' /\ ReplyInv' /\ PositionInv'
  BY <1>1, <1>2 DEF PhaseInv, ReplyInv, PositionInv, Idle
<1> QED BY <1>1, <1>3, <1>4

\* The invariant holds at the start.
LEMMA StreamingStarts == StreamingInit => StreamingIInv
<1> SUFFICES ASSUME StreamingInit PROVE StreamingIInv
  OBVIOUS
<1> USE DEF StreamingInit, HttpInit, DecoderInit
<1>1. /\ (CHOOSE v \in Versions : TRUE) \in Versions /\ <<>> \in Seq(Bytes) /\ Len(<<>>) = 0
  OBVIOUS
<1>2. HttpTypeOK
  BY <1>1 DEF HttpTypeOK, SourceType, RequestType, ReplyType, NoRequest, NoReply, Purposes,
     Stages, Replies, Opened, Unknown
<1>3. /\ stream.phase = "closed" /\ stream.position = 0 /\ stream.start = 0
      /\ stream.length = 0 /\ stream.buffer = <<>>
      /\ request.purpose = "none" /\ request.stage = "idle" /\ reply.kind = "none"
  BY DEF NoRequest, NoReply
<1>4. BufferInv /\ RequestInv /\ WaitInv /\ FaithInv /\ TokenInv
  BY <1>1, <1>3 DEF BufferInv, Holds, RequestInv, WaitInv, FaithInv, TokenInv, Idle, Opened
<1>5. DecoderType
  BY DEF DecoderType, Active, Outcomes
<1>6. PhaseInv /\ ReplyInv /\ PositionInv /\ LateInv
  BY <1>3 DEF PhaseInv, ReplyInv, PositionInv, LateInv, Idle, Opened, Active
<1> QED BY <1>2, <1>4, <1>5, <1>6 DEF StreamingIInv, SourceInv

\* Every step keeps the invariant.
LEMMA StreamingSteps == StreamingIInv /\ [StreamingNext]_streamingVars => StreamingIInv'
<1> SUFFICES ASSUME StreamingIInv, [StreamingNext]_streamingVars PROVE StreamingIInv'
  OBVIOUS
<1>1. CASE Step
  BY <1>1, DecoderOpens, DecoderProbes, DecoderBuilds, DecoderReadsOn, DecoderReceives,
     DecoderCalled, DecoderSkips, DecoderDecodes, DecoderExchanges DEF Step
<1>2. CASE Call
  BY <1>2, DecoderCalled, DecoderSeeks DEF Call
<1>3. CASE Environment
  BY <1>3, DecoderInterrupted
<1>4. CASE UNCHANGED streamingVars
  BY <1>4, DecoderRests
<1> QED BY <1>1, <1>2, <1>3, <1>4 DEF StreamingNext

\* The invariant holds in every reachable state of the decoder.
LEMMA StreamingInvariant == StreamingSpec => []StreamingIInv
  BY StreamingStarts, StreamingSteps, PTL DEF StreamingSpec

\* Every variable of the source and of the decoder keeps its type, whatever the
\* origin answers and whenever the token is set.
THEOREM StreamingTypes == StreamingSpec => [](HttpTypeOK /\ DecoderType)
<1>1. StreamingIInv => HttpTypeOK /\ DecoderType
  BY DEF StreamingIInv, SourceInv
<1> QED BY <1>1, StreamingInvariant, PTL

\* A read returns the bytes of its position, of a resource as long as the one that was
\* opened, or the end of file at the end; no request goes out after the token was seen
\* set: a cancelled source sends one more at most (`RangeStream::read`, `ensure_buffered`).
THEOREM SourceIsFaithful == StreamingSpec => []ReadsAreFaithful
<1>1. StreamingIInv => ReadsAreFaithful
  BY DEF StreamingIInv, SourceInv, FaithInv, TokenInv, ReadsAreFaithful
<1> QED BY <1>1, StreamingInvariant, PTL
-----------------------------------------------------------------------------
(* The trim, in numbers: what every step does to the cursor and the frames    *)
(* heard.                                                                  *)

\* A decoder that was just built has heard nothing and stands at the start.
LEMMA TrimStarts ==
  ASSUME NEW o \in {"native", "track"}, NEW e \in Int, Delay <= e, NEW fresh \in BOOLEAN,
         fresh <=> o = "track"
  PROVE  Trimmed(o, 0, e, 0, FALSE, 0, fresh, {}, FALSE)
<1>1. Delay \in Nat
  BY DecoderAssumption
<1>2. {f \in Programme(FALSE, 0, e) : f < 0} = {}
  <2>1. \A f \in Programme(FALSE, 0, e) : ~(f < 0)
    BY <1>1 DEF Programme
  <2> QED BY <2>1
<1>3. 0 = IF o = "track" THEN Least(0, Most(0, e)) ELSE Most(Least(0, Most(0, e)) - Delay, 0)
  BY <1>1 DEF Least, Most
<1>4. 0 <= 0 /\ (fresh => o = "track" /\ 0 <= Delay) /\ (o = "track" => fresh)
  BY <1>1
<1> QED BY <1>2, <1>3, <1>4, Zenon DEF Trimmed

\* After a seek nothing was heard, and the output counts from the new frame.
LEMMA TrimSeeks ==
  ASSUME NEW o \in {"native", "track"}, NEW e \in Int, NEW n \in Nat, NEW out,
         out = Most(n - Delay + (IF o = "track" THEN Delay ELSE 0), 0)
  PROVE  Trimmed(o, n, e, n, TRUE, out, FALSE, {}, FALSE)
<1>1. Delay \in Nat
  BY DecoderAssumption
<1>2. {f \in Programme(TRUE, n, e) : f < n} = {}
  <2>1. \A f \in Programme(TRUE, n, e) : ~(f < n)
    BY <1>1 DEF Programme
  <2> QED BY <2>1
<1>3. out = IF o = "track" THEN Least(n, Most(n, e)) ELSE Most(Least(n, Most(n, e)) - Delay, 0)
  BY <1>1 DEF Least, Most
<1>4. n <= n
  OBVIOUS
<1> QED BY <1>2, <1>3, <1>4, Zenon DEF Trimmed

\* A packet the codec trims away altogether.
LEMMA TrimMisses ==
  ASSUME NEW n \in Nat, NEW e \in Int, NEW b \in Nat, NEW s \in BOOLEAN, NEW out \in Nat,
         NEW fresh \in BOOLEAN, NEW h, NEW done \in BOOLEAN, Delay <= e,
         Most(n, Delay) >= Least(n + PacketFrames, e),
         Trimmed("native", n, e, b, s, out, fresh, h, done)
  PROVE  Trimmed("native", n + PacketFrames, e, b, s, out, fresh, h, done)
<1>1. Delay \in Nat /\ PacketFrames \in Nat /\ PacketFrames > 0
  BY DecoderAssumption
<1>2. b <= n /\ (~s => b = 0) /\ out = Most(Least(n, Most(b, e)) - Delay, 0) /\ ~fresh
  BY DEF Trimmed
<1>3. out = Most(Least(n + PacketFrames, Most(b, e)) - Delay, 0)
  BY <1>1, <1>2 DEF Least, Most
<1>4. b >= Delay \/ ~s => {f \in Programme(s, b, e) : f < n} = {f \in Programme(s, b, e) : f < n + PacketFrames}
  BY <1>1, <1>2 DEF Programme, Least, Most
<1> QED BY <1>1, <1>2, <1>3, <1>4 DEF Trimmed

\* A packet the codec trims and the decoder plays.
PlaysNative(n, e, b, s, out, fresh, h, done, first, end, n2, out2, h2) ==
  /\ n \in Nat /\ e \in Int /\ b \in Nat /\ s \in BOOLEAN /\ out \in Nat /\ Delay <= e
  /\ first \in Nat /\ end \in Nat /\ n2 \in Nat /\ out2 \in Nat
  /\ first = Most(n, Delay) /\ end = Least(n + PacketFrames, e) /\ first < end
  /\ n2 = n + PacketFrames /\ out2 = out + (end - first) /\ h2 = h \cup (first .. end - 1)
  /\ Trimmed("native", n, e, b, s, out, fresh, h, done)

\* A packet under the trim of the container itself extends what was heard.
LEMMA TrimPlaysNative ==
  ASSUME NEW n, NEW e, NEW b, NEW s, NEW out, NEW fresh, NEW h, NEW done, NEW first, NEW end,
         NEW n2, NEW out2, NEW h2,
         PlaysNative(n, e, b, s, out, fresh, h, done, first, end, n2, out2, h2)
  PROVE  Trimmed("native", n2, e, b, s, out2, FALSE, h2, FALSE)
<1> USE DEF PlaysNative
<1>1. Delay \in Nat /\ PacketFrames \in Nat /\ PacketFrames > 0
  BY DecoderAssumption
<1>2. b <= n /\ (~s => b = 0) /\ out = Most(Least(n, Most(b, e)) - Delay, 0)
  BY DEF Trimmed
<1>3. n < e /\ n + PacketFrames > Delay /\ out = first - Delay
  BY <1>1, <1>2 DEF Least, Most
<1>4. out2 = Most(Least(n2, Most(b, e)) - Delay, 0)
  BY <1>1, <1>2, <1>3 DEF Least, Most
<1>5. ASSUME b >= Delay \/ ~s
      PROVE  h2 = {f \in Programme(s, b, e) : f < n2}
  <2>1. h = {f \in Programme(s, b, e) : f < n}
    BY <1>5 DEF Trimmed
  <2>2. \A f \in Int : f \in first .. end - 1 <=> f >= n /\ f >= Delay /\ f < n + PacketFrames /\ f < e
    BY <1>1 DEF Least, Most
  <2>3. \A f \in Int : f \in Programme(s, b, e) <=> f >= Delay /\ f >= b /\ f < e
    BY <1>1, <1>2, <1>5 DEF Programme
  <2> QED BY <1>1, <1>2, <2>1, <2>2, <2>3 DEF Programme
<1> QED BY <1>1, <1>2, <1>4, <1>5 DEF Trimmed

\* The decoder's own trim: what it skips and what it keeps of a packet.
PlaysTrack(n, e, b, s, out, fresh, h, done, skip, kept, n2, out1, out2, fresh2, h2, done2) ==
  /\ n \in Nat /\ e \in Int /\ b \in Nat /\ s \in BOOLEAN /\ out \in Nat /\ fresh \in BOOLEAN
  /\ Delay <= e /\ skip \in Nat /\ kept \in Nat /\ n2 \in Nat /\ out1 \in Nat /\ out2 \in Nat
  /\ skip = (IF fresh THEN Least(Most(Delay - out, 0), PacketFrames) ELSE 0)
  /\ kept = Least(PacketFrames - skip, Most(e - (out + skip), 0))
  /\ n2 = n + PacketFrames /\ out1 = out + skip /\ out2 = out + skip + kept
  /\ h2 = h \cup (n + skip .. n + skip + kept - 1)
  /\ fresh2 = FALSE /\ done2 \in BOOLEAN /\ done2 = (kept = 0)
  /\ Trimmed("track", n, e, b, s, out, fresh, h, done)

\* So does a packet under the trim by the track's delay and padding.
LEMMA TrimPlaysTrack ==
  ASSUME NEW n, NEW e, NEW b, NEW s, NEW out, NEW fresh, NEW h, NEW done, NEW skip, NEW kept,
         NEW n2, NEW out1, NEW out2, NEW fresh2, NEW h2, NEW done2,
         PlaysTrack(n, e, b, s, out, fresh, h, done, skip, kept, n2, out1, out2, fresh2, h2, done2)
  PROVE  /\ skip = PacketFrames => Trimmed("track", n2, e, b, s, out1, fresh, h, done)
         /\ skip # PacketFrames => Trimmed("track", n2, e, b, s, out2, fresh2, h2, done2)
<1> USE DEF PlaysTrack
<1>1. Delay \in Nat /\ PacketFrames \in Nat /\ PacketFrames > 0
  BY DecoderAssumption
<1>2. /\ b <= n /\ (~s => b = 0) /\ out = Least(n, Most(b, e))
      /\ fresh => ~s /\ n <= Delay
      /\ ~fresh /\ ~s => n >= Delay
      /\ done => n >= e
      /\ h = {f \in Programme(s, b, e) : f < n}
  BY DEF Trimmed
<1>3. \A f \in Int : f \in Programme(s, b, e) <=> f >= 0 /\ (~s => f >= Delay) /\ f >= b /\ f < e
  BY <1>1 DEF Programme
<1>4. Programme(s, b, e) \subseteq Int
  BY <1>1 DEF Programme
<1>5. ASSUME skip = PacketFrames
      PROVE  Trimmed("track", n2, e, b, s, out1, fresh, h, done)
  <2>1. fresh /\ ~s /\ b = 0 /\ out = n /\ n + PacketFrames <= Delay
    BY <1>1, <1>2, <1>5 DEF Least, Most
  <2>2. out1 = Least(n2, Most(b, e))
    BY <1>1, <1>5, <2>1 DEF Least, Most
  <2>3. h = {f \in Programme(s, b, e) : f < n2}
    BY <1>1, <1>5, <1>2, <1>3, <1>4, <2>1
  <2> QED BY <1>1, <1>5, <1>2, <2>1, <2>2, <2>3 DEF Trimmed
<1>6. ASSUME skip # PacketFrames, fresh
      PROVE  Trimmed("track", n2, e, b, s, out2, fresh2, h2, done2)
  <2>1. ~s /\ b = 0 /\ out = n /\ n + skip = Delay /\ n + PacketFrames > Delay
    BY <1>1, <1>2, <1>6 DEF Least, Most
  <2>2. out2 = Least(n2, e)
    BY <1>1, <1>6, <2>1 DEF Least, Most
  <2>3. Least(n2, e) = Least(n2, Most(b, e))
    BY <1>1, <1>6, <2>1 DEF Least, Most
  <2>4. kept = 0 => n + PacketFrames >= e
    BY <1>1, <1>6, <2>1 DEF Least, Most
  <2>5. \A f \in Int : f \in n + skip .. n + skip + kept - 1
                         <=> f >= Delay /\ f < n + PacketFrames /\ f < e
    BY <1>1, <1>6, <2>1, <2>2 DEF Least
  <2>6. h2 = {f \in Programme(s, b, e) : f < n2}
    BY <1>1, <1>6, <1>2, <1>3, <1>4, <2>1, <2>5
  <2> QED BY <1>1, <1>6, <1>2, <2>1, <2>2, <2>3, <2>4, <2>6 DEF Trimmed
<1>7. ASSUME skip # PacketFrames, ~fresh
      PROVE  Trimmed("track", n2, e, b, s, out2, fresh2, h2, done2)
  <2>1. skip = 0 /\ (~s => n >= Delay)
    BY <1>2, <1>7
  <2>2. out2 = Least(n2, Most(b, e))
    BY <1>1, <1>7, <1>2, <2>1 DEF Least, Most
  <2>3. kept = 0 => n >= e
    BY <1>1, <1>7, <1>2, <2>1 DEF Least, Most
  <2>4. \A f \in Int : f \in n + skip .. n + skip + kept - 1
                         <=> f >= n /\ f < n + PacketFrames /\ f < e
    BY <1>1, <1>7, <1>2, <2>1 DEF Least, Most
  <2>5. h2 = {f \in Programme(s, b, e) : f < n2}
    BY <1>1, <1>7, <1>2, <1>3, <1>4, <2>1, <2>4
  <2> QED BY <1>1, <1>7, <1>2, <2>1, <2>2, <2>3, <2>5 DEF Trimmed
<1> QED BY <1>5, <1>6, <1>7
-----------------------------------------------------------------------------
(* The trim: every step keeps it.                                          *)

GaplessInv == StreamingIInv /\ LengthInv /\ TrimInv

\* What an open source says of the end of the programme.
LEMMA ProgrammeFits ==
  ASSUME RegionsFit, StreamingIInv, LengthInv, stream.phase \in Opened
  PROVE  ProgrammeEnd \in Nat /\ Delay <= ProgrammeEnd /\ ProgrammeEnd <= FrameOf(stream.length)
<1>1. PICK v \in Versions : stream.length = LengthOf[v]
  BY DEF LengthInv
<1>2. LengthOf[v] \in Nat
  BY HttpAssumption
<1>3. PICK total \in Nat : total = FrameOf(stream.length)
  BY <1>1, <1>2, FrameOfNat
<1>4. Delay + Padding <= total
  BY <1>1, <1>3 DEF RegionsFit
<1>5. ProgrammeEnd = total - Padding
  BY <1>3 DEF ProgrammeEnd, RawTotal
<1> QED BY <1>3, <1>4, <1>5, DecoderAssumption

\* An open source keeps the length it was opened with.
LEMMA LengthSteps ==
  ASSUME StreamingIInv, LengthInv, [StreamingNext]_streamingVars
  PROVE  /\ LengthInv'
         /\ stream.phase \in Opened => stream'.length = stream.length
<1> USE DEF StreamingIInv
<1>1. CASE UNCHANGED stream
  BY <1>1 DEF LengthInv
<1>2. CASE Open
  <2>1. stream.phase = "closed" /\ stream'.phase \in {"opening", "failed"}
    BY <1>2, SourceOpens DEF Open
  <2> QED BY <2>1 DEF LengthInv, Opened
<1>3. CASE ReadOn
  <2>1. stream'.phase = stream.phase /\ stream'.length = stream.length
    BY <1>3, SourceReads DEF ReadOn
  <2> QED BY <2>1 DEF LengthInv
<1>4. CASE Exchange
  <2>1. Exchanges
    BY <1>4, SourceExchanges
  <2> QED BY <2>1 DEF LengthInv, Exchanges
<1>5. ASSUME NEW i \in 0 .. stream.length - 1, Seek(i)
      PROVE  LengthInv' /\ (stream.phase \in Opened => stream'.length = stream.length)
  <2>1. stream'.phase = stream.phase /\ stream'.length = stream.length
    BY <1>5, SourceSeeks
  <2> QED BY <2>1 DEF LengthInv
<1>6. ASSUME Step \/ Call \/ Environment \/ UNCHANGED streamingVars
      PROVE  \/ UNCHANGED stream \/ Open \/ ReadOn \/ Exchange
             \/ \E i \in 0 .. stream.length - 1 : Seek(i)
  BY <1>6 DEF Step, Call, Environment, Probe, Build, Receive, Broken, Retried, DecodeNext,
     PacketSkipped, PacketFails, PacketDecoded, Decode, SeekTo, Cancel, Replace, streamingVars, httpVars
<1> QED BY <1>1, <1>2, <1>3, <1>4, <1>5, <1>6 DEF StreamingNext

\* A step that takes no packet: the cursor stays, and the end is only reported there.
LEMMA TrimStays ==
  ASSUME TrimInv, StreamingIInv, UNCHANGED <<owner, base, sought, heard, lost>>,
         ProgrammeEnd' = ProgrammeEnd, reader'.next = reader.next,
         decoder'.phase \in Active => decoder.phase \in Active,
         decoder'.output = decoder.output, decoder'.atStart = decoder.atStart,
         (decoder'.phase \in Active /\ ~lost /\ (decoder'.finished \/ outcome' = "end")) =>
            decoder.finished \/ outcome = "end" \/ FrameOf(reader.next) >= ProgrammeEnd
  PROVE  TrimInv'
<1>1. FrameOf(reader'.next) = FrameOf(reader.next)
  OBVIOUS
<1> QED BY <1>1 DEF TrimInv, Trimmed

\* The end of file lies behind the last packet.
LEMMA EndIsReached ==
  ASSUME RegionsFit, GaplessInv, stream.phase \in Opened, reply.kind = "eof"
  PROVE  FrameOf(reader.next) >= ProgrammeEnd
<1> USE DEF GaplessInv, StreamingIInv
<1>1. stream.position = reader.next + reader.held /\ reader.held = 0 /\ reader.next \in Nat
  BY DEF PositionInv, ReplyInv, DecoderType
<1>2. stream.length \in Nat /\ stream.position >= stream.length
  <2>1. stream \in Streams
    BY Types DEF SourceInv
  <2>2. stream.length \in Nat
    BY <2>1 DEF Streams
  <2> QED BY <2>2 DEF SourceInv, WaitInv
<1>3. PICK n \in Nat, m \in Nat : n = FrameOf(reader.next) /\ m = FrameOf(stream.length)
  BY <1>1, <1>2, FrameOfNat
<1>4. FrameOf(stream.length) <= FrameOf(reader.next)
  BY <1>1, <1>2, FrameOfGrows
<1>5. ProgrammeEnd <= m /\ ProgrammeEnd \in Nat
  BY <1>3, ProgrammeFits
<1> QED BY <1>3, <1>4, <1>5

\* Building the decoder establishes the trim.
LEMMA TrimBuilds ==
  ASSUME RegionsFit, GaplessInv, Build PROVE TrimInv'
<1> USE DEF GaplessInv, StreamingIInv
<1>1. /\ decoder.phase = "probing" /\ UNCHANGED <<httpVars, owner, reader, heard, base, sought, lost>>
      /\ stream.phase \in Opened /\ decoder \in Decoders
  BY DEF Build, history, PhaseInv, DecoderType, Decoders
<1>2. /\ decoder.output = 0 /\ ~decoder.finished /\ reader.next = 0
      /\ heard = {} /\ base = 0 /\ ~sought
  BY <1>1 DEF PhaseInv, Active
<1>3. CASE outcome' = "cancelled" /\ decoder' = [decoder EXCEPT !.phase = "failed"]
  <2>1. decoder'.phase = "failed"
    BY <1>1, <1>3 DEF Decoders
  <2> QED BY <2>1 DEF TrimInv, Active
<1>4. CASE outcome' = "opened" /\ decoder' = Built
  <2>1. /\ decoder'.output = 0 /\ decoder'.finished = FALSE /\ decoder'.atStart = (owner = "track")
    BY <1>1, <1>2, <1>4 DEF Built, Decoders
  <2>2. PICK e \in Nat : e = ProgrammeEnd /\ Delay <= e
    BY <1>1, ProgrammeFits
  <2>3. ProgrammeEnd' = e
    BY <1>1, <2>2 DEF ProgrammeEnd, RawTotal, httpVars
  <2>4. owner \in {"native", "track"}
    BY DEF DecoderType
  <2>5. PICK fresh \in BOOLEAN : fresh = decoder'.atStart /\ (fresh <=> owner = "track")
    BY <2>1
  <2>6. Trimmed(owner, 0, e, 0, FALSE, 0, fresh, {}, FALSE)
    <3>1. e \in Int
      BY <2>2
    <3> QED BY <2>2, <2>4, <2>5, <3>1, TrimStarts
  <2>7. FrameOf(reader'.next) = 0
    BY <1>1, <1>2, FrameOfStart
  <2>8. decoder'.finished \/ outcome' = "end" <=> FALSE
    BY <1>4, <2>1
  <2>9. /\ owner' = owner /\ base' = 0 /\ sought' = FALSE /\ decoder'.output = 0
        /\ decoder'.atStart = fresh /\ heard' = {} /\ ProgrammeEnd' = e
    <3>1. sought \in BOOLEAN
      BY DEF DecoderType
    <3> QED BY <1>1, <1>2, <2>1, <2>3, <2>5, <3>1
  <2>10. Trimmed(owner', FrameOf(reader'.next), ProgrammeEnd', base', sought', decoder'.output,
                 decoder'.atStart, heard', decoder'.finished \/ outcome' = "end")
    <3>1. (decoder'.finished \/ outcome' = "end") = FALSE
      BY <2>8
    <3> QED BY <2>6, <2>7, <2>9, <3>1, Zenon
  <2> QED BY <2>10 DEF TrimInv
<1> QED BY <1>3, <1>4 DEF Build, Return

\* The steps of the source and of its environment, and those that only move the decoder on.
LEMMA TrimWaits ==
  ASSUME RegionsFit, GaplessInv, [StreamingNext]_streamingVars,
         \/ UNCHANGED decoderVars \/ Receive \/ Broken \/ Decode \/ DecodeNext
  PROVE  TrimInv'
<1> USE DEF GaplessInv
<1>1. decoder \in Decoders
  BY DEF StreamingIInv, DecoderType, Decoders
<1>2. /\ UNCHANGED <<owner, base, sought, heard, lost>> /\ reader'.next = reader.next
      /\ decoder'.output = decoder.output /\ decoder'.atStart = decoder.atStart
      /\ decoder'.phase \in Active => decoder.phase \in Active
  <2>1. CASE UNCHANGED decoderVars
    BY <2>1 DEF decoderVars
  <2>2. CASE Receive
    BY <2>2 DEF Receive, history, StreamingIInv, DecoderType
  <2>3. CASE Broken
    BY <1>1, <2>3 DEF Broken, Reading, history, Decoders, Active
  <2>4. CASE Decode
    BY <1>1, <2>4 DEF Decode, history, Decoders, Active
  <2>5. CASE DecodeNext
    BY <1>1, <2>5 DEF DecodeNext, history, Decoders, Active
  <2> QED BY <2>1, <2>2, <2>3, <2>4, <2>5
<1>3. CASE decoder'.phase \notin Active
  BY <1>3 DEF TrimInv
<1>4. CASE decoder'.phase \in Active
  <2>1. decoder.phase \in Active /\ stream.phase \in Opened
    BY <1>2, <1>4 DEF StreamingIInv, PhaseInv
  <2>2. stream'.length = stream.length
    BY <2>1, LengthSteps
  <2>3. ProgrammeEnd' = ProgrammeEnd
    BY <2>2 DEF ProgrammeEnd, RawTotal
  <2>4. decoder'.finished \/ outcome' = "end" =>
          decoder.finished \/ outcome = "end" \/ FrameOf(reader.next) >= ProgrammeEnd
    <3>1. CASE UNCHANGED decoderVars
      BY <3>1 DEF decoderVars
    <3>2. CASE Receive
      BY <3>2 DEF Receive, history
    <3>3. CASE Broken
      <4>1. CASE reply.kind = "eof"
        BY <2>1, <4>1, EndIsReached
      <4>2. CASE reply.kind # "eof"
        <5>1. decoder.phase # "probing"
          BY <2>1 DEF Active
        <5>2. /\ decoder' = [decoder EXCEPT !.phase = "ready", !.finished = @ \/ reply.kind = "eof"]
              /\ outcome' = "error"
          BY <3>3, <4>2, <5>1 DEF Broken, Return
        <5>3. decoder'.finished = (decoder.finished \/ reply.kind = "eof")
          BY <1>1, <5>2 DEF Decoders
        <5> QED BY <4>2, <5>2, <5>3
      <4> QED BY <4>1, <4>2
    <3>4. CASE Decode
      BY <1>1, <3>4 DEF Decode, Return, Decoders
    <3>5. CASE DecodeNext
      BY <1>1, <3>5 DEF DecodeNext, Return, Decoders
    <3> QED BY <3>1, <3>2, <3>3, <3>4, <3>5
  <2> QED BY <1>2, <2>1, <2>3, <2>4, TrimStays
<1> QED BY <1>3, <1>4

\* A seek establishes the trim anew.
LEMMA TrimSought ==
  ASSUME RegionsFit, GaplessInv, NEW i \in 0 .. stream.length - 1, SeekTo(i)
  PROVE  TrimInv'
<1> USE DEF GaplessInv
<1>1. /\ decoder \in Decoders /\ decoder.phase = "ready" /\ stream.phase \in Opened
      /\ UNCHANGED owner /\ owner \in {"native", "track"}
      /\ stream.length \in Nat /\ i \in Nat
  <2>1. stream \in Streams
    BY Types DEF StreamingIInv, SourceInv
  <2>2. stream.length \in Nat
    BY <2>1 DEF Streams
  <2> QED BY <2>2 DEF StreamingIInv, DecoderType, Decoders, SeekTo, PhaseInv, Active
<1>2. CASE /\ Seek(i) /\ Return("sought")
           /\ decoder' = [decoder EXCEPT !.finished = FALSE, !.output = RawPosition(i),
                                         !.atStart = FALSE]
           /\ reader' = [next |-> i, held |-> 0]
           /\ heard' = {} /\ base' = FrameOf(i) /\ sought' = TRUE /\ lost' = FALSE
  <2>1. stream'.length = stream.length
    BY <1>2, SourceSeeks DEF StreamingIInv
  <2>2. PICK n \in Nat : n = FrameOf(i)
    BY <1>1, FrameOfNat
  <2>3. PICK e \in Nat : e = ProgrammeEnd
    BY <1>1, ProgrammeFits
  <2>4. ProgrammeEnd' = e
    BY <2>1, <2>3 DEF ProgrammeEnd, RawTotal
  <2>5. /\ decoder'.output = RawPosition(i) /\ decoder'.atStart = FALSE
        /\ decoder'.finished = FALSE /\ reader'.next = i /\ outcome' = "sought"
    BY <1>1, <1>2 DEF Decoders, Return
  <2>6. RawPosition(i) = Most(n - Delay + (IF owner = "track" THEN Delay ELSE 0), 0)
    BY <2>2 DEF RawPosition
  <2>7. Trimmed(owner, n, e, n, TRUE, RawPosition(i), FALSE, {}, FALSE)
    <3>1. PICK out : out = RawPosition(i)
      OBVIOUS
    <3>2. out = Most(n - Delay + (IF owner = "track" THEN Delay ELSE 0), 0)
      BY <2>6, <3>1, Zenon
    <3>3. e \in Int
      BY <2>3
    <3>4. Trimmed(owner, n, e, n, TRUE, out, FALSE, {}, FALSE)
      BY <1>1, <3>2, <3>3, TrimSeeks
    <3> QED BY <3>1, <3>4, Zenon
  <2>8. decoder'.finished \/ outcome' = "end" <=> FALSE
    BY <2>5
  <2>9. FrameOf(reader'.next) = n
    BY <2>2, <2>5
  <2> QED BY <1>1, <1>2, <2>2, <2>4, <2>5, <2>7, <2>8, <2>9 DEF TrimInv, Trimmed
<1>3. CASE /\ Return("error") /\ UNCHANGED <<httpVars, decoder, reader, heard, base, sought, lost>>
  <2>1. ProgrammeEnd' = ProgrammeEnd
    BY <1>3 DEF ProgrammeEnd, RawTotal, httpVars
  <2>2. /\ UNCHANGED <<owner, base, sought, heard, lost, decoder, reader>> /\ outcome' = "error"
    BY <1>1, <1>3 DEF Return
  <2> QED BY <2>1, <2>2, TrimStays
<1> QED BY <1>2, <1>3 DEF SeekTo

\* A packet without frames for the caller.
LEMMA TrimSkipped ==
  ASSUME RegionsFit, GaplessInv, PacketSkipped \/ PacketFails PROVE TrimInv'
<1> USE DEF GaplessInv
<1>1. /\ decoder \in Decoders /\ decoder.phase = "reading" /\ stream.phase \in Opened
      /\ reader.next \in Nat /\ reader'.next = reader.next + 1
      /\ UNCHANGED <<httpVars, owner, base, sought, heard>>
      /\ owner \in {"native", "track"} /\ base \in Nat /\ sought \in BOOLEAN
  BY DEF StreamingIInv, DecoderType, Decoders, PhaseInv, Active, PacketSkipped, PacketFails, Consumed
<1>2. CASE lost'
  BY <1>2 DEF TrimInv
<1>3. CASE ~lost'
  <2>1. /\ PacketSkipped /\ UNCHANGED <<lost, outcome>> /\ ~lost
        /\ reader.next \in Foreign \/ Decoded(reader.next) = {}
        /\ decoder' = [decoder EXCEPT !.phase = "looping"]
    BY <1>3 DEF PacketSkipped, PacketFails
  <2>2. /\ decoder'.output = decoder.output /\ decoder'.atStart = decoder.atStart
        /\ decoder'.finished = decoder.finished
    BY <1>1, <2>1 DEF Decoders
  <2>3. PICK e \in Nat : e = ProgrammeEnd /\ Delay <= e
    BY <1>1, ProgrammeFits
  <2>4. ProgrammeEnd' = e
    BY <1>1, <2>3 DEF ProgrammeEnd, RawTotal, httpVars
  <2>5. PICK n \in Nat, m \in Nat :
          /\ n = FrameOf(reader.next) /\ m = FrameOf(reader.next + 1)
          /\ reader.next \in Foreign => m = n
          /\ reader.next \notin Foreign => m = n + PacketFrames
    BY <1>1, FrameOfNat
  <2>6. PICK out \in Nat, fresh \in BOOLEAN, done \in BOOLEAN :
          /\ out = decoder.output /\ fresh = decoder.atStart
          /\ done = (decoder.finished \/ outcome = "end")
    BY <1>1 DEF Decoders
  <2>7. Trimmed(owner, n, e, base, sought, out, fresh, heard, done)
    <3>1. decoder.phase \in Active
      BY <1>1 DEF Active
    <3>2. Trimmed(owner, FrameOf(reader.next), ProgrammeEnd, base, sought, decoder.output,
                  decoder.atStart, heard, decoder.finished \/ outcome = "end")
      BY <2>1, <3>1 DEF TrimInv
    <3> QED BY <2>3, <2>5, <2>6, <3>2, Zenon
  <2>8. Trimmed(owner, m, e, base, sought, out, fresh, heard, done)
    <3>1. CASE reader.next \in Foreign
      BY <2>5, <2>7, <3>1
    <3>2. CASE reader.next \notin Foreign
      <4>1. ~(From(reader.next) < To(reader.next))
        <5>1. Decoded(reader.next) = From(reader.next) .. To(reader.next) - 1
              /\ From(reader.next) \in Nat /\ To(reader.next) \in Int
          <6>1. stream.length \in Nat
            <7>1. stream \in Streams
              BY Types DEF StreamingIInv, SourceInv
            <7> QED BY <7>1 DEF Streams
          <6> QED BY <1>1, <6>1, DecodedIs
        <5>2. PICK a \in Nat, b \in Int : a = From(reader.next) /\ b = To(reader.next)
          BY <5>1
        <5>3. a .. b - 1 = {}
          BY <2>1, <3>2, <5>1, <5>2, Zenon
        <5>4. ~(a < b)
          <6>1. a < b => a \in a .. b - 1
            OBVIOUS
          <6> QED BY <5>3, <6>1
        <5> QED BY <5>2, <5>4
      <4>2. PICK p \in Nat : p = n + PacketFrames /\ p > n
        BY DecoderAssumption
      <4>3. owner = "native"
        <5>1. owner # "native" => From(reader.next) = n /\ To(reader.next) = p
          BY <2>5, <4>2, Zenon DEF From, To
        <5> QED BY <4>1, <4>2, <5>1
      <4>4. From(reader.next) = Most(n, Delay) /\ To(reader.next) = Least(n + PacketFrames, e)
        BY <2>3, <2>5, <4>3, Zenon DEF From, To
      <4>5. PICK a \in Int, b \in Int : a = Most(n, Delay) /\ b = Least(n + PacketFrames, e)
        BY <2>3, DecoderAssumption DEF Least, Most
      <4>6. Most(n, Delay) >= Least(n + PacketFrames, e)
        BY <4>1, <4>4, <4>5
      <4>7. Trimmed("native", n, e, base, sought, out, fresh, heard, done) /\ e \in Int
        BY <2>3, <2>7, <4>3
      <4>8. Trimmed("native", n + PacketFrames, e, base, sought, out, fresh, heard, done)
        BY <1>1, <2>3, <4>6, <4>7, TrimMisses
      <4> QED BY <2>5, <3>2, <4>3, <4>8
    <3> QED BY <3>1, <3>2
  <2>9. Trimmed(owner', FrameOf(reader'.next), ProgrammeEnd', base', sought', decoder'.output,
                decoder'.atStart, heard', decoder'.finished \/ outcome' = "end")
    <3>1. (decoder'.finished \/ outcome' = "end") = done
      BY <2>1, <2>2, <2>6
    <3>2. FrameOf(reader'.next) = m
      BY <1>1, <2>5
    <3>3. /\ owner' = owner /\ base' = base /\ sought' = sought /\ heard' = heard
          /\ decoder'.output = out /\ decoder'.atStart = fresh
      BY <1>1, <2>2, <2>6
    <3> QED BY <2>4, <2>8, <3>1, <3>2, <3>3, Zenon
  <2> QED BY <2>9 DEF TrimInv
<1> QED BY <1>2, <1>3

\* A packet with frames.
LEMMA TrimPlayed ==
  ASSUME RegionsFit, GaplessInv, PacketDecoded PROVE TrimInv'
<1> USE DEF GaplessInv
<1>1. /\ decoder \in Decoders /\ decoder.phase = "reading" /\ stream.phase \in Opened
      /\ reader.next \in Nat /\ reader'.next = reader.next + 1 /\ reader.next \notin Foreign
      /\ UNCHANGED <<httpVars, owner, base, sought, lost>>
      /\ owner \in {"native", "track"} /\ base \in Nat /\ sought \in BOOLEAN
  BY DEF StreamingIInv, DecoderType, Decoders, PhaseInv, Active, PacketDecoded, Consumed
<1>2. CASE lost
  BY <1>1, <1>2 DEF TrimInv
<1>3. CASE ~lost
  <2>1. PICK a, b, skip, kept \in Nat : Played(a, b, skip, kept)
    <3>1. stream.length \in Nat
      <4>1. stream \in Streams
        BY Types DEF StreamingIInv, SourceInv
      <4> QED BY <4>1 DEF Streams
    <3> QED BY <3>1, PacketEffect DEF StreamingIInv
  <2>2. PICK e \in Nat : e = ProgrammeEnd /\ Delay <= e /\ e \in Int
    BY <1>1, ProgrammeFits
  <2>3. ProgrammeEnd' = e
    BY <1>1, <2>2 DEF ProgrammeEnd, RawTotal, httpVars
  <2>4. PICK n \in Nat : n = FrameOf(reader.next) /\ FrameOf(reader.next + 1) = n + PacketFrames
    BY <1>1, FrameOfNat
  <2>5. PICK out \in Nat, fresh \in BOOLEAN, done \in BOOLEAN :
          /\ out = decoder.output /\ fresh = decoder.atStart
          /\ done = (decoder.finished \/ outcome = "end")
    BY <1>1 DEF Decoders
  <2>6. Trimmed(owner, n, e, base, sought, out, fresh, heard, done)
    <3>1. decoder.phase \in Active
      BY <1>1 DEF Active
    <3>2. Trimmed(owner, FrameOf(reader.next), ProgrammeEnd, base, sought, decoder.output,
                  decoder.atStart, heard, decoder.finished \/ outcome = "end")
      BY <1>3, <3>1 DEF TrimInv
    <3> QED BY <2>2, <2>4, <2>5, <3>2, Zenon
  <2>7. PacketFrames \in Nat /\ PacketFrames > 0 /\ Delay \in Nat
    BY DecoderAssumption
  <2>8. CASE owner = "native"
    <3>1. a = Most(n, Delay) /\ b = Least(n + PacketFrames, e)
      BY <2>1, <2>2, <2>4, <2>8, Zenon DEF Played, From, To
    <3>2. a < b /\ skip = 0 /\ kept = b - a
      BY <2>1, <2>8 DEF Played, DelayToSkip, Room
    <3>3. Trimmed("native", n, e, base, sought, out, fresh, heard, done)
      BY <2>6, <2>8
    <3>4. PICK n2 \in Nat, out2 \in Nat : n2 = n + PacketFrames /\ out2 = out + (b - a)
      BY <2>7, <3>2
    <3>5. PICK h2 : h2 = heard \cup (a .. b - 1)
      OBVIOUS
    <3>6. Trimmed("native", n2, e, base, sought, out2, FALSE, h2, FALSE)
      <4>1. PlaysNative(n, e, base, sought, out, fresh, heard, done, a, b, n2, out2, h2)
        BY <1>1, <2>2, <3>1, <3>2, <3>3, <3>4, <3>5, Zenon DEF PlaysNative
      <4> QED BY <4>1, TrimPlaysNative
    <3>7. /\ decoder' = [decoder EXCEPT !.phase = "ready", !.output = @ + skip + kept,
                           !.atStart = FALSE, !.finished = (kept = 0)]
          /\ outcome' = IF kept = 0 THEN "end" ELSE "audio"
          /\ heard' = heard \cup (a + skip .. a + skip + kept - 1)
      BY <2>1, <3>2 DEF Played
    <3>8. /\ decoder'.output = out + (b - a) /\ decoder'.atStart = FALSE
          /\ (decoder'.finished \/ outcome' = "end") = FALSE
      <4>1. kept # 0 /\ out + skip + kept = out + (b - a)
        BY <3>2
      <4>2. /\ decoder'.output = out + skip + kept /\ decoder'.atStart = FALSE
            /\ decoder'.finished = FALSE /\ outcome' = "audio"
        BY <1>1, <2>5, <3>7, <4>1 DEF Decoders
      <4> QED BY <4>1, <4>2
    <3>9. heard' = heard \cup (a .. b - 1)
      <4>1. a + skip = a /\ a + skip + kept - 1 = b - 1
        BY <3>2
      <4> QED BY <3>7, <4>1, Zenon
    <3>10. FrameOf(reader'.next) = n + PacketFrames
      BY <1>1, <2>4
    <3>11. Trimmed(owner', FrameOf(reader'.next), ProgrammeEnd', base', sought', decoder'.output,
                  decoder'.atStart, heard', decoder'.finished \/ outcome' = "end")
      <4>1. owner' = "native" /\ base' = base /\ sought' = sought
        BY <1>1, <2>8
      <4> QED BY <2>3, <3>4, <3>8, <3>9, <3>4, <3>10, <3>6, <3>5, <4>1, Zenon
    <3> QED BY <3>11 DEF TrimInv
  <2>9. CASE owner = "track"
    <3>1. a = n /\ b = n + PacketFrames
      BY <2>1, <2>4, <2>9, Zenon DEF Played, From, To
    <3>2. b - a = PacketFrames
      BY <2>7, <3>1
    <3>3. skip = IF fresh THEN Least(Most(Delay - out, 0), PacketFrames) ELSE 0
      <4>1. skip = DelayToSkip(PacketFrames)
        BY <2>1, <3>2, Zenon DEF Played
      <4> QED BY <2>5, <2>9, <4>1 DEF DelayToSkip
    <3>4. kept = Least(PacketFrames - skip, Most(e - (out + skip), 0))
      <4>1. kept = Room(PacketFrames, skip)
        BY <2>1, <3>2, Zenon DEF Played
      <4> QED BY <2>2, <2>5, <2>9, <4>1, Zenon DEF Room
    <3>5. Trimmed("track", n, e, base, sought, out, fresh, heard, done)
      BY <2>6, <2>9
    <3>6. PICK n2 \in Nat, out1 \in Nat, out2 \in Nat :
            n2 = n + PacketFrames /\ out1 = out + skip /\ out2 = out + skip + kept
      BY <2>7
    <3>7. PICK done2, fresh2 : done2 \in BOOLEAN /\ done2 = (kept = 0) /\ fresh2 = FALSE
      OBVIOUS
    <3>8. PICK h2 : h2 = heard \cup (n + skip .. n + skip + kept - 1)
      OBVIOUS
    <3>9. PlaysTrack(n, e, base, sought, out, fresh, heard, done, skip, kept, n2, out1,
                      out2, fresh2, h2, done2)
      BY <1>1, <2>2, <3>3, <3>4, <3>5, <3>6, <3>8, <3>7, Zenon DEF PlaysTrack
    <3>10. /\ owner' = "track" /\ base' = base /\ sought' = sought
          /\ FrameOf(reader'.next) = n + PacketFrames
      BY <1>1, <2>4, <2>9
    <3>11. CASE skip = PacketFrames
      <4>1. /\ decoder' = [decoder EXCEPT !.phase = "looping", !.output = @ + skip]
            /\ UNCHANGED <<outcome, heard>>
        BY <2>1, <3>2, <3>11 DEF Played
      <4>2. /\ decoder'.output = out + skip /\ decoder'.atStart = fresh
            /\ (decoder'.finished \/ outcome' = "end") = done
        BY <1>1, <2>5, <4>1 DEF Decoders
      <4>3. Trimmed(owner', FrameOf(reader'.next), ProgrammeEnd', base', sought', decoder'.output,
                    decoder'.atStart, heard', decoder'.finished \/ outcome' = "end")
        <5>1. Trimmed("track", n2, e, base, sought, out1, fresh, heard, done)
          BY <3>11, <3>9, TrimPlaysTrack
        <5> QED BY <2>3, <3>6, <3>10, <4>1, <4>2, <5>1, Zenon
      <4> QED BY <4>3 DEF TrimInv
    <3>12. CASE skip # PacketFrames
      <4>1. /\ decoder' = [decoder EXCEPT !.phase = "ready", !.output = @ + skip + kept,
                             !.atStart = FALSE, !.finished = (kept = 0)]
            /\ outcome' = IF kept = 0 THEN "end" ELSE "audio"
            /\ heard' = heard \cup (a + skip .. a + skip + kept - 1)
        BY <2>1, <3>2, <3>12 DEF Played
      <4>2. /\ decoder'.output = out + skip + kept /\ decoder'.atStart = FALSE
            /\ (decoder'.finished \/ outcome' = "end") = (kept = 0)
        BY <1>1, <2>5, <4>1 DEF Decoders
      <4>3. heard' = heard \cup (n + skip .. n + skip + kept - 1)
        BY <3>1, <4>1, Zenon
      <4>4. Trimmed(owner', FrameOf(reader'.next), ProgrammeEnd', base', sought', decoder'.output,
                    decoder'.atStart, heard', decoder'.finished \/ outcome' = "end")
        <5>1. Trimmed("track", n2, e, base, sought, out2, fresh2, h2, done2)
          BY <3>12, <3>9, TrimPlaysTrack, Zenon
        <5> QED BY <2>3, <3>6, <3>10, <3>8, <3>7, <4>2, <4>3, <5>1, Zenon
      <4> QED BY <4>4 DEF TrimInv
    <3> QED BY <3>11, <3>12
  <2> QED BY <1>1, <2>8, <2>9
<1> QED BY <1>2, <1>3

\* No decoder has played at the start.
LEMMA GaplessStarts == StreamingInit => GaplessInv
<1>1. StreamingInit => LengthInv /\ TrimInv
  BY DEF StreamingInit, HttpInit, DecoderInit, LengthInv, TrimInv, Opened, Active
<1> QED BY <1>1, StreamingStarts DEF GaplessInv

\* Every step keeps the trim exact.
LEMMA GaplessSteps ==
  ASSUME RegionsFit PROVE GaplessInv /\ [StreamingNext]_streamingVars => GaplessInv'
<1> SUFFICES ASSUME GaplessInv, [StreamingNext]_streamingVars PROVE GaplessInv'
  OBVIOUS
<1>1. StreamingIInv' /\ LengthInv'
  BY StreamingSteps, LengthSteps DEF GaplessInv
<1>2. TrimInv'
  <2>1. CASE Open \/ Probe
    <3>1. decoder \in Decoders
      BY DEF GaplessInv, StreamingIInv, DecoderType, Decoders
    <3>2. decoder'.phase \in {"opening", "probing", "failed"}
      BY <2>1, <3>1 DEF Open, Probe, Decoders
    <3> QED BY <3>2 DEF TrimInv, Active
  <2>2. CASE Build
    BY <2>2, TrimBuilds
  <2>3. CASE UNCHANGED decoderVars \/ Receive \/ Broken \/ Decode \/ DecodeNext
    BY <2>3, TrimWaits
  <2>4. CASE PacketSkipped \/ PacketFails
    BY <2>4, TrimSkipped
  <2>5. CASE PacketDecoded
    BY <2>5, TrimPlayed
  <2>6. ASSUME NEW i \in 0 .. stream.length - 1, SeekTo(i) PROVE TrimInv'
    BY <2>6, TrimSought
  <2> QED BY <2>1, <2>2, <2>3, <2>4, <2>5, <2>6
        DEF StreamingNext, Step, Call, Environment, ReadOn, Retried, streamingVars
<1> QED BY <1>1, <1>2 DEF GaplessInv

\* What a caller sees follows: the cursor and the frames are those of the programme.
LEMMA TrimmedIsExact ==
  ASSUME RegionsFit, GaplessInv PROVE TrimIsExact
<1> USE DEF GaplessInv
<1>1. playedLate <= 1
  BY DEF StreamingIInv, LateInv
<1>2. ASSUME decoder.phase = "ready", ~lost
      PROVE  /\ CursorIsTruthful
             /\ owner = "track" \/ base >= Delay \/ ~sought =>
                  /\ heard \subseteq Due
                  /\ \A f \in heard, g \in Due : g < f => g \in heard
                  /\ outcome = "end" => heard = Due
  <2>1. stream.phase \in Opened /\ reader.next \in Nat /\ base \in Nat
    BY <1>2 DEF StreamingIInv, PhaseInv, DecoderType, Active
  <2>2. PICK n \in Nat, e \in Nat : n = FrameOf(reader.next) /\ e = ProgrammeEnd
    BY <2>1, FrameOfNat, ProgrammeFits
  <2>3. Trimmed(owner, FrameOf(reader.next), ProgrammeEnd, base, sought, decoder.output,
                decoder.atStart, heard, decoder.finished \/ outcome = "end")
    BY <1>2 DEF TrimInv, Active
  <2>4. CursorIsTruthful
    BY <2>3, Zenon DEF Trimmed, CursorIsTruthful
  <2>5. Due = Programme(sought, base, ProgrammeEnd)
    BY Zenon DEF Due, Programme
  <2>6. ASSUME owner = "track" \/ base >= Delay \/ ~sought
        PROVE  /\ heard \subseteq Due
               /\ \A f \in heard, g \in Due : g < f => g \in heard
               /\ outcome = "end" => heard = Due
    <3>1. heard = {f \in Due : f < n}
      BY <2>2, <2>3, <2>5, <2>6, Zenon DEF Trimmed
    <3>2. \A f \in Due : f \in Int /\ f < e
      BY <2>2, DecoderAssumption DEF Due
    <3>3. outcome = "end" => n >= e
      BY <2>2, <2>3 DEF Trimmed
    <3>4. \A f \in heard, g \in Due : g < f => g \in heard
      BY <3>1, <3>2
    <3>5. outcome = "end" => heard = Due
      <4>1. n >= e => \A f \in Due : f < n
        BY <3>2
      <4> QED BY <3>1, <3>3, <4>1
    <3> QED BY <3>1, <3>4, <3>5
  <2> QED BY <2>4, <2>6
<1> QED BY <1>1, <1>2 DEF TrimIsExact

\* When the encoder's delay and padding lie within every representation of the resource,
\* the gapless trim is exact: the cursor is the frame the next packet starts at, and what
\* is heard since the start or the last seek is a prefix of the programme from there, all
\* of it at the end, whichever owner trims, for every packet size; and after the token is
\* set one packet more is heard at most (`decode_next_span`, `seek`).
THEOREM TrimExact == RegionsFit /\ StreamingSpec => []TrimIsExact
<1> SUFFICES ASSUME RegionsFit PROVE StreamingSpec => []TrimIsExact
  OBVIOUS
<1>1. StreamingInit => GaplessInv
  BY GaplessStarts
<1>2. GaplessInv /\ [StreamingNext]_streamingVars => GaplessInv'
  BY GaplessSteps
<1>3. GaplessInv => TrimIsExact
  BY TrimmedIsExact
<1> QED BY <1>1, <1>2, <1>3, PTL DEF StreamingSpec

=============================================================================
