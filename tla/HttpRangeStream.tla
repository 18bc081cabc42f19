-------------------------- MODULE HttpRangeStream --------------------------
(***************************************************************************)
(* The HTTP media source: a capability probe and an initial range request,  *)
(* reads and seeks served from one prefetched range at a time, retries of   *)
(* transient failures, a cooperative cancel token another thread may set at *)
(* any moment, and the bounded full download of an origin that refuses      *)
(* ranges.  The origin may change the resource, time out, reset, or answer  *)
(* a range wrongly, at every request.                                       *)
(*                                                                         *)
(* A byte is its offset and the version of the resource it belongs to.      *)
(***************************************************************************)
EXTENDS Integers, Sequences

CONSTANTS
  Versions,    \* representations of the resource the origin may hold
  LengthOf,    \* the length of each
  Prefetch,    \* RANGE_PREFETCH
  ReadSizes,   \* output buffers a reader passes
  MaxAttempts, \* NETWORK_MAX_ATTEMPTS, one more than NETWORK_BACKOFF_DELAYS has
  MaxDownload  \* the decode memory limit over NON_RANGE_DOWNLOAD_MEMORY_DIVISOR

ASSUME HttpAssumption ==
  /\ LengthOf \in [Versions -> Nat \ {0}]
  /\ Prefetch \in Nat \ {0} /\ MaxAttempts \in Nat \ {0} /\ MaxDownload \in Nat
  /\ ReadSizes \subseteq Nat \ {0}

VARIABLES
  origin,    \* the version the origin holds now
  cancelled, \* DecodeCancelToken
  stream,    \* RangeStream, or the Cursor over a full download
  request,   \* the exchange under way, its attempt and stage
  reply,     \* what the last call on the source returned
  sentLate   \* history: requests sent since the token was set

httpVars == <<origin, cancelled, stream, request, reply, sentLate>>

Unknown == -1
Least(a, b) == IF a <= b THEN a ELSE b
Most(a, b) == IF a >= b THEN a ELSE b

NoRequest == [purpose |-> "none", stage |-> "idle", start |-> 0, len |-> 0,
              total |-> Unknown, want |-> 0, attempt |-> 1,
              version |-> CHOOSE v \in Versions : TRUE]
NoReply == [kind |-> "none", at |-> 0, bytes |-> <<>>]
Answer(kind) == [NoReply EXCEPT !.kind = kind, !.at = stream.position]

HttpInit ==
  /\ origin \in Versions /\ cancelled = FALSE
  /\ stream = [phase |-> "closed", position |-> 0, length |-> 0, start |-> 0, buffer |-> <<>>]
  /\ request = NoRequest /\ reply = NoReply
  /\ sentLate = 0

Ask(purpose, start, len, total) ==
  [NoRequest EXCEPT !.purpose = purpose, !.stage = "check", !.start = start,
                    !.len = len, !.total = total]

Idle == request.purpose = "none"

\* `DecodeCancelToken::cancel`, from any thread.
Cancel ==
  /\ ~cancelled /\ cancelled' = TRUE
  /\ UNCHANGED <<origin, stream, request, reply, sentLate>>

\* [External] The origin replaces the resource.
Replace ==
  /\ \E v \in Versions \ {origin} : origin' = v
  /\ UNCHANGED <<cancelled, stream, request, reply, sentLate>>

-----------------------------------------------------------------------------
(* Opening and the calls of a reader.                                      *)

\* `open_media_source`: the token first, then the capability probe of one byte.
OpenSource ==
  /\ stream.phase = "closed" /\ Idle
  /\ IF cancelled
     THEN /\ reply' = Answer("cancelled") /\ stream' = [stream EXCEPT !.phase = "failed"]
          /\ UNCHANGED request
     ELSE /\ request' = Ask("probe", 0, 1, Unknown)
          /\ stream' = [stream EXCEPT !.phase = "opening"] /\ UNCHANGED reply
  /\ UNCHANGED <<origin, cancelled, sentLate>>

\* The bytes a call for `n` gets from a buffer that covers the position.
Served(s, n) ==
  LET offset == s.position - s.start
      count == Least(n, Len(s.buffer) - offset)
  IN SubSeq(s.buffer, offset + 1, offset + count)

\* `read` answers from stream `s`, and the position moves past what it returned.
Serve(s, n) ==
  LET bytes == Served(s, n)
  IN /\ reply' = [kind |-> IF bytes = <<>> THEN "eof" ELSE "bytes",
                  at |-> s.position, bytes |-> bytes]
     /\ stream' = [s EXCEPT !.position = @ + Len(bytes)]

Buffered(n) ==
  /\ stream.position >= stream.start
  /\ stream.position + n <= stream.start + Len(stream.buffer)

\* The range `ensure_buffered` asks for.
AskFor(n) ==
  [Ask("read", stream.position,
       Least(Most(n, Prefetch), stream.length - stream.position), stream.length)
     EXCEPT !.want = n]

\* Mutant: the new range is recorded before it has been fetched.
BugRead(n) ==
  /\ stream.phase = "ready" /\ Idle /\ UNCHANGED <<origin, cancelled, sentLate>>
  /\ IF cancelled
     THEN reply' = Answer("cancelled") /\ UNCHANGED <<stream, request>>
     ELSE IF stream.position >= stream.length
     THEN reply' = Answer("eof") /\ UNCHANGED <<stream, request>>
     ELSE IF Buffered(n)
     THEN Serve(stream, n) /\ UNCHANGED request
     ELSE /\ stream' = [stream EXCEPT !.start = stream.position]
          /\ request' = AskFor(n)
          /\ UNCHANGED reply

\* `RangeStream::read` and `ensure_buffered` up to its request.
Read(n) ==
  /\ stream.phase = "ready" /\ Idle /\ UNCHANGED <<origin, cancelled, sentLate>>
  /\ IF cancelled
     THEN reply' = Answer("cancelled") /\ UNCHANGED <<stream, request>>
     ELSE IF stream.position >= stream.length
     THEN reply' = Answer("eof") /\ UNCHANGED <<stream, request>>
     ELSE IF Buffered(n)
     THEN Serve(stream, n) /\ UNCHANGED request
     ELSE /\ request' = AskFor(n)
          /\ UNCHANGED <<stream, reply>>

\* The `Cursor` over a full download looks at no token.
ReadMemory(n) ==
  /\ stream.phase = "memory" /\ Idle
  /\ IF stream.position >= stream.length
     THEN reply' = Answer("eof") /\ UNCHANGED stream
     ELSE Serve(stream, n)
  /\ UNCHANGED <<origin, cancelled, request, sentLate>>

\* `seek`: any position but a negative one, the end and beyond included; the
\* buffer stays.
Seek(to) ==
  /\ stream.phase \in {"ready", "memory"} /\ Idle
  /\ stream' = IF to < 0 THEN stream ELSE [stream EXCEPT !.position = to]
  /\ reply' = Answer(IF to < 0 THEN "error" ELSE "sought")
  /\ UNCHANGED <<origin, cancelled, request, sentLate>>

-----------------------------------------------------------------------------
(* `with_network_retry` around `fetch_range_once` or the download's GET.    *)

\* What an error that ends the operation does: a source that is being opened
\* falls back to the download when the origin answered without the range.
GiveUp(kind) ==
  IF request.purpose \in {"probe", "initial"} /\ kind \in {"refused", "invalid"}
  THEN request' = Ask("download", 0, 0, Unknown) /\ UNCHANGED <<stream, reply>>
  ELSE /\ request' = NoRequest
       /\ reply' = Answer(IF kind = "cancelled" THEN kind ELSE "error")
       /\ stream' = IF request.purpose = "read" THEN stream
                    ELSE [stream EXCEPT !.phase = "failed"]

\* `check_cancelled`, the first thing an attempt does.
Check ==
  /\ request.stage = "check"
  /\ IF cancelled THEN GiveUp("cancelled")
     ELSE request' = [request EXCEPT !.stage = "send"] /\ UNCHANGED <<stream, reply>>
  /\ UNCHANGED <<origin, cancelled, sentLate>>

Send ==
  /\ request.stage = "send" /\ request' = [request EXCEPT !.stage = "sent"]
  /\ sentLate' = IF cancelled THEN sentLate + 1 ELSE sentLate
  /\ UNCHANGED <<origin, cancelled, stream, reply>>

\* Mutant: retries start over.
BugFail(kind, retried) ==
  IF kind = "transient" /\ retried
  THEN request' = [request EXCEPT !.stage = "check"] /\ UNCHANGED <<stream, reply>>
  ELSE GiveUp(kind)

\* Only timeouts, resets and transient statuses are tried again, after a sleep
\* the token does not interrupt.
Fail(kind, retried) ==
  IF kind = "transient" /\ retried /\ request.attempt < MaxAttempts
  THEN /\ request' = [request EXCEPT !.stage = "check", !.attempt = @ + 1]
       /\ UNCHANGED <<stream, reply>>
  ELSE GiveUp(kind)

\* `ContentRange::validate` of an honest answer of the origin.
RangeMatches ==
  /\ request.start + request.len <= LengthOf[origin]
  /\ request.total \in {Unknown, LengthOf[origin]}

\* The status line and the headers arrive, or do not.
Headers(kind) ==
  /\ request.stage = "sent"
  /\ request.purpose = "download" => kind \notin {"refused", "invalid"}
  /\ IF kind = "good"
     THEN /\ request' = [request EXCEPT !.stage = "body", !.version = origin]
          /\ UNCHANGED <<stream, reply>>
     ELSE Fail(kind, TRUE)
  /\ UNCHANGED <<origin, cancelled, sentLate>>

\* A range the origin cannot match ends as an invalid answer, never as a good one.
Answered ==
  \E kind \in {"good", "refused", "invalid", "transient", "final"} :
    /\ kind = "good" /\ request.purpose # "download" => RangeMatches
    /\ Headers(kind)

BytesOf(v, start, len) == [i \in 1..len |-> [at |-> start + i - 1, version |-> v]]

\* A whole body.
Completed ==
  LET body == BytesOf(request.version, request.start, request.len)
      total == LengthOf[request.version]
      first == Least(Prefetch, total)
      open == [stream EXCEPT !.phase = "ready", !.length = total, !.buffer = body]
  IN \/ /\ request.purpose = "probe" /\ first > 1
        /\ request' = Ask("initial", 0, first, total) /\ UNCHANGED <<stream, reply>>
     \/ /\ request.purpose = "initial" \/ (request.purpose = "probe" /\ first = 1)
        /\ stream' = open /\ request' = NoRequest /\ reply' = Answer("opened")
     \/ /\ request.purpose = "read" /\ request' = NoRequest
        /\ Serve([stream EXCEPT !.start = stream.position, !.buffer = body], request.want)
     \/ /\ request.purpose = "download" /\ request' = NoRequest
        /\ IF total > MaxDownload
           THEN /\ reply' = Answer("error") /\ stream' = [stream EXCEPT !.phase = "failed"]
           ELSE /\ stream' = [open EXCEPT !.phase = "memory",
                                          !.buffer = BytesOf(request.version, 0, total)]
                /\ reply' = Answer("opened")

\* What a timeout or a reset in the middle of a body counts as.
BodyFailure == [kind |-> "transient", again |-> request.purpose # "download"]

\* `read_bounded_body`, or the download's loop, whose failures are not retried.
\* A body that ends early is an invalid range.
Body ==
  /\ request.stage = "body"
  /\ \/ cancelled /\ GiveUp("cancelled")
     \/ ~cancelled /\ Completed
     \/ Fail(BodyFailure.kind, BodyFailure.again)
     \/ GiveUp("final")
     \/ request.purpose # "download" /\ GiveUp("invalid")
  /\ UNCHANGED <<origin, cancelled, sentLate>>

Exchange == Check \/ Send \/ Answered \/ Body

-----------------------------------------------------------------------------
(* Properties.                                                             *)

\* Every read returns the bytes at the position it was made at, and end of file
\* only at the end, whatever seeks and failed requests came before it.  A resource
\* replaced under an open stream never yields bytes of a representation of
\* another length than the one opened (two of one length may mix).  Of the
\* requests and retries still ahead when the token is set, one at most is sent.
ReadsAreFaithful ==
  /\ reply.kind = "bytes" =>
       /\ reply.bytes # <<>>
       /\ \A i \in DOMAIN reply.bytes :
            /\ reply.bytes[i].at = reply.at + i - 1
            /\ LengthOf[reply.bytes[i].version] = stream.length
  /\ reply.kind = "eof" => reply.at >= stream.length
  /\ sentLate <= 1

=============================================================================
