-------------------------- MODULE StreamingDecoder --------------------------
(***************************************************************************)
(* `StreamingDecoder` over an HTTP source: opening and probing, decoding    *)
(* packet by packet, the gapless trim of the encoder's delay and padding    *)
(* by exactly one owner, coarse seeks, cancellation.                        *)
(*                                                                         *)
(* The container reader and the codec are Symphonia's.  Packet i is byte i  *)
(* of the source and PacketFrames frames long unless it is of another       *)
(* track; the first Delay frames and the last Padding ones are the          *)
(* encoder's.  Frames are numbered from the first one of the first packet.  *)
(***************************************************************************)
EXTENDS HttpRangeStream, FiniteSets

CONSTANTS
  PacketFrames, \* frames a packet decodes to
  Foreign,      \* packets of other tracks
  Delay,        \* encoder_delay
  Padding       \* end_padding

ASSUME DecoderAssumption ==
  /\ PacketFrames \in Nat \ {0} /\ Foreign \subseteq Nat
  /\ Delay \in Nat /\ Padding \in Nat

VARIABLES
  owner,    \* GaplessOwner: "native" (MP3, Vorbis) or "track"
  decoder,  \* see DecoderInit
  reader,   \* [External] the next packet, and whether its byte has been read
  outcome,  \* what the last call on the decoder returned
  \* history: the frames heard since the last seek, where that landed, whether a
  \* packet was lost since, and the spans returned since the token was set
  heard, base, sought, lost, playedLate

decoderVars == <<owner, decoder, reader, outcome, heard, base, sought, lost, playedLate>>
streamingVars == <<httpVars, decoderVars>>

\* The frame at which packet i starts.
FrameOf(i) == PacketFrames * Cardinality((0..i - 1) \ Foreign)

\* `raw_total_frames`: the programme's frames and both trim regions.
RawTotal == FrameOf(stream.length)
ProgrammeEnd == RawTotal - Padding

DecoderInit ==
  /\ owner \in {"native", "track"}
  /\ decoder = [phase |-> "closed", output |-> 0, finished |-> FALSE, atStart |-> FALSE]
  /\ reader = [next |-> 0, held |-> 0]
  /\ outcome = "none"
  /\ heard = {} /\ base = 0 /\ sought = FALSE /\ lost = FALSE /\ playedLate = 0

StreamingInit == HttpInit /\ DecoderInit

history == <<heard, base, sought, lost, playedLate>>
Return(kind) == outcome' = kind

-----------------------------------------------------------------------------
(* Opening: the source, the probe, the decoder.                            *)

Open ==
  /\ decoder.phase = "closed" /\ OpenSource
  /\ decoder' = [decoder EXCEPT !.phase = "opening"]
  /\ UNCHANGED <<owner, reader, outcome, history>>

\* `probe_opened_source` starts reading, unless the token is set.
Probe ==
  /\ decoder.phase = "opening" /\ Idle
  /\ IF reply.kind = "opened" /\ ~cancelled
     THEN decoder' = [decoder EXCEPT !.phase = "probing"] /\ UNCHANGED outcome
     ELSE /\ decoder' = [decoder EXCEPT !.phase = "failed"]
          /\ Return(IF cancelled \/ reply.kind = "cancelled" THEN "cancelled" ELSE "error")
  /\ UNCHANGED <<httpVars, owner, reader, history>>

\* `StreamingDecoderBuilder::build`.
Built == [decoder EXCEPT !.phase = "ready", !.atStart = (owner = "track")]

\* The container has been recognised; `build` looks at the token again.
Build ==
  /\ decoder.phase = "probing" /\ Idle /\ reader.held > 0
  /\ IF cancelled
     THEN Return("cancelled") /\ decoder' = [decoder EXCEPT !.phase = "failed"]
     ELSE Return("opened") /\ decoder' = Built
  /\ UNCHANGED <<httpVars, owner, reader, history>>

-----------------------------------------------------------------------------
(* The container reader: [External].                                       *)

Reading == decoder.phase \in {"probing", "reading"} /\ Idle /\ reader.held = 0

\* It asks for as many bytes as it likes.
ReadOn ==
  /\ Reading /\ reply.kind \notin {"bytes", "eof", "error", "cancelled"}
  /\ \E n \in ReadSizes : Read(n) \/ ReadMemory(n)
  /\ UNCHANGED decoderVars

\* Bytes arrive; the reply is consumed.
Receive ==
  /\ Reading /\ reply.kind = "bytes"
  /\ reader' = [reader EXCEPT !.held = Len(reply.bytes)]
  /\ reply' = NoReply
  /\ UNCHANGED <<origin, cancelled, stream, request, sentLate>>
  /\ UNCHANGED <<owner, decoder, outcome, history>>

\* A failed read that the reader passes on is an I/O error, whatever its kind: a
\* probe ends with `Probe`, a decode with `Decoder`; the end of file ends the stream.
Broken ==
  /\ Reading /\ reply.kind \in {"eof", "error", "cancelled"}
  /\ IF decoder.phase = "probing"
     THEN decoder' = [decoder EXCEPT !.phase = "failed"] /\ Return("error")
     ELSE /\ decoder' = [decoder EXCEPT !.phase = "ready",
                                        !.finished = @ \/ reply.kind = "eof"]
          /\ Return(IF reply.kind = "eof" THEN "end" ELSE "error")
  /\ reply' = NoReply
  /\ UNCHANGED <<origin, cancelled, stream, request, sentLate>>
  /\ UNCHANGED <<owner, reader, history>>

\* A cancelled read has the kind `Interrupted`, which a reader that wants an exact
\* number of bytes takes for a call to try again: it may read on, time after time.
Retried ==
  /\ Reading /\ reply.kind = "cancelled"
  /\ reply' = NoReply
  /\ UNCHANGED <<origin, cancelled, stream, request, sentLate, decoderVars>>

-----------------------------------------------------------------------------
(* `decode_next_span`.                                                     *)

\* A finished decoder answers before it looks at the token.
Decode ==
  /\ decoder.phase = "ready"
  /\ IF decoder.finished
     THEN Return("end") /\ UNCHANGED decoder
     ELSE IF cancelled THEN Return("cancelled") /\ UNCHANGED decoder
     ELSE decoder' = [decoder EXCEPT !.phase = "looping"] /\ UNCHANGED outcome
  /\ UNCHANGED <<httpVars, owner, reader, history>>

DecodeNext ==
  /\ decoder.phase = "looping"
  /\ IF cancelled
     THEN Return("cancelled") /\ decoder' = [decoder EXCEPT !.phase = "ready"]
     ELSE decoder' = [decoder EXCEPT !.phase = "reading"] /\ UNCHANGED outcome
  /\ UNCHANGED <<httpVars, owner, reader, history>>

Consumed == [next |-> reader.next + 1, held |-> reader.held - 1]

\* [External] The frames a packet decodes to: a codec that owns the trim leaves
\* the encoder's frames out.
Decoded(i) ==
  LET frames == FrameOf(i)..FrameOf(i) + PacketFrames - 1
  IN IF owner = "native" THEN frames \cap (Delay..ProgrammeEnd - 1) ELSE frames

\* `next_packet` and `decode` on a packet without frames for the caller: it is of
\* another track, or all of it is trimmed by the codec, or it does not decode.
PacketSkipped ==
  /\ decoder.phase = "reading" /\ reader.held > 0 /\ reader' = Consumed
  /\ \/ /\ reader.next \in Foreign \/ Decoded(reader.next) = {}
        /\ UNCHANGED lost
     \/ /\ reader.next \notin Foreign /\ lost' = TRUE
  /\ decoder' = [decoder EXCEPT !.phase = "looping"]
  /\ UNCHANGED <<httpVars, owner, outcome, heard, base, sought, playedLate>>

\* A codec error, another channel count, or more frames than the staging holds.
PacketFails ==
  /\ decoder.phase = "reading" /\ reader.held > 0 /\ reader.next \notin Foreign
  /\ reader' = Consumed /\ lost' = TRUE
  /\ decoder' = [decoder EXCEPT !.phase = "ready"] /\ Return("error")
  /\ UNCHANGED <<httpVars, owner, heard, base, sought, playedLate>>

\* The frames of the delay a packet of `count` starts with.
DelayToSkip(count) ==
  IF owner = "track" /\ decoder.atStart
  THEN Least(Most(Delay - decoder.output, 0), count) ELSE 0

\* How many of the rest lie before the padding.
Room(count, skip) ==
  IF owner = "track"
  THEN Least(count - skip, Most(ProgrammeEnd - (decoder.output + skip), 0))
  ELSE count

\* A packet with frames: the delay is skipped at the true start only, and what
\* reaches into the padding is cut; nothing left there ends the stream.
PacketDecoded ==
  /\ decoder.phase = "reading" /\ reader.held > 0
  /\ reader.next \notin Foreign /\ Decoded(reader.next) # {}
  /\ reader' = Consumed
  /\ LET frames == Decoded(reader.next)
         count == Cardinality(frames)
         first == CHOOSE f \in frames : \A g \in frames : f <= g
         skip == DelayToSkip(count)
         kept == Room(count, skip)
     IN IF skip = count
        THEN /\ decoder' = [decoder EXCEPT !.phase = "looping", !.output = @ + skip]
             /\ UNCHANGED <<outcome, heard, playedLate>>
        ELSE /\ decoder' = [decoder EXCEPT !.phase = "ready", !.output = @ + skip + kept,
                              !.atStart = FALSE, !.finished = (kept = 0)]
             /\ Return(IF kept = 0 THEN "end" ELSE "audio")
             /\ heard' = heard \cup (first + skip..first + skip + kept - 1)
             /\ playedLate' = IF cancelled /\ kept > 0 THEN playedLate + 1 ELSE playedLate
  /\ UNCHANGED <<httpVars, owner, base, sought, lost>>

-----------------------------------------------------------------------------
(* `seek`.                                                                 *)

\* Mutant: the presentation time of the packet is taken for its raw position.
BugRawPosition(i) == Most(FrameOf(i) - Delay, 0)

\* `timestamp_to_frame_offset`: packets are stamped with presentation times from
\* -Delay on; the raw cursor of a track-level trim counts the delay too.
RawPosition(i) ==
  LET presentation == FrameOf(i) - Delay
  IN Most(presentation + (IF owner = "track" THEN Delay ELSE 0), 0)

\* A coarse seek lands on a packet; the delay is not armed again.  A refused one
\* changes nothing.
SeekTo(i) ==
  /\ decoder.phase = "ready" /\ i \notin Foreign
  /\ \/ /\ Seek(i) /\ Return("sought")
        /\ decoder' = [decoder EXCEPT !.finished = FALSE, !.output = RawPosition(i),
                                      !.atStart = FALSE]
        /\ reader' = [next |-> i, held |-> 0]
        /\ heard' = {} /\ base' = FrameOf(i) /\ sought' = TRUE /\ lost' = FALSE
     \/ /\ Return("error") /\ UNCHANGED <<httpVars, decoder, reader, heard, base, sought, lost>>
  /\ UNCHANGED <<owner, playedLate>>

-----------------------------------------------------------------------------
Step == Open \/ Probe \/ Build \/ ReadOn \/ Receive \/ Broken \/ Retried \/ DecodeNext
        \/ PacketSkipped \/ PacketFails \/ PacketDecoded \/ (Exchange /\ UNCHANGED decoderVars)
Call == Decode \/ \E i \in 0..stream.length - 1 : SeekTo(i)
Environment == (Cancel \/ Replace) /\ UNCHANGED decoderVars

StreamingNext == Step \/ Call \/ Environment

StreamingSpec == StreamingInit /\ [][StreamingNext]_streamingVars

\* Every request is answered or times out, and a call that has begun goes on.
FairStreaming == StreamingSpec /\ WF_streamingVars(Step)

-----------------------------------------------------------------------------
(* Properties.                                                             *)

\* `current_frame`: where the next packet starts, or the end of the programme
\* within it, in the frames of the owner.
CursorIsTruthful ==
  LET frame == Least(FrameOf(reader.next), Most(base, ProgrammeEnd))
  IN decoder.output = IF owner = "track" THEN frame ELSE Most(frame - Delay, 0)

\* As long as no packet was lost, the cursor is right; and whichever owner trims,
\* what is heard since the start or the last seek is a prefix of the programme
\* from there on, and all of it at the end; only a seek into the delay hears the
\* delay ("never after an arbitrary seek").  After a cancellation no packet but the
\* one under way is heard.
Due == {f \in (IF sought THEN 0 ELSE Delay)..ProgrammeEnd - 1 : f >= base}
TrimIsExact ==
  /\ decoder.phase = "ready" /\ ~lost =>
       /\ CursorIsTruthful
       /\ owner = "track" \/ base >= Delay \/ ~sought =>
            /\ heard \subseteq Due
            /\ \A f \in heard, g \in Due : g < f => g \in heard
            /\ outcome = "end" => heard = Due
  /\ playedLate <= 1

\* Every call returns, or the source has told its reader of the cancellation: no
\* timeout, retry, broken body, refused range or skipped packet keeps it.  What a
\* reader makes of an interruption that is repeated for ever is not for the source.
Interrupted == Reading /\ reply.kind = "cancelled"
CallsReturn == decoder.phase \notin {"closed", "ready", "failed"}
               ~> decoder.phase \in {"ready", "failed"} \/ Interrupted

=============================================================================
