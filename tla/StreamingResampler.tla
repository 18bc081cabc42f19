--------------------------- MODULE StreamingResampler ---------------------------
(***************************************************************************)
(* `StreamingResampler`: a processor around backends of another library,    *)
(* one interleaved backend or one per channel.  A call goes round by round, *)
(* and in a round every channel's backend is called in turn; the caller     *)
(* learns of progress only when a whole call succeeds.  `Resampler` converts *)
(* a whole buffer instead, every channel on a thread and a backend of its    *)
(* own; the two share nothing, so one of them runs in a behaviour.           *)
(*                                                                         *)
(* A backend is external: it takes what it needs to fill the output, makes  *)
(* output frame n of the input frame at that time, holds its look-ahead     *)
(* back until it is drained, and any call on it may fail and change         *)
(* nothing; bounds: one such failure until a reset succeeds, and a caller    *)
(* that goes on without a reset only tries again.  Frames are numbered from *)
(* 1.                                                                        *)
(***************************************************************************)
EXTENDS Integers, Sequences, FiniteSets

CONSTANTS
  Layouts,     \* [interleaved, channels, from, to]
  Lookahead,   \* input frames that a backend holds back
  StreamingMaxInput, \* STREAMING_MAX_INPUT_FRAMES
  OneShotChunk,\* ONE_SHOT_INPUT_CHUNK_FRAMES
  Slack,       \* PROCESS_OUTPUT_BURST_SLACK_FRAMES
  InputSizes, OutputSizes,
  MaxTaken     \* bound: input frames since a reset

ASSUME ResamplerAssumption ==
  /\ \A l \in Layouts : {l.channels, l.from, l.to} \subseteq Nat \ {0} /\ l.interleaved \in BOOLEAN
  /\ {StreamingMaxInput, OneShotChunk} \subseteq Nat \ {0} /\ {Lookahead, Slack} \subseteq Nat
  /\ InputSizes \cup OutputSizes \subseteq Nat

VARIABLES
  resampler, \* layout, finishing, finished
  backends,  \* per backend: the frames it was fed, how many it made, whether it is drained
  outputs,   \* channel_outputs
  round,     \* the call under way, and the progress of its round
  delivered, \* history: per output frame what each channel was made of
  taken,     \* history: input frames that calls said they consumed
  broken,    \* history: a backend failed since the last reset that did not
  returned,  \* what the last call returned
  conversion \* the threads of a one-shot conversion, and what it returned

resamplerVars ==
  <<resampler, backends, outputs, round, delivered, taken, broken, returned, conversion>>

FewerOf(a, b) == IF a <= b THEN a ELSE b
Ceiling(n, from, to) == (n * to + from - 1) \div from

Layout == resampler.layout
SameRate == Layout.from = Layout.to
Backends == DOMAIN backends

-----------------------------------------------------------------------------
(* The external backend.                                                   *)

NewBackend == [fed |-> <<>>, made |-> 0, drained |-> FALSE]

\* Output frame n is made of input frame SourceOf(n).
SourceOf(n) == ((n - 1) * Layout.from) \div Layout.to + 1
RoundedDuration(n) == (2 * n * Layout.to + Layout.from) \div (2 * Layout.from)

\* How many frames a backend can have made of what it was fed.
MadeOf(fed, drained) ==
  IF drained THEN RoundedDuration(Len(fed))
  ELSE Cardinality({n \in 1..RoundedDuration(Len(fed)) : SourceOf(n) + Lookahead <= Len(fed)})

FrameOfBackend(b, n) == IF SourceOf(n) <= Len(b.fed) THEN b.fed[SourceOf(n)] ELSE 0

\* `process`: no more input than fills the output; `drain`.
Processed(b, block, room) ==
  LET enough == {c \in 0..Len(block) : MadeOf(b.fed \o SubSeq(block, 1, c), FALSE) - b.made >= room}
      c == IF enough = {} THEN Len(block) ELSE CHOOSE n \in enough : \A m \in enough : n <= m
      after == [b EXCEPT !.fed = @ \o SubSeq(block, 1, c)]
      count == FewerOf(room, MadeOf(after.fed, FALSE) - b.made)
  IN [backend |-> [after EXCEPT !.made = @ + count], consumed |-> c, produced |-> count]
DrainedBy(b, room) ==
  LET count == FewerOf(room, MadeOf(b.fed, TRUE) - b.made)
  IN [backend |-> [b EXCEPT !.made = @ + count, !.drained = TRUE], consumed |-> 0, produced |-> count]

-----------------------------------------------------------------------------
(* Calls.                                                                  *)

NoRound == [op |-> "none", first |-> 1, left |-> 0, room |-> 0, channel |-> 1,
            consumed |-> 0, produced |-> <<>>, progress |-> <<>>]

NoConversion == [threads |-> <<>>, frames |-> 0, answer |-> "none", made |-> <<>>]

ResamplerInit ==
  /\ \E layout \in Layouts :
       /\ resampler = [layout |-> layout, finishing |-> FALSE, finished |-> FALSE]
       /\ backends = [b \in 1..(IF layout.interleaved THEN 1 ELSE layout.channels) |-> NewBackend]
  /\ outputs = [b \in Backends |-> <<>>] /\ round = NoRound
  /\ delivered = <<>> /\ taken = 0 /\ broken = FALSE /\ returned = "none"
  /\ conversion = NoConversion

Deliver(frames, consumed, answer) ==
  /\ delivered' = delivered \o frames /\ taken' = taken + consumed
  /\ returned' = answer /\ round' = NoRound

\* What is left is lost to the caller.
FailCall ==
  /\ returned' = "error" /\ round' = NoRound
  /\ UNCHANGED <<delivered, taken>>

MayCall == broken => returned = "error" /\ Len(backends[1].fed) <= MaxTaken

AllAlike(n) == [b \in Backends |-> n]
Identity(n) == [i \in 1..n |-> AllAlike(taken + i)]

\* `process`: refused after `finish`; at equal rates a copy.
ResamplerProcess ==
  /\ round.op = "none" /\ MayCall
  /\ \E n \in InputSizes, room \in OutputSizes :
       /\ taken + n <= MaxTaken
       /\ IF resampler.finishing
          THEN returned' = "refused" /\ UNCHANGED <<round, delivered, taken>>
          ELSE IF SameRate
          THEN LET count == FewerOf(n, room)
               IN Deliver(Identity(count), count, IF count < n THEN "need_output" ELSE "need_input")
          ELSE IF n = 0 \/ room = 0
          THEN Deliver(<<>>, 0, IF n = 0 THEN "need_input" ELSE "need_output")
          ELSE /\ round' = [NoRound EXCEPT !.op = "process", !.first = taken + 1, !.left = n, !.room = room]
               /\ returned' = "none" /\ UNCHANGED <<delivered, taken>>
  /\ UNCHANGED <<resampler, backends, outputs, broken>>

\* `finish`: once finished, or at equal rates, there is nothing more.
ResamplerFinish ==
  /\ round.op = "none" /\ MayCall
  /\ \E room \in OutputSizes :
       IF SameRate
       THEN /\ resampler' = [resampler EXCEPT !.finishing = TRUE, !.finished = TRUE]
            /\ Deliver(<<>>, 0, "finished")
       ELSE IF resampler.finished THEN Deliver(<<>>, 0, "finished") /\ UNCHANGED resampler
       ELSE /\ resampler' = [resampler EXCEPT !.finishing = TRUE]
            /\ IF room = 0 THEN Deliver(<<>>, 0, "need_output")
               ELSE /\ round' = [NoRound EXCEPT !.op = "finish", !.room = room]
                    /\ returned' = "none" /\ UNCHANGED <<delivered, taken>>
  /\ UNCHANGED <<backends, outputs, broken>>

\* What a step may take and make; an interleaved backend has the caller's blocks.
StepInput == IF Layout.interleaved THEN round.left ELSE FewerOf(round.left, StreamingMaxInput)
StepRoom ==
  IF Layout.interleaved THEN round.room
  ELSE FewerOf(round.room, Ceiling(StreamingMaxInput, Layout.from, Layout.to) + Slack)

\* Mutant: a drain goes on from what the last step left in the buffers.
BugEmptyBuffer == IF round.op = "finish" THEN outputs[round.channel] ELSE <<>>

\* The buffer of a channel as a step finds it: both loops clear it.
EmptyBuffer == <<>>

\* One channel's turn in a round: the first one sets the progress of all.
ChannelTurn ==
  /\ round.op # "none" /\ round.channel \in Backends
  /\ \/ LET b == backends[round.channel]
            block == [i \in 1..StepInput |-> round.first + i - 1]
            done == IF round.op = "process" THEN Processed(b, block, StepRoom) ELSE DrainedBy(b, StepRoom)
            made == [i \in 1..done.produced |-> FrameOfBackend(done.backend, b.made + i)]
            progress == <<done.consumed, done.produced>>
        IN /\ backends' = [backends EXCEPT ![round.channel] = done.backend]
           /\ IF round.channel > 1 /\ progress # round.progress
              THEN FailCall /\ UNCHANGED <<outputs, broken>>
              ELSE /\ outputs' = [outputs EXCEPT ![round.channel] = EmptyBuffer \o made]
                   /\ round' = [round EXCEPT !.channel = @ + 1, !.progress = progress]
                   /\ UNCHANGED <<broken, returned, delivered, taken>>
     \/ ~broken /\ broken' = TRUE /\ FailCall /\ UNCHANGED <<backends, outputs>>
  /\ UNCHANGED resampler

Interleaved == [i \in 1..Len(outputs[1]) |->
                  [b \in Backends |-> IF i <= Len(outputs[b]) THEN outputs[b][i] ELSE 0]]

\* The end of a round of `process`.
ProcessRound ==
  /\ round.op = "process" /\ round.channel \notin Backends
  /\ LET consumed == round.consumed + round.progress[1]
         produced == round.produced \o Interleaved
         left == round.left - round.progress[1]
         room == round.room - round.progress[2]
     IN IF round.progress = <<0, 0>> \/ Len(Interleaved) # round.progress[2] THEN FailCall
        ELSE IF left = 0 THEN Deliver(produced, consumed, "need_input")
        ELSE IF room = 0 THEN Deliver(produced, consumed, "need_output")
        ELSE /\ round' = [round EXCEPT !.channel = 1, !.first = @ + round.progress[1], !.left = left,
                                       !.room = room, !.consumed = consumed, !.produced = produced]
             /\ UNCHANGED <<delivered, taken, returned>>
  /\ UNCHANGED <<resampler, backends, outputs, broken>>

\* The end of a round of `finish`: for one interleaved backend a short drain is the last.
FinishRound ==
  /\ round.op = "finish" /\ round.channel \notin Backends
  /\ LET produced == round.produced \o Interleaved
         room == round.room - round.progress[2]
         last == IF Layout.interleaved THEN room > 0 ELSE round.progress[2] = 0
     IN IF Len(Interleaved) # round.progress[2] THEN FailCall /\ UNCHANGED resampler
        ELSE IF last
        THEN /\ resampler' = [resampler EXCEPT !.finished = TRUE]
             /\ Deliver(produced, 0, "finished")
        ELSE IF room = 0
        THEN Deliver(produced, 0, "need_output") /\ UNCHANGED resampler
        ELSE /\ round' = [round EXCEPT !.channel = 1, !.room = room, !.produced = produced]
             /\ UNCHANGED <<resampler, delivered, taken, returned>>
  /\ UNCHANGED <<backends, outputs, broken>>

\* `reset`: every backend is cleared, also after one that cannot be.
ResamplerReset ==
  /\ round.op = "none"
  /\ \E stuck \in {{}} \cup {{b} : b \in Backends} :
       /\ broken => stuck = {}
       /\ backends' = [b \in Backends |-> IF b \in stuck THEN backends[b] ELSE NewBackend]
       /\ broken' = (stuck # {})
       /\ returned' = IF stuck = {} THEN "none" ELSE "error"
  /\ outputs' = [b \in Backends |-> <<>>]
  /\ resampler' = [resampler EXCEPT !.finishing = FALSE, !.finished = FALSE]
  /\ delivered' = <<>> /\ taken' = 0 /\ UNCHANGED round

-----------------------------------------------------------------------------
(* `Resampler::resample_parallel`.                                         *)

\* `resample_one_channel`, a backend that may not be made included: chunk by chunk
\* through a scratch block, then drained until nothing comes.
NewThread(n) ==
  [backend |-> NewBackend, offset |-> 0, output |-> <<>>, at |-> IF n = 0 THEN "drain" ELSE "process"]

\* At equal rates a copy; else a thread per channel.
ResampleParallel ==
  /\ conversion = NoConversion /\ returned = "none" /\ ~broken
  /\ round = NoRound /\ Len(backends[1].fed) = 0
  /\ \E n \in InputSizes :
       conversion' =
         IF SameRate THEN [NoConversion EXCEPT !.frames = n, !.answer = "ok",
                             !.made = [i \in 1..n |-> [ch \in 1..Layout.channels |-> i]]]
         ELSE [NoConversion EXCEPT !.frames = n, !.answer = "running",
                 !.threads = [ch \in 1..Layout.channels |-> NewThread(n)]]

ScratchFrames == Ceiling(OneShotChunk, Layout.from, Layout.to) + Slack

\* What is left of the chunk the thread is in.
ChunkLeft(t) ==
  LET end == FewerOf((t.offset \div OneShotChunk + 1) * OneShotChunk, conversion.frames)
  IN [i \in 1..(end - t.offset) |-> t.offset + i]

\* One call of a thread on its backend.
ThreadStep(ch) ==
  LET t == conversion.threads[ch]
      done == IF t.at = "process" THEN Processed(t.backend, ChunkLeft(t), ScratchFrames)
              ELSE DrainedBy(t.backend, ScratchFrames)
      made == [i \in 1..done.produced |-> FrameOfBackend(done.backend, t.backend.made + i)]
      offset == t.offset + done.consumed
      stalled == t.at = "process" /\ done.consumed = 0 /\ done.produced = 0
      at == CASE stalled -> "failed"
              [] t.at = "process" -> IF offset = conversion.frames THEN "drain" ELSE "process"
              [] OTHER -> IF done.produced = 0 THEN "done" ELSE "drain"
  IN /\ conversion.answer = "running" /\ t.at \in {"process", "drain"}
     /\ \/ /\ conversion' = [conversion EXCEPT !.threads[ch] =
                 [backend |-> done.backend, offset |-> offset, output |-> @.output \o made, at |-> at]]
           /\ UNCHANGED broken
        \/ /\ conversion' = [conversion EXCEPT !.threads[ch].at = "failed"]
           /\ broken' = TRUE

\* All threads are joined; an error of one is the error of all, and frames that a
\* channel is short of are silent.
JoinThreads ==
  /\ conversion.answer = "running"
  /\ \A ch \in DOMAIN conversion.threads : conversion.threads[ch].at \in {"done", "failed"}
  /\ LET outs == [ch \in DOMAIN conversion.threads |-> conversion.threads[ch].output]
     IN conversion' =
          IF \E ch \in DOMAIN conversion.threads : conversion.threads[ch].at = "failed"
          THEN [conversion EXCEPT !.answer = "error"]
          ELSE [conversion EXCEPT !.answer = "ok",
                  !.made = [i \in 1..Len(outs[1]) |->
                              [ch \in DOMAIN outs |-> IF i <= Len(outs[ch]) THEN outs[ch][i] ELSE 0]]]

ConversionNext ==
  /\ \/ (ResampleParallel \/ JoinThreads) /\ UNCHANGED broken
     \/ \E ch \in DOMAIN conversion.threads : ThreadStep(ch)
  /\ UNCHANGED <<resampler, backends, outputs, round, delivered, taken, returned>>

ResamplerNext ==
  \/ /\ conversion = NoConversion /\ UNCHANGED conversion
     /\ \/ ResamplerProcess \/ ResamplerFinish \/ ChannelTurn \/ ProcessRound \/ FinishRound
        \/ ResamplerReset
  \/ ConversionNext

-----------------------------------------------------------------------------
(* Properties.                                                             *)

\* As long as no backend has failed since the last reset, however calls and rounds cut
\* the stream: no call fails; every output frame is made, in all channels, of the one
\* input frame at its time, with nothing left of a stream before the reset, whichever
\* backend failed in it; and a stream that is reported as finished has come out whole.
\* After a failure nothing is claimed until a reset.  A one-shot conversion
\* returns just those frames, however its threads run, or fails if a backend did.
ChannelsStayTogether ==
  /\ conversion.answer = "error" => broken
  /\ conversion.answer = "ok" =>
       conversion.made = [n \in 1..RoundedDuration(conversion.frames) |->
                            [ch \in 1..Layout.channels |->
                               IF SourceOf(n) <= conversion.frames THEN SourceOf(n) ELSE 0]]
  /\ ~broken =>
    /\ \A n \in 1..Len(delivered) :
         delivered[n] = AllAlike(IF SourceOf(n) <= taken THEN SourceOf(n) ELSE 0)
    /\ returned # "error"
    /\ returned = "finished" => Len(delivered) = RoundedDuration(taken)
    /\ \A b \in Backends : round.op = "none" => Len(backends[b].fed) = taken \/ SameRate
=============================================================================
