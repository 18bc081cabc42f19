---------------------------- MODULE FFTConvolver ----------------------------
(***************************************************************************)
(* The FFT convolver: one overlap-save engine for a short impulse response; *)
(* for a long one an overlap-save head, a tier of base partitions whose     *)
(* products are spread over the frames of a block, and for very long stereo *)
(* responses the late tier of LateTail.                                     *)
(*                                                                         *)
(* A sample is the set of products it sums: <<i, t>> is tap t of the        *)
(* response on input frame i; a transform is the convolution it computes.   *)
(* Frames are numbered from the construction on.  The tiers share nothing   *)
(* but the input, so a call is a step of the head and then, frame by frame, *)
(* of the other two.  The wet transition mixes what comes out with the      *)
(* input and is left out.                                                   *)
(***************************************************************************)
EXTENDS LateTail

CONSTANTS
  Threshold,    \* PARTITIONED_CONVOLUTION_IR_THRESHOLD
  MinLateTaps,  \* MIN_IR_FRAMES
  Responses,    \* [channels, taps] of the impulse responses
  ChunkSizes,   \* frames of the chunks of calls
  MaxConvolved, \* bound: frames convolved
  MaxResets     \* bound: resets

ASSUME ConvolverAssumption ==
  /\ Threshold >= BasePeriod /\ MinLateTaps > 2 * Period /\ MinLateTaps > Threshold
  /\ Responses \subseteq [channels : Nat \ {0}, taps : Nat \ {0}]
  /\ ChunkSizes \subseteq Nat \ {0} /\ MaxConvolved \in Nat /\ MaxResets \in Nat

VARIABLES
  response,  \* the impulse response
  phase,     \* what the frame under way waits for
  head,      \* OverlapSaveConvolver: its overlap buffer and the rest of its output
  early,     \* PartitionedConvolver: the fields about blocks and the spread schedule
  tiers,     \* PartitionedChannelState of each channel
  \* history: the frame to be played, the first since the reset, resets
  frame, since, resets

convolverVars == <<response, phase, head, early, tiers, frame, since, resets, lateVars>>

Less(a, b) == IF a <= b THEN a ELSE b
CeilPart(a, b) == (a + b - 1) \div b

\* The strategy and the sizes, fixed by the response.
Partitioned == response.taps > Threshold
HasLate(r) == r.channels = 2 /\ r.taps >= MinLateTaps
LateOffset == 2 * Period
LatePartitions(r) == IF HasLate(r) THEN CeilPart(r.taps - LateOffset, Period) ELSE 1
EarlyTaps == IF HasLate(response) THEN LateOffset ELSE response.taps
TailPartitions == CeilPart(EarlyTaps - BasePeriod, BasePeriod)
SpreadTotal == (TailPartitions - 1) * response.channels
HeadTaps == IF Partitioned THEN BasePeriod ELSE response.taps

\* The power of two that holds twice the taps.
FftSize == CHOOSE n \in {2^k : k \in 0..10} : 2 * HeadTaps <= n /\ n < 4 * HeadTaps
StepSize == FftSize - HeadTaps + 1

NoHistory == [i \in 1..HeadTaps - 1 |-> Never]
StartSpread(cursor) ==
  [done |-> 0, error |-> 0, channel |-> 1, partition |-> 1,
   slot |-> IF cursor = 0 THEN TailPartitions - 1 ELSE cursor - 1]

\* The first boundary has nothing to wait for.
FreshEarly ==
  [pos |-> 0, cursor |-> 0, valid |-> 0,
   spread |-> [StartSpread(0) EXCEPT !.done = SpreadTotal]]
FreshTier(history) ==
  [history |-> history, start |-> Never, output |-> SilentBlock, overlap |-> <<>>, sum |-> <<>>]

ConvolverInit ==
  /\ LateInit
  /\ response \in Responses
  /\ geometry = [channels |-> response.channels, partitions |-> LatePartitions(response)]
  /\ phase = "idle" /\ head = [overlap |-> NoHistory, ready |-> <<>>]
  /\ early = IF Partitioned THEN FreshEarly ELSE <<>>
  /\ tiers = IF Partitioned
             THEN [c \in Channels |-> FreshTier([s \in 0..TailPartitions - 1 |-> Never])]
             ELSE <<>>
  /\ frame = 0 /\ since = 0 /\ resets = 0

-----------------------------------------------------------------------------
(* The head.                                                               *)

\* `prepare_channel_chunk`: the overlap, the input, zeros.
Scratch(count) ==
  LET window == head.overlap \o [i \in 1..count |-> frame + i - 1]
  IN window \o [i \in 1..FftSize - Len(window) |-> Never]

\* Output i of the circular convolution of the scratch.
Circular(scratch, i) ==
  {product \in {<<scratch[((i - 1 - t) % FftSize) + 1], t>> : t \in 0..HeadTaps - 1} :
     product[1] # Never}

\* Mutant: a chunk shorter than the history keeps its newest part in place.
BugOverlapAfter(count) ==
  LET kept == HeadTaps - 1
      input == [i \in 1..count |-> frame + i - 1]
  IN IF count >= kept THEN SubSeq(input, count - kept + 1, count)
     ELSE SubSeq(head.overlap, 1, kept - count) \o input

\* `update_channel_overlap`: the last inputs, of the chunk or of before.
OverlapAfter(count) ==
  LET kept == HeadTaps - 1
      input == [i \in 1..count |-> frame + i - 1]
  IN IF count >= kept THEN SubSeq(input, count - kept + 1, count)
     ELSE SubSeq(head.overlap, count + 1, kept) \o input

\* One round of `process_into` or `process_inplace`, which reads the history before
\* it overwrites the input.
HeadChunk(count) ==
  /\ phase = "idle" /\ count <= StepSize /\ frame + count <= MaxConvolved
  /\ head' = [overlap |-> OverlapAfter(count),
              ready |-> [i \in 1..count |-> Circular(Scratch(count), i + HeadTaps - 1)]]
  /\ phase' = IF Partitioned THEN "early" ELSE "heard"
  /\ UNCHANGED <<response, early, tiers, frame, since, resets, lateVars>>

NextFrame ==
  /\ head' = [head EXCEPT !.ready = Tail(@)] /\ frame' = frame + 1
  /\ phase' = IF Len(head.ready) = 1 THEN "idle" ELSE IF Partitioned THEN "early" ELSE "heard"
  /\ UNCHANGED <<response, since, resets>>

HeadFrame ==
  /\ phase = "heard" /\ NextFrame
  /\ UNCHANGED <<early, tiers, lateVars>>

-----------------------------------------------------------------------------
(* The early tier.                                                         *)

\* What the watermark lets through of a slot.
Committed(slot, partition, tier) ==
  IF slot < early.valid THEN <<<<partition, tier.history[slot]>>>> ELSE <<>>

\* `prepare_tail_output_block`: the newest block joins what the quanta summed, and
\* the next block's schedule starts.
Newest == (early.cursor + TailPartitions - 1) % TailPartitions
Prepared(tier) ==
  LET sum == tier.sum \o Committed(Newest, 0, tier)
  IN [tier EXCEPT !.output = [first |-> sum, second |-> tier.overlap],
                  !.overlap = sum, !.sum = <<>>, !.start = frame]

EarlyFrame ==
  /\ phase = "early" /\ phase' = "pump"
  /\ LET spread == IF early.pos = 0 THEN StartSpread(early.cursor) ELSE early.spread
     IN early' = [early EXCEPT !.spread = [spread EXCEPT !.error = @ + SpreadTotal]]
  /\ tiers' = IF early.pos = 0 THEN [c \in Channels |-> Prepared(tiers[c])] ELSE tiers
  /\ UNCHANGED <<response, head, frame, since, resets, lateVars>>

QuantumDue == early.spread.error >= BasePeriod /\ early.spread.done < SpreadTotal

NextQuantum(spread) ==
  IF spread.channel < response.channels
  THEN [spread EXCEPT !.done = @ + 1, !.error = @ - BasePeriod, !.channel = @ + 1]
  ELSE [spread EXCEPT !.done = @ + 1, !.error = @ - BasePeriod, !.channel = 1,
                      !.partition = @ + 1,
                      !.slot = IF @ = 0 THEN TailPartitions - 1 ELSE @ - 1]

\* `run_spread_quantum`
SpreadQuantum ==
  /\ phase = "pump" /\ QuantumDue
  /\ LET s == early.spread
     IN tiers' = [tiers EXCEPT ![s.channel].sum =
                    @ \o Committed(s.slot, s.partition, tiers[s.channel])]
  /\ early' = [early EXCEPT !.spread = NextQuantum(@)]
  /\ UNCHANGED <<response, phase, head, frame, since, resets, lateVars>>

\* `advance_partition_block`: a full block is committed.
BlockCommitted ==
  IF early.pos + 1 < BasePeriod
  THEN early' = [early EXCEPT !.pos = @ + 1] /\ UNCHANGED tiers
  ELSE /\ early' = [early EXCEPT !.pos = 0, !.cursor = (@ + 1) % TailPartitions,
                                 !.valid = Less(@ + 1, TailPartitions)]
       /\ tiers' = [c \in Channels |->
                      [tiers[c] EXCEPT !.history[early.cursor] = tiers[c].start]]

EarlyMove ==
  /\ phase = "pump" /\ ~QuantumDue /\ BlockCommitted
  /\ IF HasLate(response)
     THEN phase' = "late" /\ UNCHANGED <<response, head, frame, since, resets>>
     ELSE NextFrame
  /\ UNCHANGED lateVars

-----------------------------------------------------------------------------
(* The late tier, and reset.                                               *)

earlyVars == <<early, tiers>>

LatePlay ==
  /\ phase = "late" /\ LateFrame
  /\ UNCHANGED <<response, phase, head, frame, since, resets, earlyVars>>

LateWork ==
  /\ phase = "late" /\ Quantum
  /\ UNCHANGED <<response, phase, head, frame, since, resets, earlyVars>>

LateMove == phase = "late" /\ Move /\ NextFrame /\ UNCHANGED earlyVars

\* The history of the early tier is invalidated, not cleared.
ConvolverReset ==
  /\ phase = "idle" /\ resets < MaxResets
  /\ head' = [overlap |-> NoHistory, ready |-> <<>>]
  /\ since' = frame /\ resets' = resets + 1
  /\ IF Partitioned
     THEN /\ early' = FreshEarly
          /\ tiers' = [c \in Channels |-> FreshTier(tiers[c].history)]
     ELSE UNCHANGED earlyVars
  /\ IF HasLate(response) THEN LateReset ELSE UNCHANGED lateVars
  /\ UNCHANGED <<response, phase, frame>>

ConvolverNext ==
  \/ \E count \in ChunkSizes : HeadChunk(count)
  \/ HeadFrame \/ EarlyFrame \/ SpreadQuantum \/ EarlyMove
  \/ LatePlay \/ LateWork \/ LateMove \/ ConvolverReset

ConvolverSpec == ConvolverInit /\ [][ConvolverNext]_convolverVars

-----------------------------------------------------------------------------
(* Properties.                                                             *)

\* Sample `at` of the product of a block of input from `start` on with the taps
\* from `offset` up to `limit`.
BlockProduct(start, offset, limit, size, at) ==
  {<<start + i, offset + at - i>> :
     i \in {n \in 0..size - 1 : at - n \in 0..size - 1 /\ offset + at - n < limit}}

\* What a tier plays at a position of its output block.
Played(output, from(_), offset, limit, size, at) ==
  LET term(q, position) ==
        BlockProduct(from(q[2]), offset + q[1] * size, limit, size, position)
  IN [i \in DOMAIN output.first |-> term(output.first[i], at)]
       \o [i \in DOMAIN output.second |-> term(output.second[i], at + size)]

LateStart(k) == since + (k - first) * Period

\* All that is added up in the sample of channel c that is played.
Terms(c) ==
  <<head.ready[1]>>
    \o (IF ~Partitioned THEN <<>>
        ELSE Played(tiers[c].output, LAMBDA s : s, BasePeriod, EarlyTaps, BasePeriod, early.pos))
    \o (IF ~HasLate(response) THEN <<>>
        ELSE Played(blocks[c].output, LateStart, LateOffset, response.taps, Period,
                    clock.position))

Convolution == {<<frame - t, t>> : t \in {n \in 0..response.taps - 1 : frame - n >= since}}

\* Whatever the sizes of the calls and whenever it is reset, every sample is the
\* convolution of the input since the reset, each product once and in time; what
\* a period of a tier must compute is done when it ends (the assertions of
\* `prepare_tail_output_block` and `advance_period`).
ConvolutionIsExact ==
  /\ phase \in {"pump", "heard"} =>
       \A c \in Channels :
         /\ UNION {Terms(c)[i] : i \in DOMAIN Terms(c)} = Convolution
         /\ \A i, j \in DOMAIN Terms(c) : i < j => Terms(c)[i] \cap Terms(c)[j] = {}
  /\ phase = "early" /\ early.pos = 0 => early.spread.done = SpreadTotal
  /\ WorkIsDone

=============================================================================
