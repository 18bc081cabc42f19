----------------------------- MODULE NoiseShaping -----------------------------
(***************************************************************************)
(* The noise shaper and its adapter: the error of each quantised sample is  *)
(* fed back into the next ones of its channel.  A short curve keeps the     *)
(* errors in a shifted array; a long one in a ring written twice, so that   *)
(* the feedback window is contiguous from any head.                         *)
(*                                                                         *)
(* An error is the number of its frame, and 0 is the silence of a cleared   *)
(* history.  The bit depth scales the samples and leaves the errors, which  *)
(* are counted in steps of quantisation, alone; dither is left out.         *)
(***************************************************************************)
EXTENDS Integers, Sequences

CONSTANTS
  ShortTaps, LongTaps, \* 5 and 9
  ShaperChannels,
  Curves               \* each curve's number of taps

VARIABLES
  shaperParams,  \* what is published: AtomicNoiseShaperParams, or the guard's latch
  shaper,        \* NoiseShaperProcessor: what it cached, and whether it finishes
  errors,        \* per channel, the array, the ring and its head
  \* history: the errors of each channel since its history was cleared, newest
  \* first; the number of the next frame
  made, tick

shapingVars == <<shaperParams, shaper, errors, made, tick>>

ASSUME ShapingAssumption ==
  /\ {ShortTaps, LongTaps} \subseteq Nat \ {0} /\ ShortTaps <= LongTaps
  /\ \A curve \in DOMAIN Curves : Curves[curve] \in {0, ShortTaps, LongTaps}

ShaperSettings == [enabled : BOOLEAN, curve : DOMAIN Curves]
Taps == Curves[shaper.cached.curve]

Quiet(n) == [i \in 1..n |-> 0]
NoErrors == [short |-> Quiet(ShortTaps), ring |-> Quiet(2 * LongTaps), head |-> 0]
Cleared == [ch \in 1..ShaperChannels |-> NoErrors]
Forgotten == [ch \in 1..ShaperChannels |-> <<>>]

\* `build`: from the snapshot, in either mode.
ShapingInit ==
  /\ shaperParams \in ShaperSettings
  /\ shaper = [cached |-> shaperParams, finishing |-> FALSE]
  /\ errors = Cleared /\ made = Forgotten /\ tick = 1

ShapingPublish ==
  /\ shaperParams' \in ShaperSettings
  /\ UNCHANGED <<shaper, errors, made, tick>>

Latest(sequence, n) == SubSeq(sequence, 1, IF Len(sequence) < n THEN Len(sequence) ELSE n)

\* Mutant: the second half of the ring is left to the next lap.
BugRingAfter(e, error) ==
  LET head == (IF e.head = 0 THEN LongTaps ELSE e.head) - 1
  IN [e EXCEPT !.head = head, !.ring[head + 1] = error]

\* `process_sample_9tap_ring`
RingAfter(e, error) ==
  LET head == (IF e.head = 0 THEN LongTaps ELSE e.head) - 1
  IN [e EXCEPT !.head = head, !.ring[head + 1] = error, !.ring[head + LongTaps + 1] = error]

\* `process_sample_with_taps`: a curve without feedback keeps no error.
ErrorsAfter(e, taps, error) ==
  IF taps = 0 THEN e
  ELSE IF taps = ShortTaps THEN [e EXCEPT !.short = Latest(<<error>> \o @, ShortTaps)]
  ELSE RingAfter(e, error)

\* `bypass_or_recover_invalid`: a sample that is not finite clears its channel.
Sample(e, taps, bad) == IF bad THEN NoErrors ELSE ErrorsAfter(e, taps, tick)
MadeAfter(list, taps, bad) ==
  IF bad THEN <<>> ELSE IF taps = 0 THEN list ELSE Latest(<<tick>> \o list, LongTaps)

\* `process` of a block of a frame or none, which are enough: a longer block is
\* one whose reader misses every later publication.  `adopts` is that the reader
\* got the snapshot; the guard's latch is always read.
ShapingProcess(adopts, frames, bad) ==
  /\ ~shaper.finishing
  /\ LET now == IF adopts THEN shaperParams ELSE shaper.cached
         switched == now.curve # shaper.cached.curve
         taps == Curves[now.curve]
         e == IF switched THEN Cleared ELSE errors
         list == IF switched THEN Forgotten ELSE made
     IN /\ shaper' = [shaper EXCEPT !.cached = now]
        /\ IF now.enabled /\ frames = 1
           THEN /\ errors' = [ch \in DOMAIN e |-> Sample(e[ch], taps, ch \in bad)]
                /\ made' = [ch \in DOMAIN e |-> MadeAfter(list[ch], taps, ch \in bad)]
                /\ tick' = (tick % (LongTaps + 1)) + 1
           ELSE errors' = e /\ made' = list /\ UNCHANGED tick
  /\ UNCHANGED shaperParams

\* `finish`: a shaper has no tail, and processes nothing until it is reset.
ShapingFinish ==
  /\ shaper' = [shaper EXCEPT !.finishing = TRUE]
  /\ UNCHANGED <<shaperParams, errors, made, tick>>

\* `reset`, and `set_sample_rate`, whose new shaper takes the cached curve.
ShapingReset ==
  /\ shaper' = [shaper EXCEPT !.finishing = FALSE]
  /\ errors' = Cleared /\ made' = Forgotten
  /\ UNCHANGED <<shaperParams, tick>>

ShapingNext ==
  \/ ShapingPublish \/ ShapingFinish \/ ShapingReset
  \/ \E adopts \in BOOLEAN, bad \in SUBSET (1..ShaperChannels) : ShapingProcess(adopts, 1, bad)
  \/ \E adopts \in BOOLEAN : ShapingProcess(adopts, 0, {})

ShapingSpec == ShapingInit /\ [][ShapingNext]_shapingVars

-----------------------------------------------------------------------------
(* Properties.                                                             *)

Feedback(e) ==
  IF Taps = 0 THEN <<>>
  ELSE IF Taps = ShortTaps THEN e.short
  ELSE [i \in 1..LongTaps |-> e.ring[e.head + i]]

\* What a channel feeds back is its own last errors, newest first, and silence
\* before its history was cleared: whatever the position of the ring's head, the
\* bypasses, the bad samples of the other channel and the curves used before,
\* "cleared to prevent artifacts from coefficient mismatch"
\* (noise_shaper.rs:252).
FeedbackIsHistory ==
  \A ch \in DOMAIN errors :
    Feedback(errors[ch]) =
      [i \in 1..Taps |-> IF i <= Len(made[ch]) THEN made[ch][i] ELSE 0]

=============================================================================
