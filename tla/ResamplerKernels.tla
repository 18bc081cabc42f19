-------------------------- MODULE ResamplerKernels --------------------------
(***************************************************************************)
(* The filter kernels the owned resampler passes its blocks to: the dot     *)
(* products over a retained history of the polyphase kernel, the overlap-    *)
(* save blocks of the spectral one, the symmetric pairs of the half-band    *)
(* one, and the overlap-add blocks of the linear FFT with its spectrum       *)
(* packed in place.                                                        *)
(*                                                                         *)
(* An output sample is the set of the products it sums: <<m, i>> is         *)
(* coefficient m of the filter times input frame i since the last reset     *)
(* (silence adds nothing). What a transform computes is taken for granted;   *)
(* which bins it is given, and which part of it is kept, is not. A kernel    *)
(* that reports an error has no output for its caller.                      *)
(***************************************************************************)
EXTENDS Integers, Sequences, FiniteSets, SequencesExt

CONSTANTS
  Kernels,     \* [kind; up, down: the reduced ratio, of "fft" the frames of a block
               \* out and in; taps: of a phase, of "halfband" the pairs; chunk]
  BlockSizes,  \* frames a kernel is passed
  MaxFrames    \* bound: input frames between resets

NoFrame == -1
LessOf(a, b) == IF a <= b THEN a ELSE b
MoreOf(a, b) == IF a >= b THEN a ELSE b
DivCeil(a, b) == (a + b - 1) \div b

Coprime(a, b) == \A d \in 2..LessOf(a, b) : a % d # 0 \/ b % d # 0

\* What the constructors accept; the FFT's blocks are whole units of its ratio.
PolyphaseAccepts(k) ==
  k.chunk > 0 /\ Coprime(k.up, k.down) /\ k.up <= 1024 /\ k.down <= 1024 /\ k.up * k.taps <= 524288
SpectralAccepts(k) == PolyphaseAccepts(k)
HalfbandAccepts(k) == k.chunk > 0 /\ k.up = 2 /\ k.down = 1
FftAccepts(k) == k.chunk = k.down /\ k.up <= 1048576 /\ k.down <= 1048576

ASSUME KernelAssumption ==
  /\ \A k \in Kernels :
       /\ k.up > 0 /\ k.down > 0 /\ k.taps > 0
       /\ CASE k.kind = "polyphase" -> PolyphaseAccepts(k)
            [] k.kind = "spectral" -> SpectralAccepts(k)
            [] k.kind = "halfband" -> HalfbandAccepts(k)
            [] OTHER -> FftAccepts(k)
  /\ BlockSizes \subseteq Nat /\ MaxFrames \in Nat

VARIABLES
  kernelInUse,   \* the kernel in use
  engine,   \* [history, pending: input frames (of "fft", history is the overlap: frames
            \* of output), total: frames passed, next: frames given]
  answered  \* of the last call: [first: number of its first frame, out, result]

kernelVars == <<kernelInUse, engine, answered>>

FramesFrom(first, count) == [i \in 1..count |-> first + i - 1]

\* The sum of the products of coefficients and frames, without the silent ones.
SumOf(products) == {p \in products : p[2] # NoFrame}

\* Mutant: the outputs that reach back behind a chunk are forgotten.
BugHistoryHead(k) == k.taps - 1

\* `history_head_frames`: the first output of a chunk may lag its boundary.
HistoryHead(k) == k.taps - 1 + DivCeil(k.down - 1, k.up)

\* `nin` and `nout` of the spectral kernel: a block no shorter than the filter.
Units(k) == DivCeil(k.taps, k.down)
BlockIn(k) == k.down * Units(k)
BlockOut(k) == k.up * Units(k)

\* Of the half-band filter: its length, its centre, the frames kept before a chunk.
HalfTaps(k) == 4 * k.taps - 1
Centre(k) == (HalfTaps(k) - 1) \div 2
Prefix(k) == DivCeil(HalfTaps(k), 2) - 1

FreshEngine(k) ==
  [history |-> [i \in 1..(CASE k.kind = "polyphase" -> HistoryHead(k)
                            [] k.kind = "spectral" -> BlockIn(k)
                            [] k.kind = "halfband" -> Prefix(k)
                            [] OTHER -> k.up) |-> IF k.kind = "fft" THEN {} ELSE NoFrame],
   pending |-> <<>>, total |-> 0, next |-> 0]

KernelsInit ==
  /\ kernelInUse \in Kernels /\ engine = FreshEngine(kernelInUse)
  /\ answered = [first |-> 0, out |-> <<>>, result |-> "none"]

Answer(out) == answered' = [first |-> engine.next, out |-> out, result |-> "ok"]
Refuse(why) == answered' = [first |-> engine.next, out |-> <<>>, result |-> why]

-----------------------------------------------------------------------------
(* The polyphase kernel.                                                    *)

\* `run_sub_chunk`: `s` is the engine with the output of the call so far and the
\* room for it. A frame that cannot be given ends the call: the input is counted,
\* the frames before it are given, and the history is not shifted.
SubChunk(s, take) ==
  LET k == kernelInUse
      window == s.history \o FramesFrom(s.total, take)
      total == s.total + take
      due == s.next .. (((total * k.up) \div k.down) - 1)
      Base(n) == (n * k.down) \div k.up
      Start(n) == HistoryHead(k) - (k.taps - 1) + Base(n) - s.total
      Verdict(n) ==
        IF Len(s.out) + n - s.next >= s.room THEN "overflow"
        ELSE IF Base(n) >= total THEN "future"
        ELSE IF Start(n) < 0 THEN "underrun"
        ELSE IF Start(n) + k.taps > HistoryHead(k) + take THEN "overrun"
        ELSE "ok"
      refused == {n \in due : Verdict(n) # "ok"}
      given == IF refused = {} THEN Cardinality(due) ELSE Min(refused) - s.next
      Dot(n) == SumOf({<<((n * k.down) % k.up) + k.up * (k.taps - 1 - i), window[Start(n) + i + 1]>> :
                        i \in 0..(k.taps - 1)})
  IN IF s.result # "ok" THEN s
     ELSE [s EXCEPT !.total = total, !.next = @ + given,
                    !.out = @ \o [i \in 1..given |-> Dot(s.next + i - 1)],
                    !.history = IF refused = {} THEN SubSeq(window, take + 1, take + HistoryHead(k))
                                ELSE @,
                    !.result = IF refused = {} THEN "ok" ELSE Verdict(s.next + given)]

\* What a call of `frames` is cut into.
SubChunks(frames) ==
  [i \in 1..DivCeil(frames, kernelInUse.chunk) |->
     LessOf(kernelInUse.chunk, frames - (i - 1) * kernelInUse.chunk)]

PolyphaseNeeds(frames) == DivCeil(frames * kernelInUse.up, kernelInUse.down) + 1

PolyphaseChunk(frames, room) ==
  LET start == [history |-> engine.history, total |-> engine.total, next |-> engine.next,
                room |-> room, out |-> <<>>, result |-> "ok"]
      end == FoldLeft(SubChunk, start, SubChunks(frames))
  IN IF room < PolyphaseNeeds(frames) THEN Refuse("too_small") /\ UNCHANGED engine
     ELSE /\ engine' = [engine EXCEPT !.history = end.history, !.total = end.total, !.next = end.next]
          /\ IF end.result = "ok" THEN Answer(end.out) ELSE Refuse(end.result)

-----------------------------------------------------------------------------
(* The spectral kernel.                                                     *)

\* The entry of the fold table for alias `m` of output bin `b`: the bin of the
\* filter and whether it is conjugated, the bin of the input and whether it is.
FoldEntry(k, b, m) ==
  LET grid == 2 * BlockIn(k) * k.up
      j == b + m * 2 * BlockOut(k)
      r == j % (2 * BlockIn(k))
      mirrored == j > grid \div 2
      folded == r > BlockIn(k)
  IN [h |-> IF mirrored THEN grid - j ELSE j, hConj |-> mirrored,
      x |-> IF folded THEN 2 * BlockIn(k) - r ELSE r, xConj |-> folded]

\* The frequency a bin of a real signal's spectrum stands for, conjugated or not.
Frequency(bin, conj, size) == (IF conj THEN size - bin ELSE bin) % size

\* All aliases of every bin are folded onto it.
FoldIsExact(k) ==
  \A b \in 0..BlockOut(k), m \in 0..(k.down - 1) :
    LET entry == FoldEntry(k, b, m)
        j == b + m * 2 * BlockOut(k)
    IN /\ Frequency(entry.h, entry.hConj, 2 * BlockIn(k) * k.up) = j % (2 * BlockIn(k) * k.up)
       /\ Frequency(entry.x, entry.xConj, 2 * BlockIn(k)) = j % (2 * BlockIn(k))

\* Frame `t` of the circular convolution of `time`, stretched by `up`, with the
\* filter, of which every `down`-th frame is kept.
Circular(k, time, t) ==
  SumOf({<<m, time[(((t * k.down - m) % (Len(time) * k.up)) \div k.up) + 1]>> :
           m \in {m \in 0..(k.up * k.taps - 1) : (t * k.down - m) % k.up = 0}})

\* `run_block`: of the history and the block the second half is kept.
SpectralBlock(k, history, block) ==
  [i \in 1..BlockOut(k) |-> Circular(k, history \o block, BlockOut(k) + i - 1)]

SpectralNeeds(frames) ==
  ((Len(engine.pending) + frames) \div BlockIn(kernelInUse)) * BlockOut(kernelInUse)

SpectralChunk(frames, room) ==
  LET size == BlockIn(kernelInUse)
      all == engine.history \o engine.pending \o FramesFrom(engine.total, frames)
      blocks == (Len(all) \div size) - 1
      Block(i) == SubSeq(all, i * size + 1, (i + 1) * size)
      out == FlattenSeq([i \in 1..blocks |-> SpectralBlock(kernelInUse, Block(i - 1), Block(i))])
  IN IF room < SpectralNeeds(frames) THEN Refuse("too_small") /\ UNCHANGED engine
     ELSE /\ engine' = [engine EXCEPT !.history = Block(blocks),
                                      !.pending = SubSeq(all, (blocks + 1) * size + 1, Len(all)),
                                      !.total = @ + frames, !.next = @ + Len(out)]
          /\ Answer(out)

-----------------------------------------------------------------------------
(* The half-band kernel.                                                    *)

\* Coefficients are paired by symmetry: the smaller number stands for both.
HalfbandChunk(frames, room) ==
  LET k == kernelInUse
      channel == engine.history \o FramesFrom(engine.total, frames)
      At(f, delay) == channel[Prefix(k) - delay + f + 1]
      Even(f) == SumOf(UNION {{<<2 * p, At(f, p)>>, <<2 * p, At(f, Prefix(k) - p)>>} :
                                p \in 0..(k.taps - 1)})
      Odd(f) == SumOf({<<Centre(k), At(f, (Centre(k) - 1) \div 2)>>})
  IN IF frames # k.chunk THEN Refuse("wrong_chunk") /\ UNCHANGED engine
     ELSE IF room < 2 * frames THEN Refuse("too_small") /\ UNCHANGED engine
     ELSE /\ engine' = [engine EXCEPT !.history = SubSeq(channel, frames + 1, frames + Prefix(k)),
                                      !.total = @ + frames, !.next = @ + 2 * frames]
          /\ Answer([i \in 1..(2 * frames) |->
                       IF i % 2 = 1 THEN Even((i - 1) \div 2) ELSE Odd((i - 1) \div 2)])

-----------------------------------------------------------------------------
(* The linear FFT: its spectrum is filtered, cut or padded to the output's    *)
(* length and packed for a half-length transform in place.                   *)

\* The bins that pass from the input's spectrum to the output's.
Keep(k) == IF k.down < k.up THEN k.down + 1 ELSE k.up
PairEnd(k) == DivCeil(k.up, 2)
ActiveEnd(k) == LessOf(Keep(k), PairEnd(k))
\* From here on both bins of a pair pass.
BothStart(k) == LessOf(MoreOf(k.up + 1 - Keep(k), 1), ActiveEnd(k))

\* A bin as the forward transform left it, or what is behind them.
Bins(k) == [b \in 0..(MoreOf(k.down + 1, k.up) - 1) |->
              IF b <= k.down THEN <<"bin", b>> ELSE <<"stale">>]
ZeroBin == <<"zero">>

\* A bin times the coefficient of the filter.
TimesFilter(bins, b) == <<bins[b], b>>

\* A pair: what its two bins are made of, with the twiddle of the lower.
Single(bins, low, high) ==
  [bins EXCEPT ![low] = <<"low", low, TimesFilter(bins, low)>>,
               ![high] = <<"high", low, TimesFilter(bins, low)>>]
Both(bins, low, high) ==
  [bins EXCEPT ![low] = <<"low", low, TimesFilter(bins, low), TimesFilter(bins, high)>>,
               ![high] = <<"high", low, TimesFilter(bins, low), TimesFilter(bins, high)>>]

\* `prepare_inverse`; a range of pairs is two slices zipped, the second backwards.
Packed(k) ==
  LET middle == k.up \div 2
      singles == [i \in 1..(BothStart(k) - 1) |-> i]
      pairs == [i \in 1..(ActiveEnd(k) - BothStart(k)) |-> BothStart(k) + i - 1]
      reverseEnd == k.up - BothStart(k) + 1
      first == FoldLeft(LAMBDA bins, low : Single(bins, low, k.up - low),
                        [Bins(k) EXCEPT ![0] = <<"dc", TimesFilter(Bins(k), 0)>>], singles)
      second == FoldLeft(LAMBDA bins, low : Both(bins, low, reverseEnd - 1 - (low - BothStart(k))),
                         first, pairs)
      zeroed == [b \in DOMAIN second |->
                   IF b \in ActiveEnd(k)..(k.up - ActiveEnd(k)) THEN ZeroBin ELSE second[b]]
  IN IF k.up % 2 = 0 /\ middle < Keep(k)
     THEN [zeroed EXCEPT ![middle] = <<"middle", TimesFilter(Bins(k), middle)>>]
     ELSE zeroed

\* What a real inverse transform expects of the filtered spectrum, padded with zeros.
PackedFor(k) ==
  LET Of(b) == <<<<"bin", b>>, b>>
      Pair(side, low) ==
        IF k.up - low < Keep(k) THEN <<side, low, Of(low), Of(k.up - low)>>
        ELSE IF low < Keep(k) THEN <<side, low, Of(low)>> ELSE ZeroBin
  IN [b \in 0..(k.up - 1) |->
        IF b = 0 THEN <<"dc", Of(0)>>
        ELSE IF 2 * b = k.up THEN IF b < Keep(k) THEN <<"middle", Of(b)>> ELSE ZeroBin
        ELSE IF 2 * b < k.up THEN Pair("low", b) ELSE Pair("high", k.up - b)]

PackingIsExact(k) == \A b \in 0..(k.up - 1) : Packed(k)[b] = PackedFor(k)[b]

\* `block`: <<t, b>> is frame t of the two blocks the inverse makes of input block b.
FftChunk(frames, room) ==
  LET time == [t \in 1..(2 * kernelInUse.up) |-> {<<t - 1, engine.total \div kernelInUse.down>>}]
  IN IF frames # kernelInUse.down \/ room # kernelInUse.up
     THEN Refuse("wrong_dimensions") /\ UNCHANGED engine
     ELSE /\ engine' = [engine EXCEPT
                          !.history = SubSeq(time, kernelInUse.up + 1, 2 * kernelInUse.up),
                          !.total = @ + frames, !.next = @ + kernelInUse.up]
          /\ Answer([i \in 1..kernelInUse.up |-> time[i] \union engine.history[i]])

-----------------------------------------------------------------------------
(* `process` and `reset` of the kernel in use.                               *)

\* `output_frames_max`: the room a caller keeps for a chunk.
OutputMost(k) ==
  CASE k.kind = "polyphase" -> DivCeil(k.chunk * k.up, k.down) + 2
    [] k.kind = "spectral" -> DivCeil(k.chunk, BlockIn(k)) * BlockOut(k)
    [] k.kind = "halfband" -> 2 * k.chunk
    [] OTHER -> k.up

\* The least room a kernel accepts for a call.
Needs(frames) ==
  CASE kernelInUse.kind = "polyphase" -> PolyphaseNeeds(frames)
    [] kernelInUse.kind = "spectral" -> SpectralNeeds(frames)
    [] kernelInUse.kind = "halfband" -> 2 * frames
    [] OTHER -> kernelInUse.up

ProcessChunk(frames, room) ==
  /\ engine.total + frames <= MaxFrames
  /\ UNCHANGED kernelInUse
  /\ CASE kernelInUse.kind = "polyphase" -> PolyphaseChunk(frames, room)
       [] kernelInUse.kind = "spectral" -> SpectralChunk(frames, room)
       [] kernelInUse.kind = "halfband" -> HalfbandChunk(frames, room)
       [] OTHER -> FftChunk(frames, room)

KernelReset ==
  /\ engine' = FreshEngine(kernelInUse)
  /\ answered' = [first |-> 0, out |-> <<>>, result |-> "none"]
  /\ UNCHANGED kernelInUse

KernelsNext ==
  \/ \E frames \in BlockSizes :
       \E room \in {OutputMost(kernelInUse), Needs(frames)} : ProcessChunk(frames, room)
  \/ KernelReset

-----------------------------------------------------------------------------
(* The filters themselves.                                                  *)

\* Frame `n` of the input stretched by `up`, filtered, and thinned by `down`.
Convolved(n) ==
  LET k == kernelInUse
      place == n * k.down
      Of(coefficients) ==
        {m \in coefficients : m <= place /\ (place - m) % k.up = 0}
  IN CASE k.kind \in {"polyphase", "spectral"} ->
            {<<m, (place - m) \div k.up>> : m \in Of(0..(k.up * k.taps - 1))}
       [] k.kind = "halfband" ->
            {<<LessOf(m, HalfTaps(k) - 1 - m), (place - m) \div 2>> :
               m \in Of({m \in 0..(HalfTaps(k) - 1) : m % 2 = 0 \/ m = Centre(k)})}
       [] OTHER ->
            {<<n - b * k.up, b>> : b \in {b \in 0..n : n - b * k.up \in 0..(2 * k.up - 1)}}

\* What a kernel owes after `frames` frames.
Owed(frames) ==
  IF kernelInUse.kind = "spectral" THEN (frames \div BlockIn(kernelInUse)) * BlockOut(kernelInUse)
  ELSE IF kernelInUse.kind = "fft" THEN (frames \div kernelInUse.down) * kernelInUse.up
  ELSE (frames * kernelInUse.up) \div kernelInUse.down

(* Whatever the sizes of the blocks and wherever a reset falls, the frames a
   kernel gives are, one by one, those of its filter run over the whole input
   since the reset: no window reaches before or behind the retained history, no
   block wraps around into the frames that are kept, every alias is folded onto its
   bin, no pair of bins is read after it was overwritten, and the room a caller
   keeps for a chunk is enough. *)
KernelsAreExact ==
  /\ engine.next = Owed(engine.total)
  /\ \A i \in DOMAIN answered.out : answered.out[i] = Convolved(answered.first + i - 1)
  /\ answered.result \notin {"overflow", "future", "underrun", "overrun"}
  /\ kernelInUse.kind = "spectral" => FoldIsExact(kernelInUse)
  /\ kernelInUse.kind = "fft" => PackingIsExact(kernelInUse)
  /\ kernelInUse.chunk \in BlockSizes /\ engine.total + kernelInUse.chunk <= MaxFrames
       => Needs(kernelInUse.chunk) <= OutputMost(kernelInUse)
=============================================================================
