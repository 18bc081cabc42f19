--------------------------- MODULE SpectrumAnalyzer ---------------------------
(***************************************************************************)
(* `SpectrumAnalyzer`: calls of any length are cut into steps that end at   *)
(* the next event of a tier; a tier is fed its own decimation of the input, *)
(* waits for one whole window and is then analysed once per hop; the levels *)
(* of its bands are smoothed and their peaks held for a time in samples.    *)
(*                                                                         *)
(* A sample is its number in its stream, counted from one since the last    *)
(* reset; what a half-band filter makes of the right samples is the next    *)
(* sample of its stream, of wrong ones Garbage.  A tier has one band.       *)
(***************************************************************************)
EXTENDS Integers, Sequences, FiniteSets

CONSTANTS
  Analyzers,        \* configurations, valid or not: see ValidConfig
  FftSize,
  PushStep,         \* PUSH_STEP_SAMPLES
  EvenHistory,      \* even_history_len
  PushSizes,
  AnalyzeRates,     \* rates given to `analyze`
  AlphaUnit, AttackAlpha, ReleaseAlpha,
  DecayPerSecond,   \* PEAK_DECAY_DB_PER_SECOND
  Levels,           \* the levels of successive windows
  BandEdges,        \* in Hz, from the lowest to the Nyquist frequency, per rate
  MaxPushed,        \* bound: samples streamed
  AnalyzeAfter      \* bound: `analyze` is tried when this much was streamed

VARIABLES
  analyzer,  \* configuration and cached rates
  tiers,
  chain,     \* the four half-band decimators
  pushing,   \* the call under way: samples left, and what it has published
  consumed,  \* input_consumed
  valid,     \* result_valid
  bands      \* per tier: the window and level last published, smoothing and peak state

spectrumVars == <<analyzer, tiers, chain, pushing, consumed, valid, bands>>

Garbage == -1
Atleast0(n) == IF n < 0 THEN 0 ELSE n
Lower(a, b) == IF a < b THEN a ELSE b
Clamp(n, low, high) == IF n < low THEN low ELSE IF n > high THEN high ELSE n

-----------------------------------------------------------------------------
(* Construction.                                                           *)

MinRate == 40
Milliseconds == 1000

TierScales == <<1, 4, 16>>
Decimations(config) == IF config.multi THEN TierScales ELSE <<1>>
Hop(config, t) == (FftSize * Decimations(config)[t]) \div config.divisor

\* `validate_config` and `with_config`: no analyzer is built from anything else.
ValidConfig(config) ==
  /\ FftSize >= 4 /\ config.divisor > 0 /\ config.divisor <= FftSize
  /\ config.low < config.high /\ config.rate > MinRate
  /\ config.hold >= 0

\* Bands are spaced evenly in the logarithm, so none is narrower than the one below.
Widening(edges) ==
  /\ edges \in Seq(Nat)
  /\ \A i \in 1..Len(edges) - 1 : edges[i] < edges[i + 1]
  /\ \A i \in 1..Len(edges) - 2 : edges[i + 1] - edges[i] <= edges[i + 2] - edges[i + 1]

ASSUME SpectrumAssumption ==
  /\ {FftSize, PushStep, EvenHistory, AlphaUnit, DecayPerSecond} \subseteq Nat \ {0}
  /\ {AttackAlpha, ReleaseAlpha} \subseteq 0..AlphaUnit
  /\ Analyzers \subseteq [multi : BOOLEAN, divisor : Nat, smooth : BOOLEAN, hold : Int, low : Int,
                         high : Int, rate : Nat]
  /\ \E config \in Analyzers : ValidConfig(config)
  /\ PushSizes \cup AnalyzeRates \subseteq Nat /\ Levels \in Seq(Int) /\ Levels # <<>>
  /\ \A rate \in AnalyzeRates \cup {config.rate : config \in Analyzers} :
       rate > MinRate =>
         \* The unit of the levels is such that what a peak falls in a sample is whole.
         /\ DecayPerSecond % rate = 0
         /\ Widening(BandEdges[rate])

\* `peak_hold_samples`; no peaks are held for no time.
HoldSamples(config, rate) == (config.hold * rate + Milliseconds - 1) \div Milliseconds
DecayOf(rate, samples) == (DecayPerSecond * samples) \div rate

NewTier == [ring |-> [i \in 0..FftSize - 1 |-> 0], pos |-> 0, filled |-> 0, since |-> 0]
Warming(tier) == [tier EXCEPT !.pos = 0, !.filled = 0, !.since = 0]

OddHistory == 2 * EvenHistory + 1
NewDecimator ==
  [pending |-> <<>>, even |-> [i \in 1..EvenHistory |-> 0], odd |-> [i \in 1..OddHistory |-> 0]]

Quiet(config) == [window |-> <<>>, at |-> 0, smooth |-> config.low, peak |-> config.low,
                  hold |-> 0, top |-> config.low, topAt |-> 0]

Multi == analyzer.config.multi
Decimation(t) == Decimations(analyzer.config)[t]
HopOf(t) == Hop(analyzer.config, t)
Tiers == 1..Len(Decimations(analyzer.config))

SpectrumInit ==
  /\ \E config \in {c \in Analyzers : ValidConfig(c)} :
       /\ analyzer = [config |-> config, rate |-> config.rate, binRate |-> config.rate,
                      holdFor |-> HoldSamples(config, config.rate)]
       /\ tiers = [t \in 1..Len(Decimations(config)) |-> NewTier]
       /\ bands = [t \in 1..Len(Decimations(config)) |-> Quiet(config)]
  /\ chain = [s \in 1..4 |-> NewDecimator]
  /\ pushing = [left |-> 0, published |-> 0, from |-> 0]
  /\ consumed = 0 /\ valid = FALSE

-----------------------------------------------------------------------------
(* The half-band decimators.                                               *)

Filtered(evens, odds) ==
  LET k == odds[Len(odds)] \div 2
      RightEven == evens[1] = Atleast0(2 * (k - EvenHistory) - 1)
      RightOdds == \A i \in 0..OddHistory : odds[Len(odds) - i] = Atleast0(2 * (k - i))
  IN IF RightEven /\ RightOdds THEN k ELSE Garbage

\* The first or the second of every pair, and what the filter makes of the pairs.
OfPairs(all, back) == [k \in 1..Len(all) \div 2 |-> all[2 * k - back]]
FilteredPairs(evens, odds, pairs) ==
  [k \in 1..pairs |-> Filtered(SubSeq(evens, k, k + EvenHistory), SubSeq(odds, k, k + OddHistory))]

\* `HalfbandDecimator::process`
Decimated(decimator, input) ==
  LET all == decimator.pending \o input
      pairs == Len(all) \div 2
      evens == decimator.even \o OfPairs(all, 1)
      odds == decimator.odd \o OfPairs(all, 0)
  IN [out |-> FilteredPairs(evens, odds, pairs),
      state |-> [pending |-> SubSeq(all, 2 * pairs + 1, Len(all)),
                 even |-> SubSeq(evens, pairs + 1, pairs + EvenHistory),
                 odd |-> SubSeq(odds, pairs + 1, pairs + OddHistory)]]

\* `DecimationChain::process`
Chained(input) ==
  LET d1 == Decimated(chain[1], input)
      d2 == Decimated(chain[2], d1.out)
      d3 == Decimated(chain[3], d2.out)
      d4 == Decimated(chain[4], d3.out)
  IN [outs |-> <<input, d2.out, d4.out>>, state |-> <<d1.state, d2.state, d3.state, d4.state>>]

-----------------------------------------------------------------------------
(* A tier.                                                                 *)

\* `write_tier_samples`
Written(tier, samples) ==
  [tier EXCEPT
     !.ring = [i \in 0..FftSize - 1 |->
                 LET k == 1 + ((i - tier.pos + FftSize) % FftSize)
                 IN IF k <= Len(samples) THEN samples[k] ELSE tier.ring[i]],
     !.pos = (tier.pos + Len(samples)) % FftSize]

\* `advance_tier`
Advanced(tier, t, samples, inputs) ==
  IF tier.filled < FftSize THEN [tier EXCEPT !.filled = @ + samples]
  ELSE [tier EXCEPT !.since = (@ + inputs) % HopOf(t)]

\* Mutant: the phase of a decimator that is half way to its next sample is ignored.
BugUntilEvent(tier, t) ==
  IF tier.filled < FftSize THEN (FftSize - tier.filled) * Decimation(t)
  ELSE HopOf(t) - tier.since

\* The input samples to the next event of a tier.
UntilEvent(tier, t) ==
  IF tier.filled < FftSize
  THEN (FftSize - tier.filled) * Decimation(t) - (consumed % Decimation(t))
  ELSE HopOf(t) - tier.since

Window(tier) == [i \in 1..FftSize |-> tier.ring[(tier.pos + i - 1) % FftSize]]

-----------------------------------------------------------------------------
(* Levels.                                                                 *)

LevelOf(window) == Levels[1 + (window[FftSize] % Len(Levels))]

Smoothed(previous, db) ==
  LET change == (db - previous) * (IF db > previous THEN AttackAlpha ELSE ReleaseAlpha)
  IN previous + (IF change < 0 THEN -((-change) \div AlphaUnit) ELSE change \div AlphaUnit)

\* `apply_level_processing`: a peak is held, then falls until the level meets it.
PeakAfter(band, db, elapsed) ==
  LET held == Lower(band.hold, elapsed)
      fallen == band.peak - DecayOf(analyzer.rate, elapsed - held)
  IN IF db >= band.peak \/ (elapsed > held /\ fallen <= db)
     THEN [peak |-> db, hold |-> analyzer.holdFor]
     ELSE [peak |-> fallen, hold |-> band.hold - held]

\* What the peak is at a time, by when it was last attained.
Expected(band, now) ==
  band.top - DecayOf(analyzer.rate, Atleast0(now - band.topAt - analyzer.holdFor))

Refreshed(band, window, elapsed, now) ==
  LET config == analyzer.config
      level == Clamp(LevelOf(window), config.low, config.high)
      smooth == IF config.smooth THEN Smoothed(band.smooth, level) ELSE level
      after == IF config.hold > 0 THEN PeakAfter(band, smooth, elapsed)
               ELSE [peak |-> smooth, hold |-> 0]
      attained == config.hold = 0 \/ smooth >= Expected(band, now)
  IN [window |-> window, at |-> now, smooth |-> smooth, peak |-> after.peak, hold |-> after.hold,
      top |-> IF attained THEN smooth ELSE band.top, topAt |-> IF attained THEN now ELSE band.topAt]

-----------------------------------------------------------------------------
(* Which bins a band is made of.                                           *)

\* `assign_bands_to_tiers`: the finest tier in time that has two bins of the band in
\* its passband, or else the coarsest that can hold it.
TierOf(low, high, rate) ==
  LET Usable(t) == 10 * high * TierScales[t] <= 8 * (rate \div 2)
      candidates == {t \in 1..3 : Usable(t)} \cup {1}
      wide == {t \in candidates : (high - low) * FftSize * TierScales[t] >= 2 * rate}
  IN IF wide # {} THEN CHOOSE t \in wide : \A u \in wide : t <= u
     ELSE CHOOSE t \in candidates : \A u \in candidates : t >= u

PositiveBins == FftSize \div 2 - 1
CeilDiv(n, d) == (n + d - 1) \div d

\* The range of magnitudes of a band, of three tiers or (`ensure_bin_ranges`) of one.
BinRange(low, high, rate) ==
  IF Multi
  THEN LET scale == FftSize * TierScales[TierOf(low, high, rate)]
           first == Lower(Atleast0((low * scale) \div rate - 1), PositiveBins - 1)
       IN <<first, Clamp(CeilDiv(high * scale, rate) - 1, first + 1, PositiveBins)>>
  ELSE LET bin(hz) == (hz * PositiveBins) \div (rate \div 2)
           first == Lower(bin(low), PositiveBins - 1)
       IN <<first, Clamp(bin(high), first + 1, PositiveBins)>>

-----------------------------------------------------------------------------
(* Calls.                                                                  *)

Resting == pushing.left = 0
Start(size, from) == [left |-> size, published |-> 0, from |-> from]

Push ==
  /\ Resting
  /\ \E size \in PushSizes : consumed + size <= MaxPushed /\ pushing' = Start(size, consumed)
  /\ UNCHANGED <<analyzer, tiers, chain, consumed, valid, bands>>

\* The step of `push_blockwise`: to the next event of any tier, at most.
Stride ==
  LET bounds == {UntilEvent(tiers[t], t) : t \in Tiers} \cup {pushing.left, PushStep, FftSize}
  IN Lower(pushing.left, IF \E b \in bounds : b < 1 THEN 1 ELSE CHOOSE b \in bounds : \A c \in bounds : b <= c)

PushRound ==
  /\ ~Resting
  /\ LET input == [i \in 1..Stride |-> consumed + i]
         decimated == Chained(input)
         feeds == IF Multi THEN decimated.outs ELSE <<input>>
         moved == [t \in Tiers |-> Advanced(Written(tiers[t], feeds[t]), t, Len(feeds[t]), Stride)]
         ready == {t \in Tiers : IF tiers[t].filled < FftSize THEN moved[t].filled = FftSize
                                 ELSE moved[t].since = 0}
         now == consumed + Stride
     IN /\ tiers' = moved
        /\ chain' = IF Multi THEN decimated.state ELSE chain
        /\ bands' = [t \in Tiers |-> IF t \in ready
                      THEN Refreshed(bands[t], Window(moved[t]), HopOf(t), now) ELSE bands[t]]
        /\ valid' = (valid \/ ready # {})
        /\ consumed' = now
        /\ pushing' = [pushing EXCEPT !.left = @ - Stride, !.published = @ + IF ready # {} THEN 1 ELSE 0]
  /\ UNCHANGED analyzer

\* `analyze`: a single-tier analyzer takes another rate and one window at most;
\* otherwise another rate is refused.  What was streamed is forgotten.
Analyze ==
  /\ Resting /\ consumed >= AnalyzeAfter
  /\ \E rate \in AnalyzeRates, size \in PushSizes :
       /\ rate > MinRate /\ (Multi => rate = analyzer.rate)
       /\ analyzer' = IF Multi THEN analyzer
                      ELSE [analyzer EXCEPT !.rate = rate, !.binRate = rate,
                                            !.holdFor = HoldSamples(analyzer.config, rate)]
       /\ pushing' = Start(IF Multi THEN size ELSE Lower(size, FftSize), 0)
  /\ tiers' = [t \in Tiers |-> Warming(tiers[t])]
  /\ chain' = [s \in 1..4 |-> NewDecimator]
  /\ bands' = [t \in Tiers |-> Quiet(analyzer.config)]
  /\ valid' = FALSE /\ consumed' = 0

SpectrumNext == Push \/ PushRound \/ Analyze

-----------------------------------------------------------------------------
(* Properties.                                                             *)

\* When a tier is due for an analysis, by the samples pushed since the last reset.
FirstDue(t) == FftSize * Decimation(t)
DueAt(t, n) == n >= FirstDue(t) /\ (n - FirstDue(t)) % HopOf(t) = 0
LastDue(t) == consumed - ((consumed - FirstDue(t)) % HopOf(t))

\* However calls cut the stream and whatever was streamed before a reset: a tier
\* shows the latest samples of its stream when it was last due, a call returns at
\* how many positions some tier was due, and nothing is valid before one was.
SpectraAreDue ==
  /\ \A t \in Tiers :
       IF consumed < FirstDue(t) THEN bands[t].window = <<>>
       ELSE LET newest == LastDue(t) \div Decimation(t)
            IN bands[t].at = LastDue(t) /\ bands[t].window = [i \in 1..FftSize |-> newest - FftSize + i]
  /\ pushing.published = Cardinality({n \in pushing.from + 1..consumed : \E t \in Tiers : DueAt(t, n)})
  /\ valid = \E t \in Tiers : bands[t].window # <<>>

\* A peak is held for the time configured and then falls with time, not with updates,
\* and is never below the level.
PeaksKeepTime ==
  \A t \in Tiers :
    /\ bands[t].peak >= bands[t].smooth
    /\ analyzer.config.hold > 0 => bands[t].peak = Expected(bands[t], bands[t].at)

\* The bands' ranges are bins that exist, of the rate in force, and leave no gap
\* between neighbours of the same resolution.
BandsCoverSpectrum ==
  LET edges == BandEdges[analyzer.binRate]
      Range2(i) == BinRange(edges[i], edges[i + 1], analyzer.binRate)
      TierAt(i) == IF Multi THEN TierOf(edges[i], edges[i + 1], analyzer.binRate) ELSE 1
  IN /\ analyzer.binRate = analyzer.rate
     /\ \A i \in 1..Len(edges) - 1 : 0 <= Range2(i)[1] /\ Range2(i)[1] < Range2(i)[2] /\ Range2(i)[2] <= PositiveBins
     /\ \A i \in 1..Len(edges) - 2 :
          TierAt(i + 1) <= TierAt(i) /\ (TierAt(i) = TierAt(i + 1) => Range2(i + 1)[1] <= Range2(i)[2])

SpectrumIsExact == SpectraAreDue /\ PeaksKeepTime /\ BandsCoverSpectrum
=============================================================================
