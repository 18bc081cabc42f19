---------------------------- MODULE SaturationCore ----------------------------
(***************************************************************************)
(* `Saturation`, the waveshaper behind the adapter of SaturationAdapter:    *)
(* its fixed delay of the raw and dry signals, the residual it adds, which  *)
(* is delayed too or filtered out of an oversampled signal, and the short   *)
(* history of source samples from which the nonlinear state of another      *)
(* quality is rebuilt.                                                      *)
(*                                                                         *)
(* A frame is its number, silence is 0, and channels are alike.  What the   *)
(* high-pass makes of a frame depends on the frame it saw before; what is   *)
(* pushed into the decimation filter is a point between two samples.        *)
(***************************************************************************)
EXTENDS Integers, Sequences

CONSTANTS
  CoreQualities, Ratios, Taps, \* per quality, 1 and 0 for the direct one
  LatencyFrames,               \* SATURATION_LATENCY_FRAMES
  HistoryFrames,               \* SATURATION_SOURCE_HISTORY_FRAMES
  CoreRates,
  MaxCoreFrames, MaxChanges    \* bounds: frames since a reset, changes of settings

VARIABLES
  core,      \* settings and the state of a channel
  emitted,   \* the last output frame: what it is made of
  \* history: frames since the last reset, the samples at the nonlinearity since the last
  \* reset or change of mode, whether bypassing left the residual behind, changes
  inputs, samples, behind, changes

coreVars == <<core, emitted, inputs, samples, behind, changes>>

ASSUME CoreAssumption ==
  /\ {LatencyFrames, HistoryFrames} \subseteq Nat \ {0}
  /\ Ratios \in [CoreQualities -> Nat \ {0}] /\ Taps \in [CoreQualities -> Nat]
  /\ \A q \in CoreQualities : Ratios[q] = 1 <=> Taps[q] = 0
  \* The filters' group delay is the fixed latency, and replaying the history, the first
  \* sample of which only primes the interpolation, fills them.
  /\ \A q \in CoreQualities : Taps[q] > 0 =>
       /\ Taps[q] = 2 * Ratios[q] * LatencyFrames + 1
       /\ (HistoryFrames - 1) * Ratios[q] >= Taps[q]
  \* It also fills the delay of the direct residual.
  /\ HistoryFrames >= LatencyFrames

Oversamples(q) == Taps[q] > 0
Mod(a, n) == ((a % n) + n) % n

Sample(frame) == [frame |-> frame, after |-> 0, high |-> FALSE]
SilentSample == Sample(0)
\* The residual at a point between two samples; at the far end, at the sample itself.
PointBetween(previous, sample, phase, ratio) ==
  IF previous = sample \/ phase = ratio THEN <<sample, sample, 0>> ELSE <<previous, sample, phase>>
NoResidual == PointBetween(SilentSample, SilentSample, 0, 1)

-----------------------------------------------------------------------------
(* The decimation filter's state.                                          *)

NewFilter(q) ==
  [started |-> FALSE, previous |-> SilentSample, index |-> 0,
   history |-> [i \in 0..2 * Taps[q] - 1 |-> NoResidual]]

\* `OversamplingChannelState::push`: downwards, and twice, so that a window is contiguous.
Pushed(filter, residual, taps) ==
  LET index == IF filter.index = 0 THEN taps - 1 ELSE filter.index - 1
  IN [filter EXCEPT !.index = index, !.history[index] = residual, !.history[index + taps] = residual]

\* `advance_oversampled_state`
Oversampled(filter, sample, q) ==
  LET started == IF filter.started THEN filter
                 ELSE [NewFilter(q) EXCEPT !.started = TRUE, !.previous = sample]
      after[phase \in 0..Ratios[q]] ==
        IF phase = 0 THEN started
        ELSE Pushed(after[phase - 1], PointBetween(started.previous, sample, phase, Ratios[q]), Taps[q])
  IN [after[Ratios[q]] EXCEPT !.previous = sample]

\* `evaluate`: the newest residual first.
Evaluated(filter, q) == [i \in 1..Taps[q] |-> filter.history[filter.index + i - 1]]

-----------------------------------------------------------------------------
(* Delay lines and source history.                                         *)

Line(content) == [i \in 0..LatencyFrames - 1 |-> content]
NewLines == [raw |-> Line(0), dry |-> Line(0), delta |-> Line(NoResidual)]
NewHistory == [ring |-> [i \in 0..HistoryFrames - 1 |-> SilentSample], next |-> 0, len |-> 0]

Recorded(history, sample) ==
  [ring |-> [history.ring EXCEPT ![history.next] = sample],
   next |-> (history.next + 1) % HistoryFrames,
   len |-> IF history.len < HistoryFrames THEN history.len + 1 ELSE HistoryFrames]

\* Mutant: the history is read as if it were full.
BugHistorySample(history, i) == history.ring[(history.next + i) % HistoryFrames]

\* The i-th retained sample, the oldest is the zeroth.
HistorySample(history, i) ==
  history.ring[Mod(history.next - history.len + i, HistoryFrames)]

\* `prepare_nonlinear_state_from_history`
Prepared(c) ==
  LET history == c.history
      retained == IF history.len < LatencyFrames THEN history.len ELSE LatencyFrames
      Slot(k) == Mod(c.index + LatencyFrames - retained + k, LatencyFrames)
      delta == [i \in 0..LatencyFrames - 1 |->
                  IF \E k \in 0..retained - 1 : Slot(k) = i
                  THEN LET s == HistorySample(history, history.len - retained
                                               + CHOOSE k \in 0..retained - 1 : Slot(k) = i)
                       IN PointBetween(s, s, 0, 1)
                  ELSE NoResidual]
      replayed[n \in 0..HistoryFrames] ==
        IF n = 0 THEN NewFilter(c.quality)
        ELSE Oversampled(replayed[n - 1], HistorySample(history, n - 1), c.quality)
  IN IF Oversamples(c.quality)
     THEN [c EXCEPT !.filter = replayed[history.len], !.lines.delta = Line(NoResidual)]
     ELSE [c EXCEPT !.filter = NewFilter(c.quality), !.lines.delta = delta]

\* `reset`
Cleared(c) == [c EXCEPT !.hpf = 0, !.filter = NewFilter(c.quality), !.history = NewHistory,
                        !.lines = NewLines, !.index = 0]

-----------------------------------------------------------------------------
(* Operations.                                                             *)

Nothing == [raw |-> 0, dry |-> 0, residual |-> <<>>]

CoreInit ==
  /\ \E q \in CoreQualities, high \in BOOLEAN, rate \in CoreRates :
       core = [quality |-> q, highpass |-> high, rate |-> rate, hpf |-> 0, filter |-> NewFilter(q),
               history |-> NewHistory, lines |-> NewLines, index |-> 0]
  /\ emitted = Nothing /\ inputs = <<>> /\ samples = <<>> /\ behind = FALSE /\ changes = 0

\* A stream that has gone quiet stays quiet.
NextFrames ==
  {0} \cup (IF inputs = <<>> \/ inputs[Len(inputs)] # 0 THEN {Len(inputs) + 1} ELSE {})

\* The sample at the nonlinearity: the frame or what the high-pass makes of it.
SampleOf(frame) ==
  IF core.highpass THEN [frame |-> frame, after |-> core.hpf, high |-> TRUE] ELSE Sample(frame)

\* A frame through the delay lines, with what is pushed as its delayed residual.
Delayed(frame, sample, residual) ==
  [core EXCEPT !.hpf = IF core.highpass THEN frame ELSE @,
               !.lines.raw[core.index] = frame, !.lines.dry[core.index] = frame,
               !.lines.delta[core.index] = residual,
               !.index = (@ + 1) % LatencyFrames,
               !.history = Recorded(@, sample)]

Advance(frame, sample) ==
  /\ Len(inputs) < MaxCoreFrames
  /\ inputs' = Append(inputs, frame) /\ samples' = Append(samples, sample)
  /\ UNCHANGED changes

\* `process_fullband` or `process_highpass`, direct or oversampled: one frame of it.
ProcessFrame ==
  \E frame \in NextFrames :
    LET sample == SampleOf(frame)
        filter == Oversampled(core.filter, sample, core.quality)
        lines == core.lines
    IN /\ IF Oversamples(core.quality)
          THEN /\ core' = [Delayed(frame, sample, lines.delta[core.index]) EXCEPT !.filter = filter]
               /\ emitted' = [raw |-> lines.raw[core.index], dry |-> lines.dry[core.index],
                              residual |-> Evaluated(filter, core.quality)]
          ELSE /\ core' = Delayed(frame, sample, PointBetween(sample, sample, 0, 1))
               /\ emitted' = [raw |-> lines.raw[core.index], dry |-> lines.dry[core.index],
                              residual |-> <<lines.delta[core.index]>>]
       /\ Advance(frame, sample) /\ UNCHANGED behind

\* `process_delayed_bypass`: the delay goes on, the nonlinear state does not.
BypassFrame ==
  \E frame \in NextFrames :
    LET sample == SampleOf(frame)
    IN /\ core' = Delayed(frame, sample, NoResidual)
       /\ emitted' = [Nothing EXCEPT !.raw = core.lines.raw[core.index],
                                     !.dry = core.lines.raw[core.index]]
       /\ Advance(frame, sample) /\ behind' = TRUE

Change == changes < MaxChanges /\ changes' = changes + 1

\* `set_quality`, or the standby of the adapter's transition bank being prepared.
SetQuality ==
  /\ Change
  /\ \E q \in CoreQualities :
       /\ q # core.quality \/ behind
       /\ core' = Prepared([core EXCEPT !.quality = q])
  /\ behind' = FALSE /\ emitted' = Nothing
  /\ UNCHANGED <<inputs, samples>>

\* `set_highpass_mode`: the filters' memories of the other mode are dropped.
SetHighpassMode ==
  /\ Change
  /\ core' = [core EXCEPT !.highpass = ~@, !.filter = NewFilter(core.quality), !.history = NewHistory]
  /\ samples' = <<>> /\ behind' = FALSE /\ emitted' = Nothing
  /\ UNCHANGED inputs

\* `reset`, and `set_sample_rate` with another rate.
ResetCore ==
  /\ Change
  /\ \E rate \in CoreRates : core' = Cleared([core EXCEPT !.rate = rate])
  /\ emitted' = Nothing /\ inputs' = <<>> /\ samples' = <<>> /\ behind' = FALSE

CoreNext == ProcessFrame \/ BypassFrame \/ SetQuality \/ SetHighpassMode \/ ResetCore

-----------------------------------------------------------------------------
(* Properties.                                                             *)

\* `finite_tail_frames`
FiniteTail ==
  IF core.highpass THEN 0
  ELSE LET filter == (Taps[core.quality] + Ratios[core.quality] - 2) \div Ratios[core.quality]
       IN IF Oversamples(core.quality) /\ filter > LatencyFrames THEN filter ELSE LatencyFrames

\* The residuals of all samples, the newest first, as a core makes them that ran in
\* this quality since the last reset or change of mode.
Running(q) ==
  [i \in 1..Len(samples) * Ratios[q] |->
     LET k == Len(samples) - ((i - 1) \div Ratios[q])
         phase == Ratios[q] - ((i - 1) % Ratios[q])
     IN PointBetween(samples[IF k = 1 THEN 1 ELSE k - 1], samples[k], phase, Ratios[q])]

Age == Len(inputs) - LatencyFrames

\* The raw and the dry signal leave LatencyFrames after they came, whatever changed.
TimelineHolds ==
  emitted # Nothing =>
    LET due == IF Age > 0 THEN inputs[Age] ELSE 0 IN emitted.raw = due /\ emitted.dry = due

\* A quality that was switched to sounds as if it had been running all along, once
\* what bypassing left behind was rebuilt; the residual belongs to the frame it is
\* added to.
SwitchIsSeamless ==
  emitted.residual # <<>> /\ ~behind =>
    LET q == core.quality
        running == Running(q)
        position == Len(samples) - LatencyFrames
    IN IF Oversamples(q)
       THEN emitted.residual =
              [i \in 1..Taps[q] |-> IF i <= Len(running) THEN running[i] ELSE NoResidual]
       ELSE position > 0 => emitted.residual = <<PointBetween(samples[position], samples[position], 0, 1)>>

\* After the finite tail that the core declares, nothing more is heard.
TailIsEnough ==
  ~behind /\ ~core.highpass /\ Len(inputs) > FiniteTail /\ Len(samples) = Len(inputs)
    /\ (\A i \in Len(inputs) - FiniteTail..Len(inputs) : inputs[i] = 0) =>
    /\ emitted.raw = 0 /\ emitted.dry = 0
    /\ \A i \in DOMAIN emitted.residual : emitted.residual[i] = NoResidual

CoreIsSeamless == TimelineHolds /\ SwitchIsSeamless /\ TailIsEnough
=============================================================================
