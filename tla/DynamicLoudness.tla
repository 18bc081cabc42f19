---------------------------- MODULE DynamicLoudness ----------------------------
(***************************************************************************)
(* The dynamic loudness stage and its adapter: at low volumes bands are      *)
(* boosted, and an attenuation (the pre-gain) makes room for them.  Band and *)
(* pre-gain approach their targets block by block; a stage of strength zero   *)
(* bypasses itself once both have arrived.                                   *)
(*                                                                         *)
(* Gains are integers.  A block halves the distance to a target, and arrives *)
(* when it is one or less.  One band stands for the seven; the filters'      *)
(* histories, the rate's coefficients and the telemetry are left out.  What  *)
(* a reader adopts is any snapshot: how they are published is modelled in     *)
(* SnapshotPublication.                                                      *)
(***************************************************************************)
EXTENDS Integers

CONSTANTS
  UnityGain,          \* a pre-gain of 0 dB
  DefaultTuning,  \* that of `new_validated`, before anything is applied
  LoudnessParams, \* published: [enabled, volume, strength]
  Tunings,        \* published: [preGain, factor], a factor for each volume
  UpdateEpsilon   \* GAIN_UPDATE_EPSILON_DB

VARIABLES
  held,     \* the adapter: the parameters it adopted, and its lifecycle
  boost,    \* DynamicLoudness: its settings, its smoothers and the band it applies
  heard     \* history: what multiplied the last frame, if the stage runs since

dynamicVars == <<held, boost, heard>>

ASSUME DynamicAssumption ==
  /\ UnityGain \in Nat \ {0} /\ UpdateEpsilon \in Nat \ {0} /\ DefaultTuning \in Tunings
  /\ \A t \in Tunings : t.preGain \in 1..UnityGain
  /\ \A p \in LoudnessParams :
       p.strength \in Nat /\ \A t \in Tunings : t.factor[p.volume] \in Nat

Distance(a, b) == IF a < b THEN b - a ELSE a - b

-----------------------------------------------------------------------------
(* The smoothers.                                                          *)

SettledAt(value) == [current |-> value, target |-> value, active |-> FALSE]

\* `set_target`
Aimed(s, target) == IF target = s.target THEN s ELSE [s EXCEPT !.target = target, !.active = TRUE]

\* `next_block`
NextBlock(s) ==
  IF ~s.active THEN s
  ELSE IF Distance(s.current, s.target) <= 2 THEN SettledAt(s.target)
  ELSE [s EXCEPT !.current = (s.current + s.target) \div 2]

-----------------------------------------------------------------------------
(* The core.  `applied` is the gain of the band's coefficients, and -1 when   *)
(* they are to be made again; `bandActive` is that the band filters at all.    *)

\* `refresh_smoother_targets`
Refreshed(b) == [b EXCEPT !.band = Aimed(@, b.factor * b.strength)]

\* `set_volume`: nothing is done unless the factor changes.
Volumed(b, volume) ==
  LET factor == b.tuning.factor[volume]
  IN IF factor = b.factor THEN b ELSE Refreshed([b EXCEPT !.factor = factor])

\* `set_strength`
Strengthened(b, strength) ==
  IF strength = b.strength THEN b ELSE Refreshed([b EXCEPT !.strength = strength])

\* `apply_cached_params`; `apply_cached_tuning` only stores.
WithParams(b, p) == Strengthened(Volumed(b, p.volume), p.strength)
WithTuning(b, t) == [b EXCEPT !.tuning = t]

\* `apply_band_gain_if_changed`
BandApplied(b, gain) ==
  IF b.applied >= 0 /\ Distance(gain, b.applied) < UpdateEpsilon /\ b.bandActive = (gain # 0)
  THEN b
  ELSE [b EXCEPT !.applied = gain, !.bandActive = gain # 0]

\* `pre_gain_target`; the adapter never disables the core.
PreGainTarget(b) == IF b.strength > 0 THEN b.tuning.preGain ELSE UnityGain

\* `can_bypass_for_zero_strength`
CanBypass(b) == b.strength = 0 /\ ~b.bandActive /\ ~b.band.active

NewCore ==
  [factor |-> 0, strength |-> 2, tuning |-> DefaultTuning, band |-> SettledAt(0),
   preGain |-> SettledAt(DefaultTuning.preGain), applied |-> -1, bandActive |-> FALSE]

\* Mutant: an idle stage bypasses itself whatever is left of the pre-gain.
BugProcessed(b) ==
  LET aimed == [b EXCEPT !.preGain = Aimed(@, PreGainTarget(b))]
      moved == [aimed EXCEPT !.band = NextBlock(@), !.preGain = NextBlock(@)]
  IN IF CanBypass(aimed) THEN aimed ELSE BandApplied(moved, moved.band.current)

\* `process_validated` of a block of the size of one update.
Processed(b) ==
  LET aimed == [b EXCEPT !.preGain = Aimed(@, PreGainTarget(b))]
      moved == [aimed EXCEPT !.band = NextBlock(@), !.preGain = NextBlock(@)]
  IN IF CanBypass(aimed) /\ ~aimed.preGain.active THEN aimed
     ELSE BandApplied(moved, moved.band.current)

\* What multiplies a frame that `before` was asked to process.
Applied(before, after) ==
  LET bypassed == CanBypass(before) /\ after.band = before.band
                    /\ after.preGain.current = before.preGain.current
  IN [preGain |-> IF bypassed THEN UnityGain ELSE after.preGain.current,
      band |-> IF after.bandActive THEN after.applied ELSE 0]

Silenced == [preGain |-> 0, band |-> 0]

-----------------------------------------------------------------------------
(* The adapter.                                                            *)

\* `new`: parameters are applied before the tuning.
DynamicInit ==
  \E p \in LoudnessParams, t \in Tunings :
    /\ held = [params |-> p, phase |-> "processing"]
    /\ boost = WithTuning(WithParams(NewCore, p), t)
    /\ heard = Silenced

\* `process` of a block, or of none: `sync_params` finds either snapshot newer than
\* the adapter's, or both, or none.  A longer block is several whose readers miss what
\* is published meanwhile.  A disabled stage leaves the audio alone at once.
DynamicProcess(p, t, newParams, newTuning, frames) ==
  /\ held.phase = "processing"
  /\ newParams \/ p = held.params
  /\ newTuning \/ t = boost.tuning
  /\ LET asked == IF newParams THEN WithParams(boost, p) ELSE boost
         ready == IF newTuning THEN WithTuning(asked, t) ELSE asked
         works == p.enabled /\ frames > 0
     IN /\ held' = [held EXCEPT !.params = p]
        /\ boost' = IF works THEN Processed(ready) ELSE ready
        /\ heard' = IF ~p.enabled THEN Silenced
                    ELSE IF works THEN Applied(ready, boost') ELSE heard

\* `finish`: `finish_fixed_unknown`; parameters are not synchronised any more.
DynamicFinish(frames) ==
  /\ LET ends == held.phase = "finished" \/ (held.phase = "processing" /\ ~held.params.enabled)
         works == ~ends /\ frames > 0
     IN /\ held' = [held EXCEPT !.phase = IF ends THEN "finished" ELSE "finishing"]
        /\ boost' = IF works THEN Processed(boost) ELSE boost
        /\ heard' = IF works THEN Applied(boost, boost') ELSE heard

\* `reset`: the band starts again from nothing, the pre-gain where it is to be.
DynamicReset ==
  /\ boost' = WithParams([boost EXCEPT !.factor = 0, !.band = SettledAt(0), !.applied = -1,
                                       !.bandActive = FALSE,
                                       !.preGain = SettledAt(PreGainTarget(boost))],
                         held.params)
  /\ held' = [held EXCEPT !.phase = "processing"] /\ heard' = Silenced

\* `set_sample_rate`: at another rate, the filters are cleared, and their
\* coefficients made again where the band is.
DynamicSetRate(another) ==
  /\ boost' = IF another THEN BandApplied([boost EXCEPT !.applied = -1, !.bandActive = FALSE],
                                          boost.band.current)
              ELSE boost
  /\ held' = [held EXCEPT !.phase = "processing"]
  /\ heard' = IF another THEN Silenced ELSE heard

DynamicNext ==
  \/ \E p \in LoudnessParams, t \in Tunings, newParams, newTuning \in BOOLEAN, frames \in {0, 1} :
       DynamicProcess(p, t, newParams, newTuning, frames)
  \/ DynamicReset
  \/ \E frames \in {0, 1} : DynamicFinish(frames)
  \/ \E another \in BOOLEAN : DynamicSetRate(another)

DynamicSpec == DynamicInit /\ [][DynamicNext]_dynamicVars

-----------------------------------------------------------------------------
(* Properties.                                                             *)

\* From `from` to `to` in a step that goes at most half of the way to `target`.
Gradual(from, to, target, slack) ==
  /\ (from <= to /\ to <= target) \/ (target <= to /\ to <= from)
  /\ 2 * Distance(from, to) <= Distance(from, target) + slack

\* While the stage runs, what multiplies the audio never steps: the headroom and
\* the boost both move by no more than their ramps allow in a block, when strength
\* goes to or comes from zero, when the idle stage bypasses itself and wakes up,
\* when the tuning changes and through the drain (dynamic_loudness.rs:477-481).
HeadroomIsGradual ==
  [][heard # Silenced /\ heard' # Silenced =>
       /\ Gradual(heard.preGain, heard'.preGain, PreGainTarget(boost'), 2)
       /\ Gradual(heard.band, heard'.band, boost'.band.target, UpdateEpsilon + 1)]_dynamicVars

=============================================================================
