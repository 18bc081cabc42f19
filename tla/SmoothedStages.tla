---------------------------- MODULE SmoothedStages ----------------------------
(***************************************************************************)
(* The stages that smooth their parameters over frames, with the adapter    *)
(* they share the shape of: the equalizer crossfades from one filter bank   *)
(* to another, the crossfeed ramps its mix and its coefficients, the volume *)
(* approaches its target.  A snapshot is adopted when a block begins; only  *)
(* frames that the stage really processes move a ramp.                      *)
(*                                                                         *)
(* Numbers are integers and divisions round, as those of the code do at a   *)
(* finer grain.  All bands of the equalizer are set together, so one stands *)
(* for all; filter histories are left out.                                  *)
(***************************************************************************)
EXTENDS Integers, Sequences

CONSTANTS
  StageRates,
  RampFrames,     \* of the crossfeed, per rate
  FadeFrames,     \* EQ_SMOOTH_SAMPLES
  Wishes,         \* per kind of stage, the snapshots that may be published
  SettleEpsilon,
  VolumeFrames    \* frames in which the volume is sure to arrive

VARIABLES
  wish,      \* what is published
  adapter,   \* its kind, cached snapshot, rate and lifecycle
  ramp,      \* the ramps of the stage
  moved      \* history: frames processed since the last change, up to MaxMoved

smoothVars == <<wish, adapter, ramp, moved>>

\* The distance from its goal that the volume covers within so many frames.
Within[n \in 0..VolumeFrames] == IF n <= 1 THEN n ELSE 2 * Within[n - 1]

FullVolume == 4

ASSUME SmoothAssumption ==
  /\ StageRates \subseteq Nat /\ RampFrames \in [StageRates -> Nat \ {0}]
  /\ {FadeFrames, SettleEpsilon, VolumeFrames} \subseteq Nat \ {0}
  /\ DOMAIN Wishes \subseteq {"equalizer", "crossfeed", "volume"}
  /\ "crossfeed" \in DOMAIN Wishes =>
       \A w \in Wishes["crossfeed"] : {w.mix, w.cutoff} \subseteq Int
  /\ "volume" \in DOMAIN Wishes =>
       \A w \in Wishes["volume"] : w.volume \in 0..Within[VolumeFrames] /\ w.muted \in BOOLEAN
  /\ FullVolume <= Within[VolumeFrames]

Magnitude(n) == IF n < 0 THEN -n ELSE n
\* Division that rounds towards zero.
Ratio(n, d) == IF n < 0 THEN -((-n) \div d) ELSE n \div d

Enabled(snapshot) == adapter.kind = "volume" \/ snapshot.enabled

-----------------------------------------------------------------------------
(* The equalizer.                                                          *)

Bank(snapshot, rate) == [gain |-> snapshot.gain, rate |-> rate]

\* `set_all_bands_validated`: every publication restarts the crossfade.
Retuned(r, snapshot, rate) == [r EXCEPT !.target = Bank(snapshot, rate), !.left = FadeFrames]

Crossfaded(r) ==
  IF r.left = 0 THEN r
  ELSE [r EXCEPT !.left = @ - 1, !.bank = IF r.left = 1 THEN r.target ELSE @]

-----------------------------------------------------------------------------
(* The crossfeed.                                                          *)

Design(snapshot, rate) == snapshot.cutoff * rate

At(value) == [current |-> value, start |-> value, target |-> value, total |-> 1,
              step |-> 0, left |-> 0]

\* Mutant: a ramp that is under way goes back to where it is only when it gets there.
BugRetargeted(r, target, frames) ==
  IF target = r.current THEN r
  ELSE [r EXCEPT !.target = target, !.left = frames, !.total = frames, !.start = r.current,
                 !.step = Ratio(target - r.current, frames)]

\* `retarget` of either ramp.
Retargeted(r, target, frames) ==
  IF target = r.target THEN r
  ELSE [r EXCEPT !.target = target, !.left = frames, !.total = frames, !.start = r.current,
                 !.step = Ratio(target - r.current, frames)]

\* `ScalarRamp::next` and `CoefficientRamp::next`
Stepped(r) ==
  IF r.left = 0 THEN r
  ELSE [r EXCEPT !.left = @ - 1, !.current = IF r.left = 1 THEN r.target ELSE @ + r.step]
Blended(r) ==
  IF r.left = 0 THEN r
  ELSE [r EXCEPT !.left = @ - 1,
                 !.current = IF r.left = 1 THEN r.target
                             ELSE r.start + Ratio((r.target - r.start) * (r.total - r.left + 1), r.total)]

-----------------------------------------------------------------------------
(* The volume.                                                             *)

Goal(snapshot) == IF snapshot.muted THEN 0 ELSE snapshot.volume

Approached(gain, snapshot) ==
  IF snapshot.muted THEN gain \div 2
  ELSE IF Magnitude(snapshot.volume - gain) <= SettleEpsilon THEN snapshot.volume
  ELSE gain + Ratio(snapshot.volume - gain, 2)

-----------------------------------------------------------------------------
(* The adapters.                                                           *)

\* `new`; the volume starts at unity, whatever is published.
Fresh(kind, snapshot, rate) ==
  CASE kind = "equalizer" -> [bank |-> Bank(snapshot, rate), target |-> Bank(snapshot, rate), left |-> 0]
    [] kind = "crossfeed" -> [mix |-> At(snapshot.mix), cutoff |-> At(Design(snapshot, rate))]
    [] kind = "volume" -> [gain |-> FullVolume]

FadeOf(kind, rate) ==
  CASE kind = "equalizer" -> FadeFrames
    [] kind = "crossfeed" -> RampFrames[rate]
    [] kind = "volume" -> VolumeFrames
Arrived == FadeOf(adapter.kind, adapter.rate)
MaxMoved == VolumeFrames

SmoothInit ==
  \E kind \in DOMAIN Wishes, rate \in StageRates :
    /\ wish \in Wishes[kind]
    /\ adapter = [kind |-> kind, cached |-> wish, rate |-> rate, phase |-> "processing"]
    /\ ramp = Fresh(kind, wish, rate)
    /\ moved = IF kind = "volume" THEN 0 ELSE MaxMoved

SmoothPublish == wish' \in Wishes[adapter.kind] /\ UNCHANGED <<adapter, ramp, moved>>

\* `sync_params`, when the reader gets a newer snapshot.
Adopted(snapshot) ==
  CASE adapter.kind = "equalizer" -> Retuned(ramp, snapshot, adapter.rate)
    [] adapter.kind = "crossfeed" ->
         [mix |-> Retargeted(ramp.mix, snapshot.mix, RampFrames[adapter.rate]),
          cutoff |-> IF snapshot.cutoff = adapter.cached.cutoff THEN ramp.cutoff
                     ELSE Retargeted(ramp.cutoff, Design(snapshot, adapter.rate), RampFrames[adapter.rate])]
    [] adapter.kind = "volume" -> ramp

\* A frame that the stage processes; the crossfeed leaves other than stereo alone.
Advanced(r, snapshot) ==
  CASE adapter.kind = "equalizer" -> Crossfaded(r)
    [] adapter.kind = "crossfeed" -> [mix |-> Stepped(r.mix), cutoff |-> Blended(r.cutoff)]
    [] adapter.kind = "volume" -> [gain |-> Approached(r.gain, snapshot)]

Works(snapshot, stereo) == Enabled(snapshot) /\ (adapter.kind = "crossfeed" => stereo)

\* `process` of a block of a frame or none: a longer block is one whose reader
\* misses the later publications.
SmoothProcess(adopts, frames, stereo) ==
  /\ adapter.phase = "processing"
  /\ LET now == IF adopts THEN wish ELSE adapter.cached
         r == IF adopts THEN Adopted(now) ELSE ramp
         before == IF adopts /\ (adapter.kind = "equalizer" \/ now # adapter.cached) THEN 0 ELSE moved
         works == frames = 1 /\ Works(now, stereo)
     IN /\ adapter' = [adapter EXCEPT !.cached = now]
        /\ ramp' = IF works THEN Advanced(r, now) ELSE r
        /\ moved' = IF works /\ before < MaxMoved THEN before + 1 ELSE before
  /\ UNCHANGED wish

\* `finish`: the tail is made from silence, if the first call found the stage
\* enabled (`lock_finish_enabled`); parameters are not synchronised any more.
SmoothFinish(frames, stereo) ==
  /\ LET ends == adapter.kind = "volume" \/ adapter.phase = "finished"
                   \/ (adapter.phase = "processing" /\ ~Works(adapter.cached, stereo))
         works == ~ends /\ frames = 1 /\ Works(adapter.cached, stereo)
     IN /\ adapter' = [adapter EXCEPT !.phase = IF ends THEN "finished" ELSE "finishing"]
        /\ ramp' = IF works THEN Advanced(ramp, adapter.cached) ELSE ramp
        /\ moved' = IF works /\ moved < MaxMoved THEN moved + 1 ELSE moved
  /\ UNCHANGED wish

Landed(r) == At(r.target)

\* `reset`: ramps end; the volume is restored, muted or not.
SmoothReset ==
  /\ adapter' = [adapter EXCEPT !.phase = "processing"]
  /\ ramp' = CASE adapter.kind = "equalizer" -> [ramp EXCEPT !.bank = ramp.target, !.left = 0]
               [] adapter.kind = "crossfeed" -> [mix |-> Landed(ramp.mix), cutoff |-> Landed(ramp.cutoff)]
               [] adapter.kind = "volume" -> [gain |-> adapter.cached.volume]
  /\ moved' = IF adapter.kind = "volume" THEN 0 ELSE MaxMoved
  /\ UNCHANGED wish

\* `set_sample_rate`: another equalizer; the crossfeed's ramps end at the new rate.
SmoothSetRate(rate) ==
  /\ adapter' = [adapter EXCEPT !.phase = "processing", !.rate = rate]
  /\ ramp' = CASE adapter.kind = "equalizer" -> Fresh("equalizer", adapter.cached, rate)
               [] adapter.kind = "crossfeed" ->
                    [mix |-> Landed(ramp.mix), cutoff |-> At(Design(adapter.cached, rate))]
               [] adapter.kind = "volume" -> ramp
  /\ moved' = IF adapter.kind = "volume" THEN moved ELSE MaxMoved
  /\ UNCHANGED wish

SmoothNext ==
  \/ SmoothPublish \/ SmoothReset
  \/ \E adopts, stereo \in BOOLEAN, frames \in {0, 1} : SmoothProcess(adopts, frames, stereo)
  \/ \E stereo \in BOOLEAN, frames \in {0, 1} : SmoothFinish(frames, stereo)
  \/ \E rate \in StageRates : SmoothSetRate(rate)

SmoothSpec == SmoothInit /\ [][SmoothNext]_smoothVars

-----------------------------------------------------------------------------
(* Properties.                                                             *)

\* What the stage applies, once it has processed a ramp's worth of frames.
Applies(r, snapshot, rate) ==
  CASE adapter.kind = "equalizer" -> r.bank = Bank(snapshot, rate) /\ r.left = 0
    [] adapter.kind = "crossfeed" ->
         r.mix.current = snapshot.mix /\ r.cutoff.current = Design(snapshot, rate)
    [] adapter.kind = "volume" -> r.gain = Goal(snapshot)

OnTheWay(x, a, b) == (a <= x /\ x <= b) \/ (b <= x /\ x <= a)

\* Within a stream, the mix and the coefficients of the crossfeed and the volume
\* stay between where they were and where they go, and no retarget in the middle of
\* a ramp steps back or overshoots; only a reset of the volume jumps.
KeepsOnTheWay ==
  CASE adapter.kind = "equalizer" -> TRUE
    [] adapter.kind = "crossfeed" -> adapter'.rate = adapter.rate =>
         /\ OnTheWay(ramp'.mix.current, ramp.mix.current, adapter'.cached.mix)
         /\ OnTheWay(ramp'.cutoff.current, ramp.cutoff.current,
                     Design(adapter'.cached, adapter.rate))
    [] adapter.kind = "volume" -> moved' # 0 =>
         OnTheWay(ramp'.gain, ramp.gain, Goal(adapter'.cached))

\* A ramp never leaves its way, and once a stage has processed a ramp's worth of
\* frames since it adopted a change, or has been reset, it applies exactly what it
\* adopted at the rate of the stream, however often it was retargeted, bypassed,
\* drained or given blocks of other channels meanwhile (adapters.rs:220-235,
\* crossfeed.rs:74-122, adapters.rs:1731-1735).
RampsArrive ==
  [][KeepsOnTheWay /\ (moved' >= Arrived' => Applies(ramp', adapter'.cached, adapter'.rate))]_smoothVars

=============================================================================
