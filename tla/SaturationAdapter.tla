-------------------------- MODULE SaturationAdapter --------------------------
(***************************************************************************)
(* `SaturationProcessor`: a bank of three cores, one per quality, between   *)
(* which it crossfades, an effect weight that fades the audible effect in   *)
(* and out, a hard bypass that is only honoured before a stream starts, and *)
(* a finish whose length is promised by `tail` beforehand.                  *)
(*                                                                         *)
(* A weight is 0, 1 for anything in between, or 2 for unity; a tie of       *)
(* partial weights is broken either way.  The continuous parameters, whose  *)
(* ramps change no control decision, are left out.                          *)
(***************************************************************************)
EXTENDS Integers, FiniteSets

CONSTANTS
  Qualities,     \* SaturationQualityValue
  DefaultQuality,
  NoTarget,      \* no quality transition
  Transition,    \* SATURATION_TRANSITION_FRAMES
  Latency,       \* SATURATION_LATENCY_FRAMES
  FilterTail,    \* finite_tail_frames of each quality
  Blocks         \* frames of one call

ASSUME SaturationAssumption ==
  /\ DefaultQuality \in Qualities /\ NoTarget \notin Qualities
  /\ Transition \in Nat /\ Transition > 2 /\ Latency \in Nat
  /\ FilterTail \in [Qualities -> Nat] /\ \A q \in Qualities : FilterTail[q] >= Latency
  /\ Blocks \subseteq Nat

Zero == 0
Part == 1
Unity == 2
VARIABLES
  params,         \* the published snapshot
  cached, synced, \* the adapter's copy, and whether it is the published one
  hardBypassed, streamStarted,
  core,           \* effect and quality transitions and the bank, see Settled
  finishing, finished, finishRemaining,
  \* history: a frame mixed a core that had missed frames; what
  \* the first finish call promised, and what finish rendered since
  stale, promised, rendered

control == <<params>>
lifecycle == <<finishing, finished, finishRemaining>>
saturationVars == <<params, cached, synced, hardBypassed, streamStarted, core, lifecycle,
          stale, promised, rendered>>

NoFrames == -1
Longer(a, b) == IF a >= b THEN a ELSE b
Shorter(a, b) == IF a <= b THEN a ELSE b
Level(on) == IF on THEN Unity ELSE Zero
OneHot(q) == [p \in Qualities |-> IF p = q THEN Unity ELSE Zero]

\* A stream without a transition.  aligned: cores whose delay lines have seen
\* every frame of the stream, and whose source history goes back as far as a
\* rebuild needs or to the last change of the high-pass mode; fresh: cores whose
\* nonlinear state lacks no frame since the stream began or, for an oversampling
\* core, since the mode last changed.
Settled(enabled, q) ==
  [from |-> Level(enabled), to |-> Level(enabled), cursor |-> Transition,
   weights |-> OneHot(q), target |-> NoTarget, quality |-> Transition,
   aligned |-> Qualities, fresh |-> Qualities]

SaturationInit ==
  /\ params \in [armed : BOOLEAN, enabled : BOOLEAN, quality : {DefaultQuality},
                 highpass : BOOLEAN]
  /\ cached = params /\ synced = TRUE
  /\ hardBypassed = ~params.armed /\ streamStarted = FALSE
  /\ core = Settled(params.enabled, params.quality)
  /\ finishing = FALSE /\ finished = FALSE /\ finishRemaining = NoFrames
  /\ stale = FALSE /\ promised = NoFrames /\ rendered = 0

\* Publications between two calls act as one.
Publish ==
  /\ synced
  /\ \/ \E on \in BOOLEAN : \/ params' = [params EXCEPT !.armed = on]
                           \/ params' = [params EXCEPT !.enabled = on]
                           \/ params' = [params EXCEPT !.highpass = on]
     \/ \E q \in Qualities : params' = [params EXCEPT !.quality = q]
  /\ synced' = FALSE
  /\ UNCHANGED <<cached, hardBypassed, streamStarted, core, lifecycle, stale, promised, rendered>>

-----------------------------------------------------------------------------
(* Transitions.                                                            *)

\* The smoothstep between two levels at frame `cursor` of a transition.
Between(from, to, cursor) ==
  IF cursor = 0 THEN from
  ELSE IF cursor >= Transition - 1 \/ from = to THEN to
  ELSE Part

EffectWeight(c) ==
  IF c.cursor >= Transition THEN c.to ELSE Between(c.from, c.to, c.cursor)

\* c.weights are the weights at which the transition in progress began.
QualityWeights(c) ==
  IF c.target = NoTarget THEN c.weights
  ELSE [q \in Qualities |-> Between(c.weights[q], Level(q = c.target), c.quality)]

QualityActive(c) == c.target # NoTarget /\ c.quality < Transition
EffectActive(c) == c.cursor < Transition
Audible(w) == {q \in Qualities : w[q] # Zero}
Heaviest(w) == {q \in Qualities : \A p \in Qualities : w[p] <= w[q]}

\* Mutant: only the target of a quality transition is prepared.
BugBeginEffect(c, enabled) ==
  LET prepared == IF c.target = NoTarget THEN {} ELSE {c.target}
  IN [c EXCEPT !.from = EffectWeight(c), !.to = Level(enabled), !.cursor = 0,
               !.fresh = IF enabled /\ EffectWeight(c) = Zero THEN @ \cup (prepared \cap c.aligned)
                         ELSE @]

\* A silent effect has only kept its delay lines and its source history running:
\* enabling it rebuilds from the history the nonlinear state of every core that is
\* mixed or about to be.
BeginEffect(c, enabled) ==
  LET prepared == Audible(QualityWeights(c)) \cup (Qualities \cap {c.target})
  IN [c EXCEPT !.from = EffectWeight(c), !.to = Level(enabled), !.cursor = 0,
               !.fresh = IF enabled /\ EffectWeight(c) = Zero THEN @ \cup (prepared \cap c.aligned)
                         ELSE @]

\* The possible outcomes: a core that is not audible is first made a copy of the
\* heaviest one, with its nonlinear state rebuilt for its own quality from the
\* history it copied.
BeginQuality(c, target) ==
  LET weights == QualityWeights(c)
      begun == [c EXCEPT !.weights = weights, !.target = target, !.quality = 0]
  IN IF c.target = target THEN {c}
     ELSE IF weights[target] = Unity
     THEN {[c EXCEPT !.weights = OneHot(target), !.target = NoTarget, !.quality = Transition]}
     ELSE IF weights[target] = Zero
     THEN {IF q \in c.aligned
           THEN [begun EXCEPT !.aligned = @ \cup {target}, !.fresh = @ \cup {target}]
           ELSE [begun EXCEPT !.aligned = @ \ {target}, !.fresh = @ \ {target}]
             : q \in Heaviest(weights)}
     ELSE {begun}

\* One frame through the cores in `used`; `audible` says whether the effect is
\* mixed, `advanced` whether their nonlinear state moved on.
Through(c, used, advanced) ==
  [c EXCEPT !.aligned = @ \cap used, !.fresh = IF advanced THEN @ \cap used ELSE {}]

\* `process_armed`, one frame: the outcomes.
Frame(c) ==
  LET weights == QualityWeights(c)
      weight == EffectWeight(c)
      used == Audible(weights) \cup (Qualities \cap {c.target})
      ended == c.quality + 1 >= Transition
      effect(d) == IF EffectActive(d) THEN [d EXCEPT !.cursor = @ + 1] ELSE d
  IN IF QualityActive(c)
     THEN {effect([Through(c, used, TRUE) EXCEPT
                     !.weights = IF ended THEN OneHot(c.target) ELSE @,
                     !.target = IF ended THEN NoTarget ELSE @,
                     !.quality = IF ended THEN Transition ELSE @ + 1])}
     ELSE {effect(Through(c, {q}, weight # Zero \/ EffectActive(c))) : q \in Heaviest(weights)}

\* The frame that is about to be rendered mixes a core that missed frames.
MixesStale(c) ==
  \E q \in Audible(QualityWeights(c)) :
     q \notin c.aligned \/ (EffectWeight(c) # Zero /\ q \notin c.fresh)

\* n frames: all outcomes, each with whether a stale core was heard.
Frames(start, n) ==
  LET after[k \in 0 .. n] ==
        IF k = 0 THEN {start}
        ELSE UNION {{[core |-> d, stale |-> s.stale \/ MixesStale(s.core)] : d \in Frame(s.core)}
                      : s \in after[k - 1]}
  IN after[n]

-----------------------------------------------------------------------------
(* Parameters.                                                             *)

\* Mutant: a published hard bypass is honoured in the middle of a stream.
BugBypassAfterSync == IF synced THEN hardBypassed ELSE ~params.armed

\* `armed` moves the reported latency: once frames have passed it has to wait
\* for the next reset.
BypassAfterSync ==
  IF ~synced /\ cached.armed # params.armed /\ ~streamStarted THEN ~params.armed
  ELSE hardBypassed

CachedAfterSync == IF synced THEN cached ELSE params

\* The decimation filter of an oversampling core rings longer than the delay line.
Oversampling == {q \in Qualities : FilterTail[q] > Latency}

\* A hard change, in the middle of a stream too: every oversampling core starts
\* from nothing, and every source history with it, so that none of these cores
\* lacks a frame since.  The direct core keeps the residuals in its delay line.
ModeChanged(c) == [c EXCEPT !.fresh = @ \cup Oversampling]

\* `sync_params`: the outcomes for the cores and their transitions.
CoreAfterSync ==
  LET moded == IF params.highpass = cached.highpass THEN core ELSE ModeChanged(core)
      qualities == IF params.quality = cached.quality THEN {moded}
                   ELSE BeginQuality(moded, params.quality)
      effect(c) == IF cached.enabled = params.enabled \/ BypassAfterSync THEN c
                   ELSE BeginEffect(c, params.enabled)
  IN IF synced THEN {core} ELSE {effect(c) : c \in qualities}

\* Frames a hard-bypassed stage lets pass reach no core.
Bypassed(c, n) == IF n = 0 THEN c ELSE [c EXCEPT !.aligned = {}, !.fresh = {}]

-----------------------------------------------------------------------------
(* The stream.                                                             *)

Ready == ~finishing /\ ~finished

\* Latched for bypassed blocks as well, and after the sync.
Started(n) == streamStarted \/ n > 0

Process(n) ==
  /\ Ready
  /\ cached' = CachedAfterSync /\ synced' = TRUE
  /\ hardBypassed' = BypassAfterSync /\ streamStarted' = Started(n)
  /\ \E c \in CoreAfterSync :
       IF BypassAfterSync THEN core' = Bypassed(c, n) /\ UNCHANGED stale
       ELSE \E s \in Frames([core |-> c, stale |-> stale], n) :
              core' = s.core /\ stale' = s.stale
  /\ UNCHANGED <<control, lifecycle, promised, rendered>>

\* `process_with_events` with one event at frame k.  The adapter's own copy of
\* the parameters changes, not the published one.
ApplyQuality(c, q) ==
  IF BypassAfterSync
  THEN {[c EXCEPT !.weights = OneHot(q), !.target = NoTarget, !.quality = Transition]}
  ELSE BeginQuality(c, q)
ApplyEnabled(c, on) ==
  IF BypassAfterSync THEN [c EXCEPT !.from = Level(on), !.to = Level(on), !.cursor = Transition]
  ELSE BeginEffect(c, on)

BlockOfFrames(s, n) ==
  IF BypassAfterSync THEN {[s EXCEPT !.core = Bypassed(@, n)]} ELSE Frames(s, n)

WithEvent(n, k, outcomes(_)) ==
  \E c \in CoreAfterSync : \E before \in BlockOfFrames([core |-> c, stale |-> stale], k) :
    \E changed \in outcomes(before.core) :
      \E s \in BlockOfFrames([core |-> changed, stale |-> before.stale], n - k) :
        core' = s.core /\ stale' = s.stale

ProcessWithEvents(n) ==
  /\ Ready
  /\ \E k \in 0 .. n - 1 :
       \/ \E q \in Qualities :
            /\ WithEvent(n, k, LAMBDA c : ApplyQuality(c, q))
            /\ cached' = [CachedAfterSync EXCEPT !.quality = q]
       \/ \E on \in BOOLEAN :
            /\ WithEvent(n, k, LAMBDA c : {ApplyEnabled(c, on)})
            /\ cached' = [CachedAfterSync EXCEPT !.enabled = on]
  /\ synced' = TRUE
  /\ hardBypassed' = BypassAfterSync /\ streamStarted' = Started(n)
  /\ UNCHANGED <<control, lifecycle, promised, rendered>>

\* The owner's switch, refused once the stream has started.
SetHardBypassed(on) ==
  /\ ~streamStarted
  /\ hardBypassed' = on /\ cached' = [cached EXCEPT !.armed = ~on]
  /\ UNCHANGED <<control, synced, streamStarted, core, lifecycle, stale, promised, rendered>>

\* `reset` and `set_sample_rate`.
SaturationReset ==
  /\ hardBypassed' = ~cached.armed /\ streamStarted' = FALSE
  /\ core' = Settled(cached.enabled, cached.quality)
  /\ finishing' = FALSE /\ finished' = FALSE /\ finishRemaining' = NoFrames
  /\ promised' = NoFrames /\ rendered' = 0
  /\ UNCHANGED <<control, cached, synced, stale>>

-----------------------------------------------------------------------------
(* The end of a stream.                                                    *)

CanRing == EffectWeight(core) # Zero \/ (EffectActive(core) /\ core.to # Zero)
FinalQualities == IF core.target # NoTarget THEN {core.target} ELSE Heaviest(core.weights)
Pending == Longer(Transition - core.cursor, Transition - core.quality)

\* `finite_finish_frames`, q the quality at the end of the stream.
FiniteFrames(q) ==
  Longer(Pending, IF CanRing /\ core.to # Zero THEN FilterTail[q] ELSE Latency)

Endless == ~hardBypassed /\ cached.highpass /\ CanRing
LatencyNow == IF hardBypassed THEN 0 ELSE Latency

\* `latency` plus `tail`, what a host reads before it finishes the stream.
Declared(q) ==
  IF hardBypassed THEN 0 ELSE Latency + (FiniteFrames(q) - Latency)

Promise(q) ==
  promised' = IF finishing \/ Endless THEN promised ELSE Declared(q)

FinishBypassed ==
  /\ hardBypassed
  /\ finishing' = TRUE /\ finished' = TRUE
  /\ promised' = IF finishing THEN promised ELSE 0
  /\ UNCHANGED <<control, cached, synced, hardBypassed, streamStarted, core,
                 finishRemaining, stale, rendered>>

\* A high-pass state decays for ever while the effect is heard; it never says
\* that it has finished.
FinishEndless(n) ==
  /\ Endless /\ ~finished
  /\ finishing' = TRUE
  /\ \E s \in Frames([core |-> core, stale |-> stale], n) : core' = s.core /\ stale' = s.stale
  /\ UNCHANGED <<control, cached, synced, hardBypassed, streamStarted, finished,
                 finishRemaining, promised, rendered>>

Remaining(q) == IF finishRemaining = NoFrames THEN FiniteFrames(q) ELSE finishRemaining

\* The first call fixes the length; it ends with the call that renders the last.
FinishFinite(n) ==
  /\ ~hardBypassed /\ ~Endless /\ ~finished
  /\ finishing' = TRUE
  /\ \E q \in FinalQualities :
       LET remaining == Remaining(q)
           frames == Shorter(n, remaining)
       IN /\ \E s \in Frames([core |-> core, stale |-> stale], frames) :
               core' = s.core /\ stale' = s.stale
          /\ finishRemaining' = remaining - frames
          /\ finished' = (remaining = frames)
          /\ Promise(q)
          /\ rendered' = rendered + frames
  /\ UNCHANGED <<control, cached, synced, hardBypassed, streamStarted>>

SaturationNext ==
  \/ Publish
  \/ \E n \in Blocks : Process(n) \/ ProcessWithEvents(n) \/ FinishEndless(n) \/ FinishFinite(n)
  \/ FinishBypassed \/ SaturationReset
  \/ \E on \in BOOLEAN : SetHardBypassed(on)

SaturationSpec == SaturationInit /\ [][SaturationNext]_saturationVars

-----------------------------------------------------------------------------
(* Properties.                                                             *)

\* The latency a chain composed with does not move while a stream runs, whatever
\* is published and however the stage started.
LatencyFrozen == [][streamStarted /\ streamStarted' => LatencyNow' = LatencyNow]_saturationVars

\* Whatever interrupts a crossfade, no frame is mixed from a core that missed a
\* part of the stream: its delay line has every frame and, when the effect is
\* heard, its nonlinear state every frame since the stream began or since the
\* high-pass mode last changed, which drops the filters of all the cores at once.
\* And a finite tail read before the first finish call is what
\* finish renders, block by block, however many transitions were still in progress.
TransitionsAreClean ==
  /\ ~stale
  /\ finished /\ streamStarted /\ promised # NoFrames => rendered = promised
=============================================================================
