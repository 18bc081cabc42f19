----------------------------- MODULE StageProofs -----------------------------
(***************************************************************************)
(* Theorems about the stages that stand alone: the saturation adapter, the  *)
(* noise shaper, the owned resampler backend, the limiter ahead of the      *)
(* shaper, the resampler around another library's backends, and the sinc    *)
(* interpolator.                                                            *)
(*                                                                         *)
(* `Frames` of the saturation adapter is a recursive function of the number *)
(* of frames.  What it preserves is proved by induction, from the least     *)
(* element of a set of naturals.                                            *)
(***************************************************************************)
EXTENDS SaturationAdapter, NoiseShaping, BlockStream, OutputGuard, StreamingResampler, SincStream,
        TLAPS, FiniteSetTheorems, WellFoundedInduction

-----------------------------------------------------------------------------
(* Induction.                                                              *)

\* A set of naturals that is not empty has a least element.
LEMMA LeastNatural ==
  ASSUME NEW S, S \subseteq Nat, S # {}
  PROVE  \E n \in S : \A m \in S : n <= m
<1> DEFINE Below == {p \in Nat \X Nat : p[1] < p[2]}
<1>1. OpToRel(<, Nat) = Below
  BY DEF OpToRel
<1>2. IsWellFoundedOn(Below, Nat)
  BY <1>1, NatLessThanWellFounded, Zenon
<1> HIDE DEF Below
<1>3. PICK n \in S : \A m \in S : ~(<<m, n>> \in Below)
  BY <1>2, WFMin, Zenon
<1>4. ASSUME NEW m \in S PROVE n <= m
  <2>1. m \in Nat /\ n \in Nat
    OBVIOUS
  <2>2. m < n => <<m, n>> \in Below
    BY <2>1 DEF Below
  <2> QED BY <1>3, <2>1, <2>2
<1> QED BY <1>4

\* A set that contains 0 and, with a natural, the next one contains them all.
LEMMA SetInduction ==
  ASSUME NEW S, 0 \in S, \A n \in Nat : n \in S => n + 1 \in S
  PROVE  Nat \subseteq S
<1> SUFFICES ASSUME Nat \ S # {} PROVE FALSE
  OBVIOUS
<1>1. PICK n \in Nat \ S : \A m \in Nat \ S : n <= m
  <2>1. Nat \ S \subseteq Nat
    OBVIOUS
  <2> QED BY <2>1, LeastNatural, Zenon
<1>2. n # 0 /\ n - 1 \in Nat
  BY <1>1
<1>3. n - 1 \in S
  BY <1>1, <1>2
<1> QED BY <1>1, <1>2, <1>3

-----------------------------------------------------------------------------
(* The saturation adapter.                                                 *)

CoreFields ==
  [from : 0..2, to : {Zero, Unity}, cursor : 0..Transition, weights : [Qualities -> 0..2],
   target : Qualities \cup {NoTarget}, quality : 0..Transition,
   aligned : SUBSET Qualities, fresh : SUBSET Qualities]

\* The cores the next frame runs, and that the effect is heard or will be.
Mixed(c) == Audible(QualityWeights(c)) \cup (Qualities \cap {c.target})
Rings(c) == EffectWeight(c) # Zero \/ (EffectActive(c) /\ c.to # Zero)

\* No core that is mixed, or about to be, lacks a frame.
CoreSound(c) ==
  /\ c \in CoreFields
  /\ c.target = NoTarget => \E q \in Qualities : c.weights = OneHot(q)
  /\ c.target # NoTarget => c.quality < Transition
  /\ \E q \in Qualities : c.weights[q] # Zero
  /\ Mixed(c) \subseteq c.aligned
  /\ Rings(c) => Mixed(c) \subseteq c.fresh

\* Nothing of a finish is left before it, and what it rendered and what it owes
\* are what it promised.
FinishSound ==
  /\ finishRemaining \in Nat \cup {NoFrames} /\ rendered \in Nat
  /\ ~finishing => /\ ~finished /\ finishRemaining = NoFrames
                   /\ promised = NoFrames /\ rendered = 0
  /\ streamStarted /\ finishing /\ hardBypassed =>
       finished /\ promised = 0 /\ rendered = 0
  /\ streamStarted /\ finishing /\ ~hardBypassed =>
       /\ promised # NoFrames => /\ finishRemaining \in Nat
                                 /\ rendered + finishRemaining = promised
       /\ finished => finishRemaining = 0

ParamSets == [armed : BOOLEAN, enabled : BOOLEAN, quality : Qualities, highpass : BOOLEAN]

\* A stage bypassed in a running stream reaches no core until its reset.
SaturationSound ==
  /\ params \in ParamSets /\ cached \in ParamSets
  /\ hardBypassed \in BOOLEAN /\ streamStarted \in BOOLEAN
  /\ ~stale
  /\ (hardBypassed /\ streamStarted) \/ CoreSound(core)
  /\ FinishSound

\* The weights of a transition in progress, and that one of them is heard.
LEMMA WeightsSound ==
  ASSUME NEW c, CoreSound(c)
  PROVE  /\ QualityWeights(c) \in [Qualities -> 0..2]
         /\ \E q \in Qualities : QualityWeights(c)[q] # Zero
         /\ c.target = NoTarget => QualityWeights(c) = c.weights
<1>1. CASE c.target = NoTarget
  BY <1>1 DEF CoreSound, CoreFields, QualityWeights
<1>2. CASE c.target # NoTarget
  <2>1. /\ c.target \in Qualities /\ c.quality \in 0..Transition
        /\ c.weights \in [Qualities -> 0..2] /\ Transition \in Nat /\ Transition > 2
    BY <1>2, SaturationAssumption DEF CoreSound, CoreFields
  <2>2. QualityWeights(c) =
          [q \in Qualities |-> Between(c.weights[q], Level(q = c.target), c.quality)]
    BY <1>2 DEF QualityWeights
  <2>3. \A q \in Qualities : QualityWeights(c)[q] \in 0..2
    BY <2>1, <2>2 DEF Between, Level, Zero, Part, Unity
  <2>4. \E q \in Qualities : QualityWeights(c)[q] # Zero
    <3>1. CASE c.quality = 0
      BY <2>1, <2>2, <3>1 DEF Between, CoreSound
    <3>2. CASE c.quality # 0
      BY <2>1, <2>2, <3>2 DEF Between, Level, Zero, Part, Unity
    <3> QED BY <3>1, <3>2
  <2> QED BY <1>2, <2>2, <2>3, <2>4
<1> QED BY <1>1, <1>2

\* The heaviest cores exist and are heard.
LEMMA HeaviestHeard ==
  ASSUME NEW w \in [Qualities -> 0..2], \E q \in Qualities : w[q] # Zero
  PROVE  Heaviest(w) \subseteq Audible(w)
BY DEF Heaviest, Audible, Zero

\* A single weight is the heaviest.
LEMMA OneHeaviest ==
  ASSUME NEW q \in Qualities
  PROVE  /\ OneHot(q) \in [Qualities -> 0..2]
         /\ Audible(OneHot(q)) = {q} /\ Heaviest(OneHot(q)) = {q}
<1>1. OneHot(q) \in [Qualities -> 0..2] /\ \A p \in Qualities : OneHot(q)[p] = IF p = q THEN 2 ELSE 0
  BY DEF OneHot, Zero, Unity
<1>2. Audible(OneHot(q)) = {q}
  BY <1>1 DEF Audible, Zero
<1>3. Heaviest(OneHot(q)) = {q}
  BY <1>1 DEF Heaviest
<1> QED BY <1>1, <1>2, <1>3

\* No frame of such a core is mixed from one that missed part of the stream.
LEMMA NothingStale ==
  ASSUME NEW c, CoreSound(c)
  PROVE  MixesStale(c) = FALSE
BY DEF CoreSound, Mixed, Rings, MixesStale, Audible

\* A frame does not make an effect heard that was not going to be.
LEMMA StillSilent ==
  ASSUME NEW c \in CoreFields, NEW d,
         d.from = c.from, d.to = c.to,
         d.cursor = IF EffectActive(c) THEN c.cursor + 1 ELSE c.cursor,
         Rings(d)
  PROVE  Rings(c)
BY SaturationAssumption DEF CoreFields, Rings, EffectWeight, EffectActive, Between,
   Zero, Part, Unity

\* A core that leaves the mix does not come back by itself.
LEMMA MixShrinks ==
  ASSUME NEW c, CoreSound(c), c.target # NoTarget, c.quality + 1 < Transition,
         NEW d, d.weights = c.weights, d.target = c.target, d.quality = c.quality + 1
  PROVE  Mixed(d) \subseteq Mixed(c)
<1>1. /\ c.target \in Qualities /\ c.quality \in 0..Transition
      /\ c.weights \in [Qualities -> 0..2] /\ Transition \in Nat /\ Transition > 2
  BY SaturationAssumption DEF CoreSound, CoreFields
<1>2. /\ QualityWeights(c) =
           [q \in Qualities |-> Between(c.weights[q], Level(q = c.target), c.quality)]
      /\ QualityWeights(d) =
           [q \in Qualities |-> Between(c.weights[q], Level(q = c.target), c.quality + 1)]
  BY DEF QualityWeights
<1>3. ASSUME NEW q \in Qualities, q # c.target, QualityWeights(d)[q] # Zero
      PROVE  QualityWeights(c)[q] # Zero
  BY <1>1, <1>2, <1>3 DEF Between, Level, Zero, Part, Unity
<1> QED BY <1>1, <1>3 DEF Mixed, Audible

\* A frame keeps the cores sound, whatever transitions are in progress.
LEMMA FrameSound ==
  ASSUME NEW c, CoreSound(c), NEW d \in Frame(c)
  PROVE  CoreSound(d)
<1> DEFINE w == QualityWeights(c)
           used == Audible(w) \cup (Qualities \cap {c.target})
           ended == c.quality + 1 >= Transition
           Onward(x) == IF EffectActive(x) THEN [x EXCEPT !.cursor = @ + 1] ELSE x
<1>0. c \in CoreFields /\ Transition \in Nat /\ NoTarget \notin Qualities
  BY SaturationAssumption DEF CoreSound
<1>1. CASE QualityActive(c)
  <2> DEFINE e == [Through(c, used, TRUE) EXCEPT
                     !.weights = IF ended THEN OneHot(c.target) ELSE @,
                     !.target = IF ended THEN NoTarget ELSE @,
                     !.quality = IF ended THEN Transition ELSE @ + 1]
  <2>1. d = Onward(e)
    BY <1>1 DEF Frame
  <2>2. c.target \in Qualities /\ c.quality < Transition
    BY <1>0, <1>1 DEF QualityActive, CoreFields
  <2>3. d \in CoreFields
    <3>1. e \in CoreFields
      <4>1. OneHot(c.target) \in [Qualities -> 0..2]
        BY <2>2, OneHeaviest
      <4>2. (IF ended THEN Transition ELSE c.quality + 1) \in 0..Transition
        BY <1>0, <2>2 DEF CoreFields
      <4> QED BY <1>0, <4>1, <4>2 DEF CoreFields, Through
    <3> HIDE DEF e
    <3>2. EffectActive(e) => e.cursor + 1 \in 0..Transition
      BY <1>0, <3>1 DEF CoreFields, EffectActive
    <3> QED BY <2>1, <3>1, <3>2 DEF CoreFields
  <2>4. /\ d.from = c.from /\ d.to = c.to
        /\ d.cursor = IF EffectActive(c) THEN c.cursor + 1 ELSE c.cursor
        /\ d.aligned = c.aligned \cap Mixed(c) /\ d.fresh = c.fresh \cap Mixed(c)
        /\ d.weights = IF ended THEN OneHot(c.target) ELSE c.weights
        /\ d.target = IF ended THEN NoTarget ELSE c.target
        /\ d.quality = IF ended THEN Transition ELSE c.quality + 1
    BY <1>0, <2>1 DEF CoreFields, Through, EffectActive, Mixed
  <2>5. Mixed(d) \subseteq Mixed(c)
    <3>1. CASE ended
      <4>1. QualityWeights(d) = OneHot(c.target)
        BY <2>4, <3>1 DEF QualityWeights
      <4> QED BY <1>0, <2>2, <2>4, <3>1, <4>1, OneHeaviest DEF Mixed
    <3>2. CASE ~ended
      <4>1. c.quality + 1 < Transition /\ c.target # NoTarget
        BY <1>0, <2>2, <3>2 DEF CoreFields
      <4> QED BY <2>4, <3>2, <4>1, MixShrinks
    <3> QED BY <3>1, <3>2
  <2>6. Mixed(d) \subseteq d.aligned
    BY <2>4, <2>5 DEF CoreSound
  <2>7. Rings(d) => Mixed(d) \subseteq d.fresh
    BY <1>0, <2>4, <2>5, StillSilent DEF CoreSound
  <2>8. /\ d.target = NoTarget => \E q \in Qualities : d.weights = OneHot(q)
        /\ d.target # NoTarget => d.quality < Transition
        /\ \E q \in Qualities : d.weights[q] # Zero
    <3>1. CASE ended
      BY <2>2, <2>4, <3>1 DEF OneHot, Unity, Zero
    <3>2. CASE ~ended
      BY <1>0, <2>2, <2>4, <3>2 DEF CoreSound, CoreFields
    <3> QED BY <3>1, <3>2
  <2> QED BY <2>3, <2>6, <2>7, <2>8 DEF CoreSound
<1>2. CASE ~QualityActive(c)
  <2>1. c.target = NoTarget /\ w = c.weights
    BY <1>2, WeightsSound DEF CoreSound, QualityActive
  <2>2. PICK only \in Qualities : c.weights = OneHot(only)
    BY <2>1 DEF CoreSound
  <2>3. Heaviest(w) = {only} /\ Audible(w) = {only} /\ Mixed(c) = {only}
    BY <1>0, <2>1, <2>2, OneHeaviest DEF Mixed
  <2>4. PICK q \in Heaviest(w) :
          d = Onward(Through(c, {q}, EffectWeight(c) # Zero \/ EffectActive(c)))
    BY <1>2 DEF Frame
  <2> DEFINE heard == EffectWeight(c) # Zero \/ EffectActive(c)
             e == Through(c, {only}, heard)
  <2>5. /\ d \in CoreFields
        /\ d.from = c.from /\ d.to = c.to
        /\ d.cursor = IF EffectActive(c) THEN c.cursor + 1 ELSE c.cursor
        /\ d.aligned = c.aligned \cap {only}
        /\ d.fresh = IF heard THEN c.fresh \cap {only} ELSE {}
        /\ d.weights = c.weights /\ d.target = NoTarget /\ d.quality = c.quality
    <3>1. d = Onward(e)
      BY <2>3, <2>4
    <3> HIDE DEF heard
    <3>2. /\ e \in CoreFields
          /\ e.from = c.from /\ e.to = c.to /\ e.cursor = c.cursor
          /\ e.aligned = c.aligned \cap {only}
          /\ e.fresh = IF heard THEN c.fresh \cap {only} ELSE {}
          /\ e.weights = c.weights /\ e.target = c.target /\ e.quality = c.quality
      BY <1>0 DEF CoreFields, Through
    <3> HIDE DEF e
    <3>3. EffectActive(e) => e.cursor + 1 \in 0..Transition
      BY <1>0, <3>2 DEF CoreFields, EffectActive
    <3> QED BY <2>1, <3>1, <3>2, <3>3 DEF CoreFields, EffectActive
  <2>6. Mixed(d) = {only}
    <3>1. QualityWeights(d) = OneHot(only)
      BY <2>2, <2>5 DEF QualityWeights
    <3> QED BY <1>0, <2>5, <3>1, OneHeaviest DEF Mixed
  <2>7. Mixed(d) \subseteq d.aligned
    BY <2>3, <2>5, <2>6 DEF CoreSound
  <2>8. Rings(d) => Mixed(d) \subseteq d.fresh
    <3>1. Rings(d) => Rings(c)
      BY <1>0, <2>5, StillSilent
    <3> QED BY <2>3, <2>5, <2>6, <3>1 DEF CoreSound, Rings
  <2> QED BY <2>2, <2>5, <2>7, <2>8 DEF CoreSound
<1> QED BY <1>1, <1>2

\* So does a block of any number of frames, and nothing stale is mixed in it.
LEMMA FramesSound ==
  ASSUME NEW c, CoreSound(c), NEW n \in Nat,
         NEW s \in Frames([core |-> c, stale |-> FALSE], n)
  PROVE  CoreSound(s.core) /\ s.stale = FALSE
<1> DEFINE start == [core |-> c, stale |-> FALSE]
           Step(t) == {[core |-> d, stale |-> t.stale \/ MixesStale(t.core)] : d \in Frame(t.core)}
           Rendered(f, m) ==
             f = [k \in 0..m |-> IF k = 0 THEN {start} ELSE UNION {Step(t) : t \in f[k - 1]}]
           Good(t) == CoreSound(t.core) /\ t.stale = FALSE
           Defined == {m \in Nat : \E f : Rendered(f, m)}
           after == CHOOSE f : Rendered(f, n)
<1>1. ASSUME NEW t, Good(t), NEW u \in Step(t)
      PROVE  Good(u)
  <2>1. PICK d \in Frame(t.core) : u = [core |-> d, stale |-> t.stale \/ MixesStale(t.core)]
    OBVIOUS
  <2>2. CoreSound(d)
    BY <1>1, FrameSound
  <2>3. MixesStale(t.core) = FALSE
    BY <1>1, NothingStale
  <2> QED BY <1>1, <2>1, <2>2, <2>3
<1> HIDE DEF Step, Good
<1>2. Nat \subseteq Defined
  <2>1. 0 \in Defined
    <3>1. Rendered([k \in 0..0 |-> {start}], 0)
      OBVIOUS
    <3> QED BY <3>1
  <2>2. ASSUME NEW m \in Nat, m \in Defined
        PROVE  m + 1 \in Defined
    <3>1. PICK f : Rendered(f, m)
      BY <2>2
    <3> DEFINE g == [k \in 0..(m + 1) |-> IF k <= m THEN f[k] ELSE UNION {Step(t) : t \in f[m]}]
    <3>2. ASSUME NEW k \in 0..(m + 1)
          PROVE  g[k] = IF k = 0 THEN {start} ELSE UNION {Step(t) : t \in g[k - 1]}
      <4>1. CASE k = 0
        BY <3>1, <4>1
      <4>2. CASE k # 0
        <5>1. k - 1 \in 0..m /\ g[k - 1] = f[k - 1]
          BY <4>2
        <5>2. CASE k <= m
          <6>1. k \in 0..m /\ g[k] = f[k]
            BY <5>2
          <6>2. f[k] = UNION {Step(t) : t \in f[k - 1]}
            BY <3>1, <4>2, <6>1
          <6> QED BY <4>2, <5>1, <6>1, <6>2
        <5>3. CASE k = m + 1
          BY <4>2, <5>1, <5>3
        <5> QED BY <5>2, <5>3
      <4> QED BY <4>1, <4>2
    <3>3. Rendered(g, m + 1)
      <4> DEFINE h == [k \in 0..(m + 1) |-> IF k = 0 THEN {start}
                                          ELSE UNION {Step(t) : t \in g[k - 1]}]
      <4>1. g = [k \in 0..(m + 1) |-> g[k]]
        OBVIOUS
      <4> HIDE DEF g
      <4>2. g = h
        BY <3>2, <4>1
      <4> QED BY <4>2
    <3> HIDE DEF g, Rendered
    <3>4. \E h : Rendered(h, m + 1)
      BY <3>3
    <3> QED BY <3>4
  <2> HIDE DEF Defined
  <2> QED BY <2>1, <2>2, SetInduction
<1>3. Rendered(after, n)
  BY <1>2
<1>4. s \in after[n]
  BY DEF Frames, Step
<1> HIDE DEF after
<1> DEFINE Preserved == {m \in Nat : m <= n => \A t \in after[m] : Good(t)}
<1>5. Nat \subseteq Preserved
  <2>1. 0 \in Preserved
    BY <1>3 DEF Good
  <2>2. ASSUME NEW m \in Nat, m \in Preserved
        PROVE  m + 1 \in Preserved
    <3> SUFFICES ASSUME m + 1 <= n PROVE \A t \in after[m + 1] : Good(t)
      OBVIOUS
    <3>1. after[m + 1] = UNION {Step(t) : t \in after[m]}
      <4>1. m + 1 \in 0..n /\ m + 1 # 0 /\ (m + 1) - 1 = m
        OBVIOUS
      <4> QED BY <1>3, <4>1
    <3>2. \A t \in after[m] : Good(t)
      BY <2>2
    <3> QED BY <1>1, <3>1, <3>2
  <2> HIDE DEF Preserved
  <2> QED BY <2>1, <2>2, SetInduction
<1> QED BY <1>4, <1>5 DEF Good

\* A stream that starts, or starts again, has no transition in progress.
LEMMA SettledSound ==
  ASSUME NEW enabled \in BOOLEAN, NEW q \in Qualities
  PROVE  CoreSound(Settled(enabled, q))
<1> DEFINE c == Settled(enabled, q)
<1>1. c \in CoreFields
  BY SaturationAssumption, OneHeaviest DEF Settled, CoreFields, Level, Zero, Unity
<1>2. /\ c.weights = OneHot(q) /\ c.target = NoTarget
      /\ c.aligned = Qualities /\ c.fresh = Qualities
  BY DEF Settled
<1>3. Mixed(c) \subseteq Qualities
  BY DEF Mixed, Audible
<1>4. c.weights[q] # Zero
  BY <1>2 DEF OneHot, Unity, Zero
<1> HIDE DEF c
<1>5. CoreSound(c)
  BY <1>1, <1>2, <1>3, <1>4 DEF CoreSound
<1> QED BY <1>5 DEF c

\* The effect's transition starts where the previous one is.
LEMMA EffectSound ==
  ASSUME NEW c, CoreSound(c), NEW enabled \in BOOLEAN
  PROVE  CoreSound(BeginEffect(c, enabled))
<1> DEFINE d == BeginEffect(c, enabled)
           prepared == Audible(QualityWeights(c)) \cup (Qualities \cap {c.target})
<1>0. c \in CoreFields /\ Transition \in Nat /\ Transition > 2 /\ 0 \in 0..Transition
  BY SaturationAssumption DEF CoreSound
<1>1. EffectWeight(c) \in 0..2
  BY <1>0 DEF EffectWeight, Between, CoreFields, Zero, Unity, Part
<1>2. /\ d \in CoreFields
      /\ d.from = EffectWeight(c) /\ d.to = Level(enabled) /\ d.cursor = 0
      /\ d.weights = c.weights /\ d.target = c.target /\ d.quality = c.quality
      /\ d.aligned = c.aligned
      /\ d.fresh = IF enabled /\ EffectWeight(c) = Zero THEN c.fresh \cup Mixed(c) ELSE c.fresh
  <2>1. Audible(QualityWeights(c)) \subseteq Qualities /\ Level(enabled) \in {Zero, Unity}
    BY DEF Audible, Level
  <2>2. c.fresh \cup (prepared \cap c.aligned) = c.fresh \cup Mixed(c)
    BY DEF CoreSound, Mixed
  <2>3. prepared \subseteq Qualities
    BY <2>1
  <2>4. d = [c EXCEPT !.from = EffectWeight(c), !.to = Level(enabled), !.cursor = 0,
                      !.fresh = IF enabled /\ EffectWeight(c) = Zero
                                THEN @ \cup (prepared \cap c.aligned) ELSE @]
    BY DEF BeginEffect
  <2> HIDE DEF prepared, d
  <2> QED BY <1>0, <1>1, <2>1, <2>2, <2>3, <2>4 DEF CoreFields
<1> HIDE DEF d
<1>3. Mixed(d) = Mixed(c)
  BY <1>2 DEF Mixed, QualityWeights
<1>4. Rings(d) => Mixed(d) \subseteq d.fresh
  <2>1. CASE enabled /\ EffectWeight(c) = Zero
    BY <1>2, <1>3, <2>1
  <2>2. CASE EffectWeight(c) # Zero
    BY <1>2, <1>3, <2>2 DEF CoreSound, Rings
  <2>3. CASE ~enabled /\ EffectWeight(c) = Zero
    BY <1>0, <1>2, <2>3 DEF Rings, EffectWeight, EffectActive, Between, Level, Zero, Part
  <2> QED BY <2>1, <2>2, <2>3
<1>5. CoreSound(d)
  BY <1>2, <1>3, <1>4 DEF CoreSound
<1> QED BY <1>5 DEF d

\* A quality's transition starts from a core that was heard.
LEMMA QualitySound ==
  ASSUME NEW c, CoreSound(c), NEW target \in Qualities, NEW d \in BeginQuality(c, target)
  PROVE  CoreSound(d)
<1> DEFINE w == QualityWeights(c)
<1>0. /\ c \in CoreFields /\ Transition \in Nat /\ Transition > 2 /\ NoTarget \notin Qualities
      /\ {0, Transition} \subseteq 0..Transition
  BY SaturationAssumption DEF CoreSound
<1>1. w \in [Qualities -> 0..2] /\ \E q \in Qualities : w[q] # Zero
  BY WeightsSound
<1>2. ASSUME NEW e, e.from = c.from, e.to = c.to, e.cursor = c.cursor
      PROVE  Rings(e) => Rings(c)
  BY <1>2 DEF Rings, EffectWeight, EffectActive
<1>3. CASE c.target = target
  BY <1>3 DEF BeginQuality
<1>4. CASE c.target # target /\ w[target] = Unity
  <2>1. d = [c EXCEPT !.weights = OneHot(target), !.target = NoTarget, !.quality = Transition]
    BY <1>4 DEF BeginQuality
  <2>2. /\ d \in CoreFields /\ d.weights = OneHot(target) /\ d.target = NoTarget
        /\ d.from = c.from /\ d.to = c.to /\ d.cursor = c.cursor
        /\ d.aligned = c.aligned /\ d.fresh = c.fresh
    <3>1. OneHot(target) \in [Qualities -> 0..2]
      BY OneHeaviest
    <3> QED BY <1>0, <2>1, <3>1 DEF CoreFields
  <2>3. Mixed(d) = {target}
    BY <1>0, <2>2, OneHeaviest DEF Mixed, QualityWeights
  <2>4. target \in Mixed(c)
    BY <1>4 DEF Mixed, Audible, Unity, Zero
  <2>5. \E q \in Qualities : d.weights[q] # Zero
    BY <2>2 DEF OneHot, Unity, Zero
  <2> QED BY <1>2, <2>2, <2>3, <2>4, <2>5 DEF CoreSound
<1>5. CASE c.target # target /\ w[target] # Unity
  <2> DEFINE begun == [c EXCEPT !.weights = w, !.target = target, !.quality = 0]
  <2>1. ASSUME NEW e, e.weights = w, e.target = target, e.quality = 0
        PROVE  Mixed(e) \subseteq Audible(w) \cup {target}
    <3>1. QualityWeights(e) = w
      BY <1>0, <1>1, <2>1 DEF QualityWeights, Between
    <3> QED BY <2>1, <3>1 DEF Mixed
  <2>2. CASE w[target] = Zero
    <3>1. PICK q \in Heaviest(w) :
            d = IF q \in c.aligned
                THEN [begun EXCEPT !.aligned = @ \cup {target}, !.fresh = @ \cup {target}]
                ELSE [begun EXCEPT !.aligned = @ \ {target}, !.fresh = @ \ {target}]
      BY <1>5, <2>2 DEF BeginQuality, Unity, Zero
    <3>2. q \in c.aligned
      BY <1>1, HeaviestHeard DEF CoreSound, Mixed
    <3>3. /\ d \in CoreFields /\ d.weights = w /\ d.target = target /\ d.quality = 0
          /\ d.from = c.from /\ d.to = c.to /\ d.cursor = c.cursor
          /\ d.aligned = c.aligned \cup {target} /\ d.fresh = c.fresh \cup {target}
      <4> HIDE DEF w
      <4> QED BY <1>0, <1>1, <3>1, <3>2 DEF CoreFields
    <3>4. Mixed(d) \subseteq Mixed(c) \cup {target}
      BY <2>1, <3>3 DEF Mixed
    <3> HIDE DEF w
    <3> QED BY <1>0, <1>1, <1>2, <3>3, <3>4 DEF CoreSound
  <2>3. CASE w[target] # Zero
    <3>1. d = begun
      BY <1>5, <2>3 DEF BeginQuality
    <3>2. /\ d \in CoreFields /\ d.weights = w /\ d.target = target /\ d.quality = 0
          /\ d.from = c.from /\ d.to = c.to /\ d.cursor = c.cursor
          /\ d.aligned = c.aligned /\ d.fresh = c.fresh
      <4> HIDE DEF w
      <4> QED BY <1>0, <1>1, <3>1 DEF CoreFields
    <3>3. Mixed(d) \subseteq Mixed(c)
      BY <2>1, <2>3, <3>2 DEF Mixed, Audible
    <3> HIDE DEF w
    <3> QED BY <1>0, <1>1, <1>2, <3>2, <3>3 DEF CoreSound
  <2> QED BY <2>2, <2>3
<1> QED BY <1>3, <1>4, <1>5

\* A change of the high-pass mode takes no frame from a core that is heard.
LEMMA ModeSound ==
  ASSUME NEW c, CoreSound(c)
  PROVE  CoreSound(ModeChanged(c))
<1> DEFINE d == ModeChanged(c)
<1>1. c \in CoreFields /\ Oversampling \subseteq Qualities
  BY DEF CoreSound, Oversampling
<1>2. /\ d \in CoreFields
      /\ d.from = c.from /\ d.to = c.to /\ d.cursor = c.cursor
      /\ d.weights = c.weights /\ d.target = c.target /\ d.quality = c.quality
      /\ d.aligned = c.aligned /\ d.fresh = c.fresh \cup Oversampling
  BY <1>1 DEF ModeChanged, CoreFields
<1> HIDE DEF d
<1>3. Mixed(d) = Mixed(c) /\ (Rings(d) => Rings(c))
  BY <1>2 DEF Mixed, QualityWeights, Rings, EffectWeight, EffectActive
<1>4. CoreSound(d)
  BY <1>2, <1>3 DEF CoreSound
<1> QED BY <1>4 DEF d

\* A sync that leaves the stage audible, or comes before the stream, keeps the
\* cores sound.
LEMMA SyncSound ==
  ASSUME SaturationSound, ~BypassAfterSync \/ ~streamStarted, NEW c \in CoreAfterSync
  PROVE  CoreSound(c)
<1>1. CoreSound(core)
  BY DEF SaturationSound, BypassAfterSync
<1>2. CASE synced
  BY <1>1, <1>2 DEF CoreAfterSync
<1>3. CASE ~synced
  <2> DEFINE moded == IF params.highpass = cached.highpass THEN core ELSE ModeChanged(core)
             qualities == IF params.quality = cached.quality THEN {moded}
                          ELSE BeginQuality(moded, params.quality)
  <2>1. PICK d \in qualities :
          c = IF cached.enabled = params.enabled \/ BypassAfterSync THEN d
              ELSE BeginEffect(d, params.enabled)
    BY <1>3 DEF CoreAfterSync
  <2>2. params.quality \in Qualities /\ params.enabled \in BOOLEAN
    BY DEF SaturationSound, ParamSets
  <2>3. CoreSound(moded)
    BY <1>1, ModeSound
  <2> HIDE DEF moded
  <2>4. CoreSound(d)
    BY <2>1, <2>2, <2>3, QualitySound
  <2> QED BY <2>1, <2>2, <2>4, EffectSound
<1> QED BY <1>2, <1>3

\* The bypass moves before a stream only.
LEMMA BypassHeld ==
  ASSUME SaturationSound
  PROVE  /\ BypassAfterSync \in BOOLEAN /\ CachedAfterSync \in ParamSets
         /\ streamStarted => BypassAfterSync = hardBypassed
BY DEF SaturationSound, BypassAfterSync, CachedAfterSync, ParamSets

\* A block of the audible stage.
LEMMA AudibleBlock ==
  ASSUME NEW c, CoreSound(c), stale = FALSE, NEW n \in Nat,
         NEW s \in Frames([core |-> c, stale |-> stale], n)
  PROVE  CoreSound(s.core) /\ s.stale = FALSE
BY FramesSound

\* A block with an event in it: what the outcomes of the event keep sound, the
\* block does.
LEMMA EventSound ==
  ASSUME SaturationSound, ~BypassAfterSync, NEW n \in Nat, NEW k \in 0..(n - 1),
         NEW c \in CoreAfterSync, NEW before \in BlockOfFrames([core |-> c, stale |-> stale], k),
         NEW changed, CoreSound(before.core) => CoreSound(changed),
         NEW s \in BlockOfFrames([core |-> changed, stale |-> before.stale], n - k)
  PROVE  CoreSound(s.core) /\ s.stale = FALSE
<1>1. stale = FALSE /\ k \in Nat /\ n - k \in Nat
  BY DEF SaturationSound
<1>2. CoreSound(c)
  BY SyncSound
<1>3. CoreSound(before.core) /\ before.stale = FALSE
  BY <1>1, <1>2, FramesSound DEF BlockOfFrames
<1> QED BY <1>1, <1>3, FramesSound DEF BlockOfFrames

\* Neither does a bypassed block mix anything.
LEMMA BypassedEvent ==
  ASSUME BypassAfterSync, NEW n, NEW k, NEW c, NEW changed,
         NEW before \in BlockOfFrames([core |-> c, stale |-> stale], k),
         NEW s \in BlockOfFrames([core |-> changed, stale |-> before.stale], n - k)
  PROVE  s.stale = stale
BY DEF BlockOfFrames

\* `Process` keeps the invariant.
LEMMA ProcessSound ==
  ASSUME SaturationSound, NEW n \in Blocks, Process(n)
  PROVE  SaturationSound'
<1>0. n \in Nat /\ finishing = FALSE /\ ~finishing'
  BY SaturationAssumption DEF Process, Ready, lifecycle
<1>1. /\ params' \in ParamSets /\ cached' \in ParamSets
      /\ hardBypassed' \in BOOLEAN /\ streamStarted' \in BOOLEAN
  BY BypassHeld DEF Process, SaturationSound, control, Started
<1>2. FinishSound'
  BY <1>0 DEF Process, SaturationSound, FinishSound, lifecycle
<1>3. ~stale' /\ ((hardBypassed' /\ streamStarted') \/ CoreSound(core'))
  <2>1. PICK c \in CoreAfterSync :
          IF BypassAfterSync THEN core' = Bypassed(c, n) /\ UNCHANGED stale
          ELSE \E s \in Frames([core |-> c, stale |-> stale], n) :
                 core' = s.core /\ stale' = s.stale
    BY DEF Process
  <2>2. hardBypassed' = BypassAfterSync /\ streamStarted' = Started(n) /\ stale = FALSE
    BY DEF Process, SaturationSound
  <2>3. CASE BypassAfterSync
    <3>1. CASE n = 0 /\ ~streamStarted
      <4>1. core' = c
        BY <2>1, <2>3, <3>1 DEF Bypassed
      <4> QED BY <2>1, <2>2, <2>3, <3>1, <4>1, SyncSound
    <3>2. CASE n > 0 \/ streamStarted
      BY <2>1, <2>2, <2>3, <3>2 DEF Started
    <3> QED BY <1>0, <3>1, <3>2
  <2>4. CASE ~BypassAfterSync
    <3>1. CoreSound(c)
      BY <2>4, SyncSound
    <3> QED BY <1>0, <2>1, <2>2, <2>4, <3>1, AudibleBlock
  <2> QED BY <2>3, <2>4
<1> QED BY <1>1, <1>2, <1>3 DEF SaturationSound

\* So does a block with an event in it.
LEMMA EventsSound ==
  ASSUME SaturationSound, NEW n \in Blocks, ProcessWithEvents(n)
  PROVE  SaturationSound'
<1>0. n \in Nat /\ ~finishing /\ ~finishing'
  <2>1. ~finishing /\ finishing' = finishing
    BY Zenon DEF ProcessWithEvents, Ready, lifecycle
  <2> QED BY <2>1, SaturationAssumption
<1>1. PICK k \in 0..(n - 1) :
        \/ \E q \in Qualities :
             /\ WithEvent(n, k, LAMBDA c : ApplyQuality(c, q))
             /\ cached' = [CachedAfterSync EXCEPT !.quality = q]
        \/ \E on \in BOOLEAN :
             /\ WithEvent(n, k, LAMBDA c : {ApplyEnabled(c, on)})
             /\ cached' = [CachedAfterSync EXCEPT !.enabled = on]
  BY DEF ProcessWithEvents
<1>2. n > 0
  BY <1>0
<1>3. /\ params' \in ParamSets /\ cached' \in ParamSets
      /\ hardBypassed' \in BOOLEAN /\ streamStarted' = TRUE
  BY <1>1, <1>2, BypassHeld DEF ProcessWithEvents, SaturationSound, control, Started, ParamSets
<1>4. FinishSound'
  BY <1>0 DEF ProcessWithEvents, SaturationSound, FinishSound, lifecycle
<1>5. ~stale /\ hardBypassed' = BypassAfterSync
  <2>1. hardBypassed' = BypassAfterSync
    BY Zenon DEF ProcessWithEvents
  <2> QED BY <2>1 DEF SaturationSound
<1>6. ~stale' /\ (hardBypassed' \/ CoreSound(core'))
  <2>1. CASE \E q \in Qualities : WithEvent(n, k, LAMBDA c : ApplyQuality(c, q))
    <3>1. PICK q \in Qualities : WithEvent(n, k, LAMBDA c : ApplyQuality(c, q))
      BY <2>1
    <3>2. PICK c \in CoreAfterSync :
            \E before \in BlockOfFrames([core |-> c, stale |-> stale], k) :
              \E changed \in ApplyQuality(before.core, q) :
                \E s \in BlockOfFrames([core |-> changed, stale |-> before.stale], n - k) :
                  core' = s.core /\ stale' = s.stale
      BY <3>1 DEF WithEvent
    <3>3. PICK before \in BlockOfFrames([core |-> c, stale |-> stale], k) :
            \E changed \in ApplyQuality(before.core, q) :
              \E s \in BlockOfFrames([core |-> changed, stale |-> before.stale], n - k) :
                core' = s.core /\ stale' = s.stale
      BY <3>2
    <3>4. PICK changed \in ApplyQuality(before.core, q) :
            \E s \in BlockOfFrames([core |-> changed, stale |-> before.stale], n - k) :
              core' = s.core /\ stale' = s.stale
      BY <3>3
    <3>5. PICK s \in BlockOfFrames([core |-> changed, stale |-> before.stale], n - k) :
            core' = s.core /\ stale' = s.stale
      BY <3>4
    <3>6. CASE BypassAfterSync
      BY <1>5, <3>5, <3>6, BypassedEvent
    <3>7. CASE ~BypassAfterSync
      <4>1. CoreSound(before.core) => CoreSound(changed)
        BY <3>7, QualitySound DEF ApplyQuality
      <4> QED BY <1>0, <3>5, <3>7, <4>1, EventSound
    <3> QED BY <3>6, <3>7
  <2>2. CASE \E on \in BOOLEAN : WithEvent(n, k, LAMBDA c : {ApplyEnabled(c, on)})
    <3>1. PICK on \in BOOLEAN : WithEvent(n, k, LAMBDA c : {ApplyEnabled(c, on)})
      BY <2>2
    <3>2. PICK c \in CoreAfterSync :
            \E before \in BlockOfFrames([core |-> c, stale |-> stale], k) :
              \E changed \in {ApplyEnabled(before.core, on)} :
                \E s \in BlockOfFrames([core |-> changed, stale |-> before.stale], n - k) :
                  core' = s.core /\ stale' = s.stale
      BY <3>1 DEF WithEvent
    <3>3. PICK before \in BlockOfFrames([core |-> c, stale |-> stale], k) :
            \E changed \in {ApplyEnabled(before.core, on)} :
              \E s \in BlockOfFrames([core |-> changed, stale |-> before.stale], n - k) :
                core' = s.core /\ stale' = s.stale
      BY <3>2
    <3>4. PICK changed \in {ApplyEnabled(before.core, on)} :
            \E s \in BlockOfFrames([core |-> changed, stale |-> before.stale], n - k) :
              core' = s.core /\ stale' = s.stale
      BY <3>3
    <3>5. PICK s \in BlockOfFrames([core |-> changed, stale |-> before.stale], n - k) :
            core' = s.core /\ stale' = s.stale
      BY <3>4
    <3>6. CASE BypassAfterSync
      BY <1>5, <3>5, <3>6, BypassedEvent
    <3>7. CASE ~BypassAfterSync
      <4>1. CoreSound(before.core) => CoreSound(changed)
        BY <3>7, EffectSound DEF ApplyEnabled
      <4> QED BY <1>0, <3>5, <3>7, <4>1, EventSound
    <3> QED BY <3>6, <3>7
  <2> QED BY <1>1, <2>1, <2>2
<1> QED BY <1>3, <1>4, <1>6 DEF SaturationSound

\* The length of a finish is a number of frames, and so is what is left of it.
LEMMA FinishLengths ==
  ASSUME CoreSound(core), FinishSound, NEW q \in FinalQualities
  PROVE  /\ FiniteFrames(q) \in Nat
         /\ Remaining(q) \in Nat
         /\ ~hardBypassed => Declared(q) = FiniteFrames(q)
<1>1. /\ q \in Qualities
      /\ Transition - core.cursor \in Int /\ Transition - core.quality \in Int
  BY SaturationAssumption DEF FinalQualities, CoreSound, CoreFields, Heaviest
<1>2. FilterTail[q] \in Nat /\ Latency \in Nat
  BY <1>1, SaturationAssumption
<1>3. FiniteFrames(q) \in Nat
  BY <1>1, <1>2 DEF FiniteFrames, Pending, Longer
<1>4. Remaining(q) \in Nat
  BY <1>3 DEF Remaining, FinishSound, NoFrames
<1> QED BY <1>2, <1>3, <1>4 DEF Declared

\* So does the finish that ends.
LEMMA FiniteFinishSound ==
  ASSUME SaturationSound, NEW n \in Blocks, FinishFinite(n)
  PROVE  SaturationSound'
<1>0. n \in Nat /\ ~hardBypassed /\ CoreSound(core) /\ stale = FALSE
  BY SaturationAssumption DEF FinishFinite, SaturationSound
<1>1. PICK q \in FinalQualities :
        LET remaining == Remaining(q)
            frames == Shorter(n, remaining)
        IN /\ \E s \in Frames([core |-> core, stale |-> stale], frames) :
                core' = s.core /\ stale' = s.stale
           /\ finishRemaining' = remaining - frames
           /\ finished' = (remaining = frames)
           /\ Promise(q)
           /\ rendered' = rendered + frames
  BY DEF FinishFinite
<1> DEFINE frames == Shorter(n, Remaining(q))
<1>2. /\ FiniteFrames(q) \in Nat /\ Remaining(q) \in Nat /\ Declared(q) = FiniteFrames(q)
      /\ frames \in 0..Remaining(q)
  BY <1>0, FinishLengths DEF SaturationSound, Shorter
<1>3. CoreSound(core') /\ ~stale'
  <2>1. PICK s \in Frames([core |-> core, stale |-> stale], frames) :
          core' = s.core /\ stale' = s.stale
    BY <1>1
  <2>2. frames \in Nat
    BY <1>2
  <2> HIDE DEF frames
  <2> QED BY <1>0, <2>1, <2>2, AudibleBlock
<1>4. FinishSound'
  <2>1. /\ finishing' = TRUE /\ hardBypassed' = hardBypassed /\ streamStarted' = streamStarted
        /\ ~Endless
    BY DEF FinishFinite
  <2>2. /\ finishRemaining' = Remaining(q) - frames /\ rendered' = rendered + frames
        /\ promised' = IF finishing THEN promised ELSE FiniteFrames(q)
    BY <1>1, <1>2, <2>1 DEF Promise
  <2>3. finished' => Remaining(q) = frames
    BY <1>1, Zenon
  <2>4. CASE ~finishing
    <3>1. Remaining(q) = FiniteFrames(q) /\ rendered = 0
      BY <2>4 DEF Remaining, SaturationSound, FinishSound
    <3> HIDE DEF frames
    <3>2. promised' = Remaining(q)
      BY <2>2, <2>4, <3>1
    <3>3. /\ finishRemaining' \in Nat /\ rendered' \in Nat
          /\ rendered' + finishRemaining' = Remaining(q)
      BY <1>2, <2>2, <3>1
    <3>4. finished' => finishRemaining' = 0
      BY <1>2, <2>2, <2>3
    <3> QED BY <1>0, <2>1, <3>2, <3>3, <3>4 DEF FinishSound
  <2>5. CASE finishing
    <3>1. Remaining(q) = IF finishRemaining = NoFrames THEN FiniteFrames(q) ELSE finishRemaining
      BY DEF Remaining
    <3> HIDE DEF frames
    <3> QED BY <1>0, <1>2, <2>1, <2>2, <2>5, <2>3, <3>1 DEF SaturationSound, FinishSound, NoFrames
  <2> QED BY <2>4, <2>5
<1>5. /\ params' = params /\ cached' = cached
      /\ hardBypassed' = hardBypassed /\ streamStarted' = streamStarted
  BY DEF FinishFinite, control
<1> QED BY <1>3, <1>4, <1>5 DEF SaturationSound

\* An endless finish renders, and never says that it has finished.
LEMMA EndlessFinishSound ==
  ASSUME SaturationSound, NEW n \in Blocks, FinishEndless(n)
  PROVE  SaturationSound'
<1>0. n \in Nat /\ CoreSound(core) /\ stale = FALSE
  BY SaturationAssumption DEF FinishEndless, Endless, SaturationSound
<1>1. CoreSound(core') /\ ~stale'
  BY <1>0, AudibleBlock DEF FinishEndless
<1>2. /\ params' = params /\ cached' = cached
      /\ hardBypassed' = hardBypassed /\ streamStarted' = streamStarted
      /\ finishing' = TRUE /\ finished' = finished /\ ~finished /\ ~hardBypassed
      /\ finishRemaining' = finishRemaining /\ promised' = promised /\ rendered' = rendered
  BY DEF FinishEndless, Endless, control
<1> QED BY <1>1, <1>2 DEF SaturationSound, FinishSound

\* Every step of the adapter keeps the invariant.
LEMMA SaturationStep ==
  ASSUME SaturationSound, [SaturationNext]_saturationVars
  PROVE  SaturationSound'
<1>1. CASE UNCHANGED saturationVars
  BY <1>1 DEF saturationVars, control, lifecycle, SaturationSound, FinishSound
<1>2. CASE Publish
  <2>1. params' \in ParamSets
    BY <1>2 DEF Publish, SaturationSound, ParamSets
  <2>2. UNCHANGED <<cached, hardBypassed, streamStarted, core, lifecycle, stale, promised, rendered>>
    BY <1>2, Zenon DEF Publish
  <2> QED BY <2>1, <2>2 DEF lifecycle, SaturationSound, FinishSound
<1>3. CASE \E n \in Blocks : Process(n)
  BY <1>3, ProcessSound
<1>4. CASE \E n \in Blocks : ProcessWithEvents(n)
  BY <1>4, EventsSound
<1>5. CASE \E n \in Blocks : FinishEndless(n)
  BY <1>5, EndlessFinishSound
<1>6. CASE \E n \in Blocks : FinishFinite(n)
  BY <1>6, FiniteFinishSound
<1>7. CASE FinishBypassed
  BY <1>7 DEF FinishBypassed, control, SaturationSound, FinishSound
<1>8. CASE SaturationReset
  <2>1. CoreSound(core')
    <3>1. cached.enabled \in BOOLEAN /\ cached.quality \in Qualities
      BY DEF SaturationSound, ParamSets
    <3> QED BY <1>8, <3>1, SettledSound DEF SaturationReset
  <2> QED BY <1>8, <2>1 DEF SaturationReset, control, SaturationSound, FinishSound, ParamSets, NoFrames
<1>9. CASE \E on \in BOOLEAN : SetHardBypassed(on)
  <2>1. PICK on \in BOOLEAN : SetHardBypassed(on)
    BY <1>9
  <2>2. /\ ~streamStarted /\ streamStarted' = streamStarted /\ hardBypassed' = on
        /\ cached' = [cached EXCEPT !.armed = ~on] /\ params' = params
        /\ UNCHANGED <<core, lifecycle, stale, promised, rendered>>
    BY <2>1 DEF SetHardBypassed, control
  <2> QED BY <2>2 DEF lifecycle, SaturationSound, FinishSound, ParamSets
<1> QED BY <1>1, <1>2, <1>3, <1>4, <1>5, <1>6, <1>7, <1>8, <1>9 DEF SaturationNext

\* The adapter's crossfades mix no core that missed frames since the stream began or,
\* in its oversampling, since the high-pass mode last changed, and its finish is as
\* long as promised, for any set of qualities, any length of a transition, any filter tails and blocks
\* of any size.
THEOREM CleanTransitions == SaturationSpec => []TransitionsAreClean
<1>1. SaturationInit => SaturationSound
  <2> SUFFICES ASSUME SaturationInit PROVE SaturationSound
    OBVIOUS
  <2>1. params \in ParamSets
    BY SaturationAssumption DEF SaturationInit, ParamSets
  <2>2. CoreSound(core)
    BY <2>1, SettledSound DEF SaturationInit, ParamSets
  <2> QED BY <2>1, <2>2 DEF SaturationInit, SaturationSound, FinishSound, NoFrames, ParamSets
<1>2. SaturationSound /\ [SaturationNext]_saturationVars => SaturationSound'
  BY SaturationStep
<1>3. SaturationSound => TransitionsAreClean
  <2> SUFFICES ASSUME SaturationSound, finished, streamStarted, promised # NoFrames
               PROVE  rendered = promised
    BY DEF SaturationSound, TransitionsAreClean
  <2> QED BY DEF SaturationSound, FinishSound
<1> QED BY <1>1, <1>2, <1>3, PTL DEF SaturationSpec

\* Nothing published, and no event or finish, moves the latency of a stage while
\* its stream runs.
THEOREM LatencyStands == SaturationSpec => LatencyFrozen
<1>1. ASSUME [SaturationNext]_saturationVars, streamStarted, streamStarted'
      PROVE  hardBypassed' = hardBypassed
  <2>1. CASE UNCHANGED saturationVars
    BY <2>1 DEF saturationVars
  <2>2. CASE \E n \in Blocks : Process(n) \/ ProcessWithEvents(n)
    <3>1. hardBypassed' = BypassAfterSync
      BY <2>2, Zenon DEF Process, ProcessWithEvents
    <3> QED BY <1>1, <3>1 DEF BypassAfterSync
  <2>3. CASE Publish \/ FinishBypassed \/ \E n \in Blocks : FinishEndless(n) \/ FinishFinite(n)
    BY <2>3 DEF Publish, FinishBypassed, FinishEndless, FinishFinite
  <2>4. CASE SaturationReset \/ \E on \in BOOLEAN : SetHardBypassed(on)
    BY <1>1, <2>4 DEF SaturationReset, SetHardBypassed
  <2> QED BY <1>1, <2>1, <2>2, <2>3, <2>4 DEF SaturationNext
<1>2. [SaturationNext]_saturationVars =>
        [streamStarted /\ streamStarted' => LatencyNow' = LatencyNow]_saturationVars
  BY <1>1 DEF LatencyNow
<1> QED BY <1>2, PTL DEF SaturationSpec, LatencyFrozen

-----------------------------------------------------------------------------
(* The noise shaper.                                                       *)

\* The i-th last error of a history, silence before it.
Past(history, i) == IF i <= Len(history) THEN history[i] ELSE 0

ErrorFields ==
  [short : [1..ShortTaps -> Nat], ring : [1..(2 * LongTaps) -> Nat], head : 0..(LongTaps - 1)]

\* The errors a curve of `taps` taps keeps are those of the history, and the two
\* halves of the ring agree.
Remembers(e, history, taps) ==
  /\ e \in ErrorFields
  /\ history \in Seq(Nat) /\ Len(history) <= LongTaps
  /\ \A i \in 1..LongTaps : e.ring[i] = e.ring[i + LongTaps]
  /\ taps = ShortTaps => \A i \in 1..ShortTaps : e.short[i] = Past(history, i)
  /\ taps = LongTaps /\ taps # ShortTaps =>
       \A i \in 1..LongTaps : e.ring[e.head + i] = Past(history, i)

ShapingSound ==
  /\ shaperParams \in ShaperSettings /\ shaper.cached \in ShaperSettings
  /\ shaper = [cached |-> shaper.cached, finishing |-> shaper.finishing]
  /\ tick \in Nat
  /\ errors = [ch \in 1..ShaperChannels |-> errors[ch]]
  /\ made = [ch \in 1..ShaperChannels |-> made[ch]]
  /\ \A ch \in 1..ShaperChannels : Remembers(errors[ch], made[ch], Taps)

\* A cleared history remembers nothing.
LEMMA ClearedRemembers ==
  ASSUME NEW taps
  PROVE  Remembers(NoErrors, <<>>, taps)
<1> DEFINE e == NoErrors
<1>1. /\ e.short \in [1..ShortTaps -> Nat] /\ e.ring \in [1..(2 * LongTaps) -> Nat]
      /\ e.head = 0 /\ 0 \in 0..(LongTaps - 1)
      /\ \A i \in 1..ShortTaps : e.short[i] = 0
      /\ \A i \in 1..(2 * LongTaps) : e.ring[i] = 0
  BY ShapingAssumption DEF NoErrors, Quiet
<1>2. e \in ErrorFields
  BY <1>1 DEF NoErrors, ErrorFields
<1>3. /\ \A i \in 1..LongTaps : i \in 1..(2 * LongTaps) /\ i + LongTaps \in 1..(2 * LongTaps)
      /\ LongTaps \in Nat
  BY ShapingAssumption
<1> HIDE DEF e
<1>4. \A i \in Nat \ {0} : Past(<<>>, i) = 0
  BY DEF Past
<1>5. <<>> \in Seq(Nat) /\ Len(<<>>) <= LongTaps
  BY <1>3
<1>6. \A i \in 1..LongTaps : e.ring[i] = 0 /\ e.ring[i + LongTaps] = 0
  BY <1>1, <1>3
<1>7. \A i \in 1..LongTaps : e.ring[e.head + i] = 0
  <2> SUFFICES ASSUME NEW i \in 1..LongTaps PROVE e.ring[e.head + i] = 0
    OBVIOUS
  <2>1. e.head + i = i
    BY <1>1
  <2> QED BY <1>6, <2>1
<1>8. Remembers(e, <<>>, taps)
  <2> HIDE DEF Past
  <2> QED BY <1>1, <1>2, <1>4, <1>5, <1>6, <1>7 DEF Remembers
<1> QED BY <1>8 DEF e

\* A frame's error becomes the latest of the history, and the oldest beyond the
\* curve's reach is dropped.
Extended(history, error, n) == Latest(<<error>> \o history, n)
Follows(list, error, history, n) ==
  \A i \in 1..n : Past(list, i) = IF i = 1 THEN error ELSE Past(history, i - 1)

\* The newest entries of a history that gains one are those of a list one longer.
LEMMA LatestOf ==
  ASSUME NEW history \in Seq(Nat), NEW error \in Nat, NEW n \in Nat \ {0}
  PROVE  /\ Extended(history, error, n) \in Seq(Nat) /\ Len(Extended(history, error, n)) <= n
         /\ n <= Len(history) + 1 => Len(Extended(history, error, n)) = n
         /\ Follows(Extended(history, error, n), error, history, n)
<1> DEFINE all == <<error>> \o history
           list == Extended(history, error, n)
<1>1. /\ all \in Seq(Nat) /\ Len(all) = Len(history) + 1
      /\ \A i \in 1..Len(all) : all[i] = IF i = 1 THEN error ELSE history[i - 1]
  OBVIOUS
<1>0. list = Latest(all, n)
  BY DEF Extended
<1> HIDE DEF all, list
<1>2. /\ list \in Seq(Nat) /\ Len(list) = IF Len(all) < n THEN Len(all) ELSE n
      /\ \A i \in 1..Len(list) : list[i] = all[i]
  BY <1>0, <1>1 DEF Latest
<1>3. ASSUME NEW i \in 1..n
      PROVE  Past(list, i) = IF i = 1 THEN error ELSE Past(history, i - 1)
  <2>1. CASE i <= Len(list)
    <3>1. i \in 1..Len(list) /\ i \in 1..Len(all)
      BY <1>1, <1>2, <2>1
    <3>2. Past(list, i) = IF i = 1 THEN error ELSE history[i - 1]
      BY <1>1, <1>2, <2>1, <3>1 DEF Past
    <3>3. i # 1 => i - 1 <= Len(history)
      BY <1>1, <3>1
    <3> QED BY <3>2, <3>3 DEF Past
  <2>2. CASE i > Len(list)
    <3>1. i > Len(history) + 1 /\ ~(i <= Len(list)) /\ Len(history) \in Nat
      BY <1>1, <1>2, <2>2
    <3>2. i # 1 /\ ~(i - 1 <= Len(history))
      BY <3>1
    <3> QED BY <3>1, <3>2 DEF Past
  <2>3. Len(list) \in Nat
    BY <1>2
  <2> QED BY <2>1, <2>2, <2>3
<1>4. Len(list) <= n /\ (n <= Len(history) + 1 => Len(list) = n)
  BY <1>1, <1>2
<1> QED BY <1>2, <1>3, <1>4 DEF list, Follows

\* A ring written twice is read from any head.
LEMMA RingRemembers ==
  ASSUME NEW e, NEW history, NEW error \in Nat, NEW list \in Seq(Nat), Len(list) <= LongTaps,
         Remembers(e, history, LongTaps), LongTaps # ShortTaps,
         Follows(list, error, history, LongTaps)
  PROVE  Remembers(RingAfter(e, error), list, LongTaps)
<1> DEFINE d == RingAfter(e, error)
           head == (IF e.head = 0 THEN LongTaps ELSE e.head) - 1
<1>0. /\ LongTaps \in Nat \ {0} /\ e \in ErrorFields /\ e.head \in 0..(LongTaps - 1)
      /\ e.ring \in [1..(2 * LongTaps) -> Nat]
  BY ShapingAssumption DEF Remembers, ErrorFields
<1>1. head \in 0..(LongTaps - 1)
  BY <1>0
<1>2. /\ d.head = head /\ d.short = e.short
      /\ d.ring = [[e.ring EXCEPT ![head + 1] = error] EXCEPT ![head + LongTaps + 1] = error]
  BY <1>0 DEF RingAfter, ErrorFields
<1>3. /\ d.ring \in [1..(2 * LongTaps) -> Nat]
      /\ \A j \in 1..(2 * LongTaps) :
           d.ring[j] = IF j \in {head + 1, head + LongTaps + 1} THEN error ELSE e.ring[j]
  <2> HIDE DEF d, head
  <2> QED BY <1>0, <1>1, <1>2
<1>4. d \in ErrorFields
  <2>1. d = [e EXCEPT !.head = d.head, !.ring = d.ring]
    BY <1>0 DEF RingAfter, ErrorFields
  <2> HIDE DEF d, head
  <2> QED BY <1>0, <1>1, <1>2, <1>3, <2>1 DEF ErrorFields
<1>5. ASSUME NEW i \in 1..LongTaps
      PROVE  d.ring[i] = d.ring[i + LongTaps]
  <2>1. /\ i \in 1..(2 * LongTaps) /\ i + LongTaps \in 1..(2 * LongTaps)
        /\ i \in {head + 1, head + LongTaps + 1} <=> i = head + 1
        /\ i + LongTaps \in {head + 1, head + LongTaps + 1} <=> i = head + 1
    <3> DEFINE n == LongTaps
    <3>1. n \in Nat \ {0} /\ head \in Nat /\ head < n /\ i \in Nat /\ 0 < i /\ i <= n
      BY <1>0, <1>1
    <3> HIDE DEF head, n
    <3>2. i \in 1..(2 * n) /\ i + n \in 1..(2 * n)
      BY <3>1
    <3>3. i # head + n + 1 /\ i + n # head + 1
      BY <3>1
    <3>4. i + n = head + n + 1 <=> i = head + 1
      BY <3>1
    <3> QED BY <3>2, <3>3, <3>4 DEF n
  <2>2. e.ring[i] = e.ring[i + LongTaps]
    BY DEF Remembers
  <2> HIDE DEF d, head
  <2> QED BY <1>3, <2>1, <2>2
<1>6. ASSUME NEW i \in 1..LongTaps
      PROVE  d.ring[d.head + i] = Past(list, i)
  <2>1. head + i \in 1..(2 * LongTaps)
    <3> HIDE DEF head
    <3> QED BY <1>0, <1>1
  <2>2. CASE i = 1
    <3> HIDE DEF d, head
    <3> QED BY <1>2, <1>3, <2>1, <2>2 DEF Follows
  <2>3. CASE i # 1
    <3>1. i - 1 \in 1..LongTaps /\ e.head + (i - 1) \in 1..(2 * LongTaps)
      BY <1>0, <2>3
    <3>2. head + i \notin {head + 1, head + LongTaps + 1}
      <4> HIDE DEF head
      <4> QED BY <1>0, <1>1, <2>3
    <3>3. e.ring[head + i] = e.ring[e.head + (i - 1)]
      <4>1. CASE e.head = 0
        <5>1. head + i = (i - 1) + LongTaps /\ e.head + (i - 1) = i - 1
          BY <1>0, <4>1
        <5>2. e.ring[i - 1] = e.ring[(i - 1) + LongTaps]
          BY <3>1 DEF Remembers
        <5> QED BY <5>1, <5>2
      <4>2. CASE e.head # 0
        <5>1. head + i = e.head + (i - 1)
          BY <1>0, <4>2
        <5> QED BY <5>1
      <4> QED BY <4>1, <4>2
    <3>4. e.ring[e.head + (i - 1)] = Past(history, i - 1)
      BY <3>1 DEF Remembers
    <3>5. Past(list, i) = Past(history, i - 1)
      BY <2>3 DEF Follows
    <3> HIDE DEF d, head
    <3> QED BY <1>2, <1>3, <2>1, <3>2, <3>3, <3>4, <3>5
  <2> QED BY <2>2, <2>3
<1> HIDE DEF d
<1>7. Remembers(d, list, LongTaps)
  BY <1>4, <1>5, <1>6 DEF Remembers
<1> QED BY <1>7 DEF d

\* A frame of any curve.
LEMMA FrameRemembers ==
  ASSUME NEW e, NEW history, NEW error \in Nat, NEW taps \in {0, ShortTaps, LongTaps},
         Remembers(e, history, taps)
  PROVE  Remembers(ErrorsAfter(e, taps, error),
                   IF taps = 0 THEN history ELSE Extended(history, error, LongTaps), taps)
<1> DEFINE list == Extended(history, error, LongTaps)
<1>0. /\ ShortTaps \in Nat \ {0} /\ LongTaps \in Nat \ {0} /\ ShortTaps <= LongTaps
      /\ e \in ErrorFields /\ history \in Seq(Nat)
  BY ShapingAssumption DEF Remembers
<1>1. /\ list \in Seq(Nat) /\ Len(list) <= LongTaps
      /\ Follows(list, error, history, LongTaps)
  BY <1>0, LatestOf
<1>2. CASE taps = 0
  BY <1>2 DEF ErrorsAfter
<1>3. CASE taps = ShortTaps
  <2> DEFINE short == Extended(e.short, error, ShortTaps)
             d == [e EXCEPT !.short = short]
  <2>1. e.short \in Seq(Nat) /\ Len(e.short) = ShortTaps
    BY <1>0 DEF ErrorFields
  <2>2. /\ short \in Seq(Nat) /\ Len(short) = ShortTaps
        /\ Follows(short, error, e.short, ShortTaps)
    <3>1. ShortTaps <= Len(e.short) + 1
      BY <1>0, <2>1
    <3> QED BY <1>0, <2>1, <3>1, LatestOf
  <2> HIDE DEF short
  <2>3. d \in ErrorFields /\ d.short = short /\ d.ring = e.ring
    <3>1. short \in [1..ShortTaps -> Nat]
      BY <2>2
    <3> QED BY <1>0, <3>1 DEF ErrorFields
  <2>4. ASSUME NEW i \in 1..ShortTaps
        PROVE  d.short[i] = Past(list, i)
    <3>1. short[i] = Past(short, i)
      BY <2>2 DEF Past
    <3>2. i \in 1..LongTaps
      BY <1>0
    <3>3. CASE i = 1
      BY <1>1, <2>2, <2>3, <3>1, <3>2, <3>3 DEF Follows
    <3>4. CASE i # 1
      <4>1. i - 1 \in 1..ShortTaps
        BY <1>0, <3>4
      <4>2. Past(e.short, i - 1) = Past(history, i - 1)
        BY <1>0, <1>3, <2>1, <4>1 DEF Past, Remembers
      <4> HIDE DEF list
      <4> QED BY <1>1, <2>2, <2>3, <3>1, <3>2, <3>4, <4>2 DEF Follows
    <3> QED BY <3>3, <3>4
  <2> HIDE DEF d, list
  <2>5. Remembers(d, list, taps)
    BY <1>1, <1>3, <2>3, <2>4 DEF Remembers
  <2>6. ErrorsAfter(e, taps, error) = d
    BY <1>0, <1>3 DEF ErrorsAfter, Extended, d, short
  <2> QED BY <1>0, <1>3, <2>5, <2>6 DEF list
<1>4. CASE taps = LongTaps /\ taps # ShortTaps
  <2>1. ErrorsAfter(e, taps, error) = RingAfter(e, error)
    BY <1>0, <1>4 DEF ErrorsAfter
  <2>2. Remembers(RingAfter(e, error), list, LongTaps)
    <3> HIDE DEF list
    <3> QED BY <1>1, <1>4, RingRemembers
  <2> QED BY <1>0, <1>4, <2>1, <2>2
<1> QED BY <1>2, <1>3, <1>4

\* Every curve has a number of taps the histories are kept for.
LEMMA CurveTaps ==
  ASSUME NEW settings \in ShaperSettings
  PROVE  Curves[settings.curve] \in {0, ShortTaps, LongTaps}
BY ShapingAssumption DEF ShaperSettings

\* A block of one frame or none, whether or not the curve changes in it.
LEMMA BlockRemembers ==
  ASSUME ShapingSound, NEW adopts \in BOOLEAN, NEW frames, NEW bad, ShapingProcess(adopts, frames, bad)
  PROVE  ShapingSound'
<1> DEFINE now == IF adopts THEN shaperParams ELSE shaper.cached
           switched == now.curve # shaper.cached.curve
           taps == Curves[now.curve]
           e == IF switched THEN Cleared ELSE errors
           list == IF switched THEN Forgotten ELSE made
<1>1. /\ now \in ShaperSettings /\ tick \in Nat
      /\ shaper' = [cached |-> now, finishing |-> shaper.finishing]
      /\ shaperParams' = shaperParams /\ shaperParams \in ShaperSettings
  <2>1. shaper' = [shaper EXCEPT !.cached = now] /\ shaperParams' = shaperParams
    BY DEF ShapingProcess
  <2>2. shaper = [cached |-> shaper.cached, finishing |-> shaper.finishing]
    BY DEF ShapingSound
  <2>3. shaper' = [cached |-> now, finishing |-> shaper.finishing]
    <3> HIDE DEF now
    <3> QED BY <2>1, <2>2
  <2> QED BY <2>1, <2>3 DEF ShapingSound
<1>2. Taps' = taps /\ taps \in {0, ShortTaps, LongTaps} /\ shaper'.cached = now
  BY <1>1, CurveTaps DEF Taps
<1>3. /\ e = [ch \in 1..ShaperChannels |-> e[ch]]
      /\ list = [ch \in 1..ShaperChannels |-> list[ch]]
      /\ \A ch \in 1..ShaperChannels : Remembers(e[ch], list[ch], taps)
  <2>1. CASE switched
    BY <2>1, ClearedRemembers DEF Cleared, Forgotten
  <2>2. CASE ~switched
    BY <2>2 DEF ShapingSound, Taps
  <2> QED BY <2>1, <2>2
<1>4. CASE now.enabled /\ frames = 1
  <2>1. /\ errors' = [ch \in DOMAIN e |-> Sample(e[ch], taps, ch \in bad)]
        /\ made' = [ch \in DOMAIN e |-> MadeAfter(list[ch], taps, ch \in bad)]
        /\ tick' = (tick % (LongTaps + 1)) + 1
    BY <1>4 DEF ShapingProcess
  <2> HIDE DEF e, list, taps, now
  <2>2. DOMAIN e = 1..ShaperChannels
    BY <1>3
  <2>3. tick' \in Nat
    BY <1>1, <2>1, ShapingAssumption
  <2>4. ASSUME NEW ch \in 1..ShaperChannels
        PROVE  Remembers(errors'[ch], made'[ch], taps)
    <3>1. Remembers(e[ch], list[ch], taps)
      BY <1>3
    <3>2. errors'[ch] = Sample(e[ch], taps, ch \in bad) /\ made'[ch] = MadeAfter(list[ch], taps, ch \in bad)
      BY <2>1, <2>2
    <3>3. CASE ch \in bad
      BY <3>2, <3>3, ClearedRemembers DEF Sample, MadeAfter
    <3>4. CASE ch \notin bad
      BY <1>1, <1>2, <3>1, <3>2, <3>4, FrameRemembers DEF Sample, MadeAfter, Extended
    <3> QED BY <3>3, <3>4
  <2>5. /\ errors' = [ch \in 1..ShaperChannels |-> errors'[ch]]
        /\ made' = [ch \in 1..ShaperChannels |-> made'[ch]]
    BY <2>1, <2>2
  <2> QED BY <1>1, <1>2, <2>3, <2>4, <2>5 DEF ShapingSound
<1>5. CASE ~(now.enabled /\ frames = 1)
  <2>1. errors' = e /\ made' = list /\ tick' = tick
    BY <1>5 DEF ShapingProcess
  <2> HIDE DEF e, list, taps, now
  <2> QED BY <1>1, <1>2, <1>3, <2>1 DEF ShapingSound
<1> QED BY <1>4, <1>5

\* Each channel of the noise shaper feeds back its own last errors, for any
\* lengths of the two arrays, any curves of those lengths and any channels.
THEOREM HistoryFedBack == ShapingSpec => []FeedbackIsHistory
<1>1. ShapingInit => ShapingSound
  BY ShapingAssumption, ClearedRemembers
     DEF ShapingInit, ShapingSound, Cleared, Forgotten
<1>2. ShapingSound /\ [ShapingNext]_shapingVars => ShapingSound'
  <2> SUFFICES ASSUME ShapingSound, [ShapingNext]_shapingVars PROVE ShapingSound'
    OBVIOUS
  <2>1. CASE UNCHANGED shapingVars
    BY <2>1 DEF shapingVars, ShapingSound, Taps
  <2>2. CASE ShapingPublish
    BY <2>2 DEF ShapingPublish, ShapingSound, Taps
  <2>3. CASE ShapingFinish
    <3>1. shaper' = [cached |-> shaper.cached, finishing |-> TRUE]
      BY <2>3 DEF ShapingFinish, ShapingSound
    <3> QED BY <2>3, <3>1 DEF ShapingFinish, ShapingSound, Taps
  <2>4. CASE ShapingReset
    <3>1. shaper' = [cached |-> shaper.cached, finishing |-> FALSE]
      BY <2>4 DEF ShapingReset, ShapingSound
    <3>2. \A ch \in 1..ShaperChannels : Remembers(errors'[ch], made'[ch], Taps')
      BY <2>4, ClearedRemembers DEF ShapingReset, Cleared, Forgotten
    <3> QED BY <2>4, <3>1, <3>2 DEF ShapingReset, ShapingSound, Cleared, Forgotten
  <2>5. CASE \E adopts \in BOOLEAN, bad \in SUBSET (1..ShaperChannels) : ShapingProcess(adopts, 1, bad)
    BY <2>5, BlockRemembers
  <2>6. CASE \E adopts \in BOOLEAN : ShapingProcess(adopts, 0, {})
    BY <2>6, BlockRemembers
  <2> QED BY <2>1, <2>2, <2>3, <2>4, <2>5, <2>6 DEF ShapingNext
<1>3. ShapingSound => FeedbackIsHistory
  <2> SUFFICES ASSUME ShapingSound, NEW ch \in DOMAIN errors
               PROVE  Feedback(errors[ch]) =
                        [i \in 1..Taps |-> IF i <= Len(made[ch]) THEN made[ch][i] ELSE 0]
    BY DEF FeedbackIsHistory
  <2>1. ch \in 1..ShaperChannels /\ Taps \in {0, ShortTaps, LongTaps}
    BY CurveTaps DEF ShapingSound, Taps
  <2>2. Remembers(errors[ch], made[ch], Taps)
    BY <2>1 DEF ShapingSound
  <2> DEFINE past == [i \in 1..Taps |-> IF i <= Len(made[ch]) THEN made[ch][i] ELSE 0]
  <2>3. CASE Taps = 0
    <3>1. past = <<>>
      BY <2>3
    <3> QED BY <2>3, <3>1 DEF Feedback
  <2>4. CASE Taps = ShortTaps /\ Taps # 0
    <3>1. errors[ch].short \in [1..Taps -> Nat]
      BY <2>2, <2>4 DEF Remembers, ErrorFields
    <3>2. \A i \in 1..Taps : errors[ch].short[i] = past[i]
      BY <2>2, <2>4 DEF Remembers, Past
    <3> QED BY <2>4, <3>1, <3>2 DEF Feedback
  <2>5. CASE Taps = LongTaps /\ Taps # ShortTaps /\ Taps # 0
    <3>1. \A i \in 1..Taps : errors[ch].ring[errors[ch].head + i] = past[i]
      BY <2>2, <2>5 DEF Remembers, Past
    <3> QED BY <2>5, <3>1 DEF Feedback
  <2> QED BY <2>1, <2>3, <2>4, <2>5
<1> QED BY <1>1, <1>2, <1>3, PTL DEF ShapingSpec

-----------------------------------------------------------------------------
(* The owned resampler backend.                                            *)

\* Integer division: the quotient, what it bounds, and of a sum.
LEMMA Quotient ==
  ASSUME NEW a \in Nat, NEW d \in Nat \ {0}
  PROVE  a \div d \in Nat /\ d * (a \div d) <= a /\ a < d * (a \div d) + d
OBVIOUS

\* The quotient is the greatest number that fits.
LEMMA QuotientLeast ==
  ASSUME NEW a \in Nat, NEW d \in Nat \ {0}, NEW q \in Nat, d * q <= a
  PROVE  q <= a \div d
BY Quotient

\* What a sum holds, apart and together.
LEMMA QuotientOfSum ==
  ASSUME NEW a \in Nat, NEW b \in Nat, NEW d \in Nat \ {0}
  PROVE  /\ (a \div d) + (b \div d) <= (a + b) \div d
         /\ (a + b) \div d <= (a \div d) + ((b + d - 1) \div d)
OBVIOUS

\* A product of naturals.
LEMMA ProductNat ==
  ASSUME NEW a \in Nat, NEW b \in Nat
  PROVE  a * b \in Nat
OBVIOUS

\* What a kernel gives: nothing of nothing, no less of more blocks than of the
\* blocks apart, and of a block no more than it says.
LEMMA KernelGives ==
  ASSUME NEW k \in Kernels, NEW n \in Nat, NEW m \in Nat
  PROVE  /\ GivenBy(k, n) \in Nat /\ GivenBy(k, 0) = 0
         /\ GivenBy(k, n) + GivenBy(k, m) <= GivenBy(k, n + m)
         /\ GivenBy(k, n + 1) - GivenBy(k, n) <= k.most
<1>1. /\ k.block \in Nat \ {0} /\ k.from \in Nat \ {0} /\ k.to \in Nat \ {0}
      /\ k.most \in Nat /\ k.unit \in Nat /\ MostOf(k) <= k.most
  BY BlockAssumption
<1> DEFINE b == k.block  
           t == k.to  
           f == k.from 
           u == k.unit
<1>2. CASE u = 0
  <2> DEFINE p == b * t
  <2>1. p \in Nat /\ n * p \in Nat /\ m * p \in Nat
    BY <1>1, ProductNat
  <2>2. ASSUME NEW i \in Nat PROVE GivenBy(k, i) = (i * p) \div f
    <3>1. i * b * t = i * p
      BY <1>1
    <3> QED BY <1>2, <3>1 DEF GivenBy
  <2>3. MostOf(k) = (p + f - 1) \div f
    BY <1>2 DEF MostOf
  <2> HIDE DEF p
  <2>4. (n + m) * p = n * p + m * p /\ (n + 1) * p = n * p + p /\ 0 * p = 0 /\ 0 \div f = 0
    BY <1>1, <2>1
  <2>5. (n * p) \div f \in Nat
    BY <1>1, <2>1, Quotient
  <2>6. ((n * p) \div f) + ((m * p) \div f) <= (n * p + m * p) \div f
    BY <1>1, <2>1, QuotientOfSum
  <2>7. (n * p + p) \div f <= ((n * p) \div f) + ((p + f - 1) \div f)
    BY <1>1, <2>1, QuotientOfSum
  <2>8. (n * p + p) \div f \in Nat /\ (p + f - 1) \div f \in Nat
    BY <1>1, <2>1, Quotient
  <2> QED BY <1>1, <2>2, <2>3, <2>4, <2>5, <2>6, <2>7, <2>8
<1>3. CASE u # 0
  <2> DEFINE p == (u * t) \div f
  <2>1. p \in Nat /\ n * b \in Nat /\ m * b \in Nat
    BY <1>1, ProductNat, Quotient
  <2>2. ASSUME NEW i \in Nat PROVE GivenBy(k, i) = ((i * b) \div u) * p
    BY <1>3 DEF GivenBy
  <2>3. MostOf(k) = ((b + u - 1) \div u) * p
    BY <1>3 DEF MostOf
  <2> HIDE DEF p
  <2>4. (n + m) * b = n * b + m * b /\ (n + 1) * b = n * b + b /\ 0 * b = 0 /\ 0 \div u = 0
    BY <1>1, <1>3, <2>1
  <2>5. (n * b) \div u \in Nat /\ (m * b) \div u \in Nat
    BY <1>1, <1>3, <2>1, Quotient
  <2>6. ((n * b) \div u) + ((m * b) \div u) <= (n * b + m * b) \div u
    BY <1>1, <1>3, <2>1, QuotientOfSum
  <2>7. (n * b + b) \div u <= ((n * b) \div u) + ((b + u - 1) \div u)
    BY <1>1, <1>3, <2>1, QuotientOfSum
  <2>8. /\ (n * b + b) \div u \in Nat /\ (b + u - 1) \div u \in Nat
        /\ (n * b + m * b) \div u \in Nat
    <3>1. n * b + b \in Nat /\ b + u - 1 \in Nat /\ n * b + m * b \in Nat
      BY <1>1, <1>3, <2>1
    <3> QED BY <1>1, <1>3, <3>1, Quotient
  <2>9. ASSUME NEW x \in Nat, NEW y \in Nat, NEW z \in Nat
        PROVE  /\ x + y <= z => x * p + y * p <= z * p
               /\ z <= x + y => z * p - x * p <= y * p
               /\ x * p \in Nat
    BY <2>1
  <2>10. GivenBy(k, n) \in Nat /\ GivenBy(k, 0) = 0
    BY <2>1, <2>2, <2>4, <2>5, <2>9
  <2>11. GivenBy(k, n) + GivenBy(k, m) <= GivenBy(k, n + m)
    <3>1. GivenBy(k, n + m) = ((n * b + m * b) \div u) * p
      BY <2>2, <2>4
    <3>2. ((n * b) \div u) * p + ((m * b) \div u) * p <= ((n * b + m * b) \div u) * p
      BY <2>5, <2>6, <2>8, <2>9
    <3> QED BY <2>2, <3>1, <3>2
  <2>12. GivenBy(k, n + 1) - GivenBy(k, n) <= MostOf(k)
    <3>1. GivenBy(k, n + 1) = ((n * b + b) \div u) * p
      BY <2>2, <2>4
    <3>2. ((n * b + b) \div u) * p - ((n * b) \div u) * p <= ((b + u - 1) \div u) * p
      BY <2>5, <2>7, <2>8, <2>9
    <3> QED BY <2>2, <2>3, <3>1, <3>2
  <2>13. MostOf(k) \in Nat /\ GivenBy(k, n + 1) \in Nat
    <3>1. GivenBy(k, n + 1) = ((n * b + b) \div u) * p
      BY <2>2, <2>4
    <3> QED BY <2>3, <2>8, <2>9, <3>1
  <2> QED BY <1>1, <2>10, <2>11, <2>12, <2>13
<1> QED BY <1>1, <1>2, <1>3

\* The duration of the output, of which the kernel never gives more.
Duration(k, n) == (n * k.to * 2 + k.from) \div (k.from * 2)

\* More input lasts longer, and a kernel gives no more than its blocks last.
LEMMA DurationGrows ==
  ASSUME NEW k \in Kernels, NEW n \in Nat, NEW m \in Nat
  PROVE  /\ Duration(k, n) \in Nat
         /\ n <= m => Duration(k, n) <= Duration(k, m)
         /\ GivenBy(k, n) <= Duration(k, n * k.block)
<1>1. /\ k.block \in Nat \ {0} /\ k.from \in Nat \ {0} /\ k.to \in Nat \ {0}
      /\ k.unit \in Nat
  BY BlockAssumption
<1> DEFINE b == k.block
           t == k.to
           f == k.from
           u == k.unit
           Scaled(i) == i * t * 2 + f
<1>2. f * 2 \in Nat \ {0} /\ \A i \in Nat : Scaled(i) \in Nat
  BY <1>1
<1>3. Duration(k, n) \in Nat
  BY <1>2, Quotient DEF Duration
<1>4. n <= m => Duration(k, n) <= Duration(k, m)
  <2> SUFFICES ASSUME n <= m PROVE Duration(k, n) <= Duration(k, m)
    OBVIOUS
  <2>1. Scaled(n) <= Scaled(m)
    BY <1>1
  <2>2. (f * 2) * (Scaled(n) \div (f * 2)) <= Scaled(n) /\ Scaled(n) \div (f * 2) \in Nat
    BY <1>2, Quotient
  <2>3. (f * 2) * (Scaled(n) \div (f * 2)) <= Scaled(m)
    BY <1>1, <1>2, <2>1, <2>2
  <2> HIDE DEF Scaled
  <2>4. Scaled(n) \div (f * 2) <= Scaled(m) \div (f * 2)
    BY <1>2, <2>2, <2>3, QuotientLeast
  <2> QED BY <2>4 DEF Duration, Scaled
<1>5. f * GivenBy(k, n) <= n * b * t /\ GivenBy(k, n) \in Nat
  <2>0. n * b \in Nat /\ n * b * t \in Nat /\ u * t \in Nat
    BY <1>1, ProductNat
  <2>1. CASE u = 0
    BY <1>1, <2>0, <2>1, Quotient DEF GivenBy
  <2>2. CASE u # 0
    <3> DEFINE x == (n * b) \div u
               p == (u * t) \div f
    <3>1. x \in Nat /\ p \in Nat /\ u * x <= n * b /\ f * p <= u * t
      BY <1>1, <2>0, <2>2, Quotient
    <3>2. GivenBy(k, n) = x * p
      BY <2>2 DEF GivenBy
    <3> HIDE DEF x, p
    <3>3. f * (x * p) = x * (f * p) /\ x * (f * p) <= x * (u * t)
      BY <1>1, <3>1
    <3>4. x * (u * t) = (u * x) * t /\ (u * x) * t <= n * b * t
      BY <1>1, <2>0, <3>1
    <3>5. x * p \in Nat
      BY <3>1, ProductNat
    <3> QED BY <1>1, <3>1, <3>2, <3>3, <3>4, <3>5
  <2> QED BY <2>1, <2>2
<1>6. GivenBy(k, n) <= Duration(k, n * b)
  <2>1. n * b \in Nat
    BY <1>1, ProductNat
  <2>2. (f * 2) * GivenBy(k, n) <= Scaled(n * b)
    BY <1>1, <1>5
  <2> HIDE DEF Scaled
  <2>3. GivenBy(k, n) <= Scaled(n * b) \div (f * 2)
    BY <1>2, <1>5, <2>1, <2>2, QuotientLeast
  <2> QED BY <2>3 DEF Duration, Scaled
<1> QED BY <1>3, <1>4, <1>6

BlockFields ==
  [input : Seq(Int), pending : Seq(Int), skip : Nat, total : Nat, emitted : Nat,
   ending : BOOLEAN, finishing : BOOLEAN, finished : BOOLEAN]
Results == {"none", "refused", "need_input", "need_output", "finished", "error"}
CallFields ==
  [kind : {"none", "process", "finish"}, input : Nat, room : Nat, left : Nat,
   stalled : Int, result : Results]

\* All the kernel gave was dropped, came out or is pending, in this order.
Accounted(b) ==
  /\ b.skip <= kernel.skip
  /\ kernel.skip - b.skip + b.emitted + Len(b.pending) = Given(runs)
  /\ \A i \in 1..Len(b.pending) : b.pending[i] = kernel.skip + b.emitted + i - 1
  /\ b.skip > 0 => b.emitted = 0 /\ b.pending = <<>>

\* The kernel was fed all that was accepted but for what is collected; silence,
\* only after that.
Fed(b) ==
  /\ \A i \in 1..Len(b.input) : b.input[i] = runs * kernel.block + i - 1
  /\ \/ b.total = runs * kernel.block + Len(b.input) /\ Len(b.input) <= kernel.block
     \/ b.finishing /\ b.input = <<>> /\ b.total <= runs * kernel.block

Ends ==
  /\ ~block.finishing => ~block.ending /\ ~block.finished
  /\ call.kind = "process" => ~block.finishing
  /\ call.kind = "finish" => block.ending /\ block.finishing /\ ~block.finished
  /\ block.emitted <= Budget
  /\ block.finished => block.ending /\ block.emitted = Budget

\* Since a finish last flushed, the kernel gave no more than what it drops.
Patient ==
  call.kind = "finish" =>
    /\ call.stalled \in -1..StallLimit /\ call.stalled <= runs
    /\ call.stalled >= 0 => block.emitted <= Given(runs - call.stalled)

BlockSound ==
  /\ kernel \in Kernels /\ runs \in Nat /\ inOrder = TRUE
  /\ block \in BlockFields /\ call \in CallFields /\ call.result # "error"
  /\ Accounted(block) /\ Fed(block) /\ Ends /\ Patient

\* What is assumed of every kernel.
LEMMA KernelConstants ==
  ASSUME NEW k \in Kernels
  PROVE  /\ k.block \in Nat \ {0} /\ k.from \in Nat \ {0} /\ k.to \in Nat \ {0}
         /\ k.most \in Nat /\ k.unit \in Nat /\ k.skip \in Nat /\ k.extension \in Nat
         /\ k.skip < GivenBy(k, StallLimit) /\ StallLimit \in Nat
BY BlockAssumption

\* The budget is the duration of the input, and what is left of it a number.
LEMMA BudgetIs ==
  ASSUME BlockSound
  PROVE  /\ OutputFrames(block.total) = Duration(kernel, block.total)
         /\ OutputFrames(block.total) \in Nat /\ Budget \in Nat /\ Left \in Nat
         /\ Left > 0 => Left = Budget - block.emitted
<1>1. OutputFrames(block.total) = Duration(kernel, block.total)
  BY DEF OutputFrames, Duration
<1>2. kernel \in Kernels /\ block.total \in Nat /\ block.emitted \in Nat /\ kernel.extension \in Nat
  BY KernelConstants DEF BlockSound, BlockFields
<1>3. Duration(kernel, block.total) \in Nat
  BY <1>2, DurationGrows
<1> QED BY <1>1, <1>2, <1>3 DEF Budget, Left

\* A run of the kernel, whose output goes out or is pending.
LEMMA RunAccounts ==
  ASSUME BlockSound, NEW frames, NEW b \in BlockFields, NEW input \in Nat,
         b.skip = block.skip, b.emitted = block.emitted, b.pending = <<>>, block.pending = <<>>,
         Working, FedInOrder(frames, b.total), Run(frames, b, input)
  PROVE  /\ runs' = runs + 1 /\ kernel' = kernel /\ inOrder' = TRUE
         /\ block' \in BlockFields /\ call' \in CallFields
         /\ block'.input = b.input /\ block'.total = b.total /\ block'.ending = b.ending
         /\ block'.finishing = b.finishing /\ block'.finished = b.finished
         /\ call'.kind = call.kind /\ call'.result = call.result
         /\ Accounted(block)'
         /\ \/ block'.emitted = block.emitted /\ call'.stalled = call.stalled + 1
            \/ call.kind = "process" /\ block'.emitted <= Duration(kernel, b.total)
<1> DEFINE count == Given(runs + 1) - Given(runs)
           given == [i \in 1..count |-> Given(runs) + i - 1]
           drop == Fewer(b.skip, count)
<1>1. /\ kernel \in Kernels /\ runs \in Nat /\ call \in CallFields /\ inOrder = TRUE
      /\ Given(runs) \in Nat /\ Given(runs + 1) \in Nat
      /\ count \in Nat /\ count <= kernel.most
      /\ kernel.most \in Nat /\ kernel.skip \in Nat
  <2>0. kernel \in Kernels /\ runs \in Nat /\ runs + 1 \in Nat /\ 1 \in Nat
    BY DEF BlockSound
  <2>1. GivenBy(kernel, runs) \in Nat /\ GivenBy(kernel, runs + 1) \in Nat
    BY <2>0, KernelGives
  <2>2. GivenBy(kernel, 1) \in Nat /\ GivenBy(kernel, runs) + GivenBy(kernel, 1) <= GivenBy(kernel, runs + 1)
    BY <2>0, KernelGives
  <2>3. GivenBy(kernel, runs + 1) - GivenBy(kernel, runs) <= kernel.most
    BY <2>0, KernelGives
  <2>4. count \in Nat
    BY <2>1, <2>2 DEF Given
  <2> QED BY <2>0, <2>1, <2>3, <2>4, KernelConstants DEF BlockSound, Given
<1>2. /\ b.skip \in Nat /\ b.emitted \in Nat /\ b.skip <= kernel.skip
      /\ kernel.skip - b.skip + b.emitted = Given(runs)
      /\ b.skip > 0 => b.emitted = 0
  <2>1. block \in BlockFields /\ Accounted(block) /\ Len(block.pending) = 0
    BY DEF BlockSound
  <2>2. b.skip \in Nat /\ b.emitted \in Nat
    BY DEF BlockFields
  <2> QED BY <1>1, <2>1, <2>2 DEF Accounted
<1>8. call.left \in Nat /\ call.stalled \in Int
  BY <1>1 DEF CallFields
<1>3. runs' = runs + 1 /\ kernel' = kernel
  BY DEF Run
<1>4. Given(runs)' = Given(runs) + count
  BY <1>1, <1>3, KernelGives DEF Given
<1>5. /\ given \in Seq(Int) /\ Len(given) = count
      /\ \A i \in 1..count : given[i] = Given(runs) + i - 1
  <2> HIDE DEF count
  <2> QED BY <1>1
<1>6. CASE Direct(b)
  <2>1. /\ block' = [b EXCEPT !.emitted = @ + count]
        /\ call' = [call EXCEPT !.input = input, !.left = @ - count]
        /\ inOrder' = (inOrder /\ FedInOrder(frames, b.total) /\ OutInOrder(given))
    BY <1>6 DEF Run
  <2>2. /\ call.kind = "process" /\ b.skip = 0 /\ call.left >= kernel.most
        /\ OutputFrames(b.total) - b.emitted >= kernel.most
    BY <1>6 DEF Direct
  <2>3. OutInOrder(given)
    <3> HIDE DEF count, given
    <3> QED BY <1>1, <1>2, <1>5, <2>2 DEF OutInOrder
  <2>4. OutputFrames(b.total) = Duration(kernel, b.total) /\ Duration(kernel, b.total) \in Nat
    BY <1>1, DurationGrows DEF OutputFrames, Duration, BlockFields
  <2> HIDE DEF count, given, drop
  <2>5. b.emitted + count \in Nat /\ call.left - count \in Nat
    <3>1. /\ call.left \in Nat /\ kernel.most \in Nat /\ count \in Nat /\ b.emitted \in Nat
          /\ count <= kernel.most /\ kernel.most <= call.left
      BY <1>1, <1>2, <1>8, <2>2
    <3> QED BY <3>1
  <2>6. /\ block' \in BlockFields /\ call' \in CallFields
        /\ block'.input = b.input /\ block'.total = b.total /\ block'.ending = b.ending
        /\ block'.finishing = b.finishing /\ block'.finished = b.finished
        /\ block'.skip = b.skip /\ block'.pending = b.pending /\ block'.emitted = b.emitted + count
        /\ call'.kind = call.kind /\ call'.result = call.result
    BY <1>1, <2>1, <2>5 DEF BlockFields, CallFields
  <2>7. Accounted(block)'
    BY <1>1, <1>2, <1>3, <1>4, <2>2, <2>6 DEF Accounted
  <2>8. block'.emitted <= Duration(kernel, b.total)
    BY <1>1, <1>2, <2>2, <2>4, <2>6
  <2> QED BY <1>1, <1>3, <2>1, <2>2, <2>3, <2>6, <2>7, <2>8
<1>7. CASE ~Direct(b)
  <2>1. /\ block' = [b EXCEPT !.skip = @ - drop, !.pending = SubSeq(given, drop + 1, count)]
        /\ call' = [call EXCEPT !.input = input, !.stalled = @ + 1]
        /\ inOrder' = (inOrder /\ FedInOrder(frames, b.total))
    BY <1>7 DEF Run
  <2>2. drop \in Nat /\ drop <= b.skip /\ drop <= count /\ (drop = b.skip \/ drop = count)
    <3> HIDE DEF count
    <3> QED BY <1>1, <1>2 DEF Fewer
  <2> HIDE DEF count, given, drop
  <2>3. /\ SubSeq(given, drop + 1, count) \in Seq(Int)
        /\ Len(SubSeq(given, drop + 1, count)) = count - drop
        /\ \A i \in 1..(count - drop) : SubSeq(given, drop + 1, count)[i] = given[drop + i]
    BY <1>1, <1>5, <2>2
  <2> DEFINE pending == SubSeq(given, drop + 1, count)
  <2> HIDE DEF pending
  <2>4. b.skip - drop \in Nat /\ call.stalled + 1 \in Int
    <3>1. call.stalled + 1 \in Int
      BY <1>8
    <3>2. b.skip \in Nat
      BY <1>2
    <3>3. b.skip - drop \in Nat
      BY <2>2, <3>2
    <3> QED BY <3>1, <3>3
  <2>5. /\ block' \in BlockFields /\ call' \in CallFields
        /\ block'.input = b.input /\ block'.total = b.total /\ block'.ending = b.ending
        /\ block'.finishing = b.finishing /\ block'.finished = b.finished
        /\ block'.skip = b.skip - drop /\ block'.pending = pending /\ block'.emitted = b.emitted
        /\ call'.kind = call.kind /\ call'.result = call.result
        /\ call'.stalled = call.stalled + 1
    BY <1>1, <2>1, <2>3, <2>4 DEF BlockFields, CallFields, pending
  <2>6. /\ pending \in Seq(Int) /\ Len(pending) = count - drop
        /\ \A i \in 1..Len(pending) : pending[i] = Given(runs) + drop + i - 1
    <3>1. \A i \in 1..(count - drop) : drop + i \in 1..count
      BY <1>1, <2>2
    <3> QED BY <1>1, <1>5, <2>2, <2>3, <3>1 DEF pending
  <2>7. Accounted(block)'
    <3>0. b.skip \in Nat /\ b.emitted \in Nat /\ drop \in Nat /\ kernel.skip \in Nat
      BY <1>1, <1>2, <2>2
    <3>1. b.skip - drop > 0 => b.emitted = 0 /\ pending = <<>>
      BY <1>1, <1>2, <2>2, <2>6
    <3>2. ASSUME NEW i \in 1..Len(pending) PROVE pending[i] = kernel.skip + b.emitted + i - 1
      <4>1. drop = b.skip
        BY <1>1, <2>2, <2>6
      <4>2. pending[i] = Given(runs) + drop + i - 1
        BY <2>6
      <4> QED BY <1>2, <3>0, <4>1, <4>2
    <3>3. kernel.skip - (b.skip - drop) + b.emitted + Len(pending) = Given(runs) + count
      <4>1. Given(runs) \in Nat /\ count \in Nat /\ Len(pending) = count - drop
        BY <1>1, <2>6
      <4>2. kernel.skip - b.skip + b.emitted = Given(runs)
        BY <1>2
      <4> DEFINE held == Len(pending)
                 before == Given(runs)
      <4>3. /\ kernel.skip \in Int /\ b.skip \in Int /\ b.emitted \in Int /\ drop \in Int
            /\ count \in Int /\ before \in Int /\ held = count - drop
            /\ kernel.skip - b.skip + b.emitted = before
        BY <3>0, <4>1, <4>2
      <4> HIDE DEF held, before
      <4>4. kernel.skip - (b.skip - drop) + b.emitted + held = before + count
        BY <4>3
      <4> QED BY <4>4 DEF held, before
    <3>4. b.skip - drop <= kernel.skip
      BY <1>1, <1>2, <2>2
    <3> QED BY <1>3, <1>4, <2>5, <3>1, <3>2, <3>3, <3>4 DEF Accounted
  <2> QED BY <1>1, <1>3, <2>1, <2>5, <2>7
<1> QED BY <1>6, <1>7

\* More input never authorises less output.
LEMMA BudgetGrows ==
  ASSUME BlockSound, kernel' = kernel, block' \in BlockFields, block'.total >= block.total,
         block'.ending = block.ending \/ block'.ending
  PROVE  Budget' \in Nat /\ Budget <= Budget' /\ Duration(kernel, block'.total) <= Budget'
<1>1. /\ kernel \in Kernels /\ block.total \in Nat /\ block'.total \in Nat
      /\ kernel.extension \in Nat /\ block.ending \in BOOLEAN /\ block'.ending \in BOOLEAN
  BY KernelConstants DEF BlockSound, BlockFields
<1>2. /\ Duration(kernel, block.total) \in Nat /\ Duration(kernel, block'.total) \in Nat
      /\ Duration(kernel, block.total) <= Duration(kernel, block'.total)
  BY <1>1, DurationGrows
<1>3. Budget = Duration(kernel, block.total) + (IF block.ending THEN kernel.extension ELSE 0)
  BY DEF Budget, OutputFrames, Duration
<1>4. Budget' = Duration(kernel, block'.total) + (IF block'.ending THEN kernel.extension ELSE 0)
  BY DEF Budget, OutputFrames, Duration
<1> QED BY <1>1, <1>2, <1>3, <1>4

\* A concatenation, a split, and a run of numbers, element by element.
LEMMA Joined ==
  ASSUME NEW s \in Seq(Int), NEW t \in Seq(Int)
  PROVE  /\ s \o t \in Seq(Int) /\ Len(s \o t) = Len(s) + Len(t)
         /\ \A i \in 1..Len(s \o t) : (s \o t)[i] = IF i <= Len(s) THEN s[i] ELSE t[i - Len(s)]
OBVIOUS

\* A sequence parted after its first `n` elements.
LEMMA Parted ==
  ASSUME NEW s \in Seq(Int), NEW n \in 1..Len(s)
  PROVE  /\ SubSeq(s, n + 1, Len(s)) \in Seq(Int) /\ Len(SubSeq(s, n + 1, Len(s))) = Len(s) - n
         /\ \A i \in 1..Len(SubSeq(s, n + 1, Len(s))) : SubSeq(s, n + 1, Len(s))[i] = s[n + i]
         /\ SubSeq(s, 1, n) \in Seq(Int) /\ DOMAIN SubSeq(s, 1, n) = 1..n
         /\ \A i \in 1..n : SubSeq(s, 1, n)[i] = s[i]
OBVIOUS

\* A run of consecutive numbers.
LEMMA NumbersAre ==
  ASSUME NEW from \in Int, NEW count \in Nat
  PROVE  /\ Numbers(from, count) \in Seq(Int) /\ Len(Numbers(from, count)) = count
         /\ \A i \in 1..count : Numbers(from, count)[i] = from + i - 1
BY DEF Numbers

\* The call that ends leaves the buffers as they are.
LEMMA ReturnTypes ==
  ASSUME NEW result \in Results \ {"error"}, Return(result)
  PROVE  call' \in CallFields /\ call'.kind = "none" /\ call'.result # "error"
BY DEF Return, NoCall, CallFields, Results

\* What a step that only counts the call leaves true.
LEMMA SameBlock ==
  ASSUME BlockSound, UNCHANGED <<kernel, block, runs, inOrder>>
  PROVE  /\ kernel' \in Kernels /\ runs' \in Nat /\ inOrder' = TRUE /\ block' \in BlockFields
         /\ Accounted(block)' /\ Fed(block)'
         /\ Budget' = Budget /\ Given(runs)' = Given(runs)
BY DEF BlockSound, Accounted, Fed, Given, Budget, OutputFrames

\* `accept` and the copy behind it.
LEMMA CollectedSound ==
  ASSUME BlockSound, ~block.finishing, block' = Collected, UNCHANGED <<kernel, runs, inOrder>>
  PROVE  /\ kernel' \in Kernels /\ runs' \in Nat /\ inOrder' = TRUE /\ block' \in BlockFields
         /\ Accounted(block)' /\ Fed(block)' /\ block'.emitted <= Budget'
         /\ block'.finishing = block.finishing /\ block'.ending = block.ending
         /\ block'.finished = block.finished /\ Accepted \in Nat
<1>1. /\ block \in BlockFields /\ call.input \in Nat /\ kernel.block \in Nat /\ runs \in Nat
      /\ kernel \in Kernels
  BY KernelConstants DEF BlockSound, CallFields
<1>2. /\ block.total = runs * kernel.block + Len(block.input) /\ Len(block.input) <= kernel.block
      /\ \A i \in 1..Len(block.input) : block.input[i] = runs * kernel.block + i - 1
      /\ block.total \in Nat /\ block.input \in Seq(Int) /\ runs * kernel.block \in Nat
  BY <1>1, ProductNat DEF BlockSound, Fed, BlockFields
<1>3. Accepted \in Nat /\ Accepted <= kernel.block - Len(block.input) /\ Len(block.input) \in Nat
  <2>1. Len(block.input) \in Nat
    BY <1>2
  <2>2. kernel.block - Len(block.input) \in Nat
    BY <1>1, <1>2, <2>1
  <2> QED BY <1>1, <2>1, <2>2 DEF Accepted, Fewer
<1> DEFINE more == Numbers(block.total, Accepted)
<1>4. /\ more \in Seq(Int) /\ Len(more) = Accepted
      /\ \A i \in 1..Accepted : more[i] = block.total + i - 1
  <2>1. block.total \in Int /\ Accepted \in Nat
    BY <1>2, <1>3
  <2> HIDE DEF Accepted
  <2> QED BY <2>1, NumbersAre
<1>5. block' = [block EXCEPT !.input = @ \o more, !.total = @ + Accepted]
  BY DEF Collected
<1> HIDE DEF more
<1> DEFINE input == block.input \o more
<1>6. /\ input \in Seq(Int) /\ Len(input) = Len(block.input) + Accepted
      /\ \A i \in 1..Len(input) :
           input[i] = IF i <= Len(block.input) THEN block.input[i] ELSE more[i - Len(block.input)]
  <2>1. block.input \in Seq(Int) /\ more \in Seq(Int) /\ Len(more) = Accepted
    BY <1>2, <1>4
  <2> QED BY <2>1, Joined
<1>7. /\ block' \in BlockFields /\ block'.input = input /\ block'.total = block.total + Accepted
      /\ block'.skip = block.skip /\ block'.emitted = block.emitted /\ block'.pending = block.pending
      /\ block'.finishing = block.finishing /\ block'.ending = block.ending
      /\ block'.finished = block.finished
  <2>1. block.total + Accepted \in Nat
    BY <1>2, <1>3
  <2> HIDE DEF input
  <2> QED BY <1>1, <1>5, <1>6, <2>1 DEF BlockFields, input
<1> HIDE DEF input
<1>8. ASSUME NEW i \in 1..Len(input)
      PROVE  input[i] = runs * kernel.block + i - 1
  <2>1. CASE i <= Len(block.input)
    BY <1>2, <1>6, <2>1
  <2>2. CASE i > Len(block.input)
    <3>1. i - Len(block.input) \in 1..Accepted
      BY <1>2, <1>3, <1>6, <2>2
    <3>2. more[i - Len(block.input)] = block.total + (i - Len(block.input)) - 1
      BY <1>4, <3>1
    <3> QED BY <1>2, <1>6, <2>2, <3>2
  <2> QED BY <1>2, <1>6, <2>1, <2>2
<1>9. Fed(block)'
  <2>1. block.total + Accepted = runs * kernel.block + Len(input) /\ Len(input) <= kernel.block
    <3> DEFINE fed == runs * kernel.block
    <3>1. /\ fed \in Nat /\ kernel.block \in Nat /\ Accepted \in Nat /\ Len(block.input) \in Nat
          /\ block.total = fed + Len(block.input) /\ Len(input) = Len(block.input) + Accepted
          /\ Accepted <= kernel.block - Len(block.input)
      BY <1>1, <1>2, <1>3, <1>6
    <3> HIDE DEF fed
    <3>2. block.total + Accepted = fed + Len(input) /\ Len(input) <= kernel.block
      BY <3>1
    <3> QED BY <3>2 DEF fed
  <2> QED BY <1>7, <1>8, <2>1 DEF Fed
<1>10. Accounted(block)'
  BY <1>7 DEF BlockSound, Accounted, Given
<1>11. block'.emitted <= Budget'
  <2>1. block'.total >= block.total
    BY <1>2, <1>3, <1>7
  <2>2. Budget \in Nat /\ Budget' \in Nat /\ Budget <= Budget'
    BY <1>7, <2>1, BudgetGrows, BudgetIs
  <2> QED BY <1>1, <1>7, <2>2 DEF BlockSound, Ends, BlockFields
<1> QED BY <1>3, <1>7, <1>9, <1>10, <1>11 DEF BlockSound

\* What came out is what was given less what was dropped and what is pending.
LEMMA EmittedIs ==
  ASSUME BlockSound
  PROVE  /\ Len(block.pending) \in Nat /\ Given(runs) \in Nat /\ block.emitted \in Nat
         /\ block.emitted + Len(block.pending) <= Given(runs)
         /\ Given(runs) <= kernel.skip + block.emitted + Len(block.pending)
<1>1. /\ block.emitted \in Nat /\ block.skip \in Nat /\ block.pending \in Seq(Int)
      /\ kernel \in Kernels /\ runs \in Nat /\ kernel.skip \in Nat
  BY KernelConstants DEF BlockSound, BlockFields
<1>2. GivenBy(kernel, runs) \in Nat
  BY <1>1, KernelGives
<1>3. Len(block.pending) \in Nat
  BY <1>1
<1>4. /\ block.skip <= kernel.skip
      /\ kernel.skip - block.skip + block.emitted + Len(block.pending) = Given(runs)
  BY DEF BlockSound, Accounted
<1> QED BY <1>1, <1>2, <1>3, <1>4 DEF Given

\* A run that is fed what comes next keeps it all.
LEMMA RunSound ==
  ASSUME BlockSound, NEW frames, NEW b \in BlockFields, NEW input \in Nat,
         b.skip = block.skip, b.emitted = block.emitted, b.pending = <<>>, block.pending = <<>>,
         b.ending = block.ending, b.finishing = block.finishing, b.finished = block.finished,
         b.input = <<>>, b.total >= block.total,
         \/ b.total = (runs + 1) * kernel.block
         \/ block.finishing /\ b.total <= (runs + 1) * kernel.block,
         ~block.finished, call.kind = "finish" => call.stalled < StallLimit,
         Working, FedInOrder(frames, b.total), Run(frames, b, input)
  PROVE  BlockSound'
<1>1. /\ runs' = runs + 1 /\ kernel' = kernel /\ inOrder' = TRUE
      /\ block' \in BlockFields /\ call' \in CallFields
      /\ block'.input = b.input /\ block'.total = b.total /\ block'.ending = b.ending
      /\ block'.finishing = b.finishing /\ block'.finished = b.finished
      /\ call'.kind = call.kind /\ call'.result = call.result
      /\ Accounted(block)'
      /\ \/ block'.emitted = block.emitted /\ call'.stalled = call.stalled + 1
         \/ call.kind = "process" /\ block'.emitted <= Duration(kernel, b.total)
  BY RunAccounts
<1>2. kernel \in Kernels /\ runs \in Nat /\ kernel.block \in Nat /\ call \in CallFields
  BY KernelConstants DEF BlockSound
<1>3. Fed(block)'
  <2>1. Len(<<>>) = 0
    OBVIOUS
  <2>2. \/ block'.total = runs' * kernel'.block
        \/ block'.finishing /\ block'.total <= runs' * kernel'.block
    BY <1>1
  <2>3. block'.input = <<>>
    BY <1>1
  <2>4. runs' * kernel'.block \in Nat
    BY <1>1, <1>2, ProductNat
  <2>5. runs' * kernel'.block = runs' * kernel'.block + 0 /\ 0 <= kernel'.block
    BY <1>1, <1>2, <2>4
  <2> QED BY <2>1, <2>2, <2>3, <2>5 DEF Fed
<1>4. Ends'
  <2>1. block'.total >= block.total /\ (block'.ending = block.ending \/ block'.ending)
    BY <1>1
  <2>2. Budget' \in Nat /\ Budget <= Budget' /\ Duration(kernel, block'.total) <= Budget'
    BY <1>1, <2>1, BudgetGrows
  <2>3. Budget \in Nat /\ Duration(kernel, b.total) \in Nat /\ b.total \in Nat
    <3>1. b.total \in Nat
      BY DEF BlockFields
    <3> QED BY <1>2, <3>1, BudgetIs, DurationGrows
  <2>4. block'.emitted \in Nat /\ block.emitted \in Nat /\ block.emitted <= Budget
    BY <1>1 DEF BlockSound, Ends, BlockFields
  <2>5. block'.emitted <= Budget'
    BY <1>1, <2>2, <2>3, <2>4
  <2> QED BY <1>1, <2>5 DEF BlockSound, Ends
<1>5. Patient'
  <2> SUFFICES ASSUME call.kind = "finish"
               PROVE  /\ call'.stalled \in -1..StallLimit /\ call'.stalled <= runs'
                      /\ call'.stalled >= 0 => block'.emitted <= Given(runs - call.stalled)
    <3>1. call'.stalled = call.stalled + 1 /\ call.stalled \in Int => runs' - call'.stalled = runs - call.stalled
      BY <1>1, <1>2
    <3>2. call.kind = "finish" => call'.stalled = call.stalled + 1
      BY <1>1
    <3>3. call.stalled \in Int
      BY <1>2 DEF CallFields
    <3> QED BY <1>1, <3>1, <3>2, <3>3 DEF Patient, Given
  <2>1. /\ call'.stalled = call.stalled + 1 /\ block'.emitted = block.emitted
        /\ call.stalled \in -1..StallLimit /\ call.stalled < StallLimit /\ call.stalled <= runs
        /\ call.stalled >= 0 => block.emitted <= Given(runs - call.stalled)
        /\ StallLimit \in Nat
    BY <1>1, BlockAssumption DEF BlockSound, Patient
  <2>2. call'.stalled \in -1..StallLimit /\ call'.stalled <= runs'
    BY <1>1, <1>2, <2>1
  <2>3. CASE call.stalled >= 0
    BY <2>1, <2>2, <2>3
  <2>4. CASE call.stalled = -1
    <3>1. block.emitted <= Given(runs)
      BY EmittedIs
    <3>2. GivenBy(kernel, runs) + GivenBy(kernel, 1) <= GivenBy(kernel, runs + 1)
      BY <1>2, KernelGives
    <3>3. GivenBy(kernel, runs) \in Nat /\ GivenBy(kernel, runs + 1) \in Nat /\ GivenBy(kernel, 1) \in Nat
      <4>1. runs + 1 \in Nat /\ 1 \in Nat
        BY <1>2
      <4> QED BY <1>2, <4>1, KernelGives
    <3>4. runs - call.stalled = runs + 1
      BY <1>2, <2>4
    <3>5. block.emitted <= GivenBy(kernel, runs + 1)
      BY <3>1, <3>2, <3>3, EmittedIs DEF Given
    <3> QED BY <2>1, <2>2, <3>4, <3>5 DEF Given
  <2> QED BY <2>1, <2>3, <2>4
<1> QED BY <1>1, <1>2, <1>3, <1>4, <1>5 DEF BlockSound

\* A call of `process`, refused or begun, keeps the backend sound.
LEMMA CallProcessSound ==
  ASSUME BlockSound, NEW input \in CallInputs, NEW room \in CallOutputs, CallProcess(input, room)
  PROVE  BlockSound'
<1>1. UNCHANGED <<kernel, block, runs, inOrder>> /\ input \in Nat /\ room \in Nat
  BY BlockAssumption DEF CallProcess
<1>2. /\ kernel' \in Kernels /\ runs' \in Nat /\ inOrder' = TRUE /\ block' \in BlockFields
      /\ Accounted(block)' /\ Fed(block)' /\ Budget' = Budget
  BY <1>1, SameBlock
<1>3. /\ call' \in CallFields /\ call'.result # "error" /\ call'.kind # "finish"
      /\ call'.kind = "process" => ~block.finishing
  <2>1. /\ "refused" \in Results \ {"error"} /\ "need_input" \in Results \ {"error"}
        /\ "need_output" \in Results \ {"error"}
    BY DEF Results
  <2>2. CASE call' = [NoCall EXCEPT !.kind = "process", !.input = input, !.room = room, !.left = room]
            /\ ~block.finishing
    <3>1. call' = [kind |-> "process", input |-> input, room |-> room, left |-> room,
                   stalled |-> 0, result |-> "none"]
      BY <2>2 DEF NoCall
    <3>2. input \in Nat /\ room \in Nat /\ ~block.finishing
      BY <1>1, <2>2
    <3> QED BY <3>1, <3>2 DEF CallFields, Results
  <2>3. CASE Return("refused") \/ Return("need_input") \/ Return("need_output")
    <3>1. call' \in CallFields /\ call'.kind = "none" /\ call'.result # "error"
      BY <2>1, <2>3, ReturnTypes
    <3> QED BY <3>1
  <2> QED BY <2>2, <2>3 DEF CallProcess
<1>4. Ends' /\ Patient'
  BY <1>1, <1>2, <1>3 DEF BlockSound, Ends, Patient
<1> QED BY <1>2, <1>3, <1>4 DEF BlockSound

\* A call of `finish` keeps the backend sound, whatever the room.
LEMMA CallFinishSound ==
  ASSUME BlockSound, NEW room \in CallOutputs, CallFinish(room)
  PROVE  BlockSound'
<1>1. UNCHANGED <<kernel, runs, inOrder>> /\ room \in Nat
  BY BlockAssumption DEF CallFinish
<1>2. CASE block.finished
  <2>1. UNCHANGED block /\ Return("finished")
    BY <1>2 DEF CallFinish
  <2>2. /\ kernel' \in Kernels /\ runs' \in Nat /\ inOrder' = TRUE /\ block' \in BlockFields
        /\ Accounted(block)' /\ Fed(block)' /\ Budget' = Budget
    BY <1>1, <2>1, SameBlock
  <2>3. call' \in CallFields /\ call'.kind = "none" /\ call'.result # "error"
    <3>1. "finished" \in Results \ {"error"}
      BY DEF Results
    <3> QED BY <2>1, <3>1, ReturnTypes
  <2> QED BY <2>1, <2>2, <2>3 DEF BlockSound, Ends, Patient
<1>3. CASE ~block.finished
  <2>1. /\ block' = [block EXCEPT !.finishing = TRUE, !.ending = @ \/ room > 0]
        /\ IF room = 0 THEN Return("need_output")
           ELSE call' = [NoCall EXCEPT !.kind = "finish", !.room = room, !.left = room]
    BY <1>3 DEF CallFinish
  <2>2. block \in BlockFields
    BY DEF BlockSound
  <2>3. (block.ending \/ room > 0) \in BOOLEAN
    OBVIOUS
  <2>4. /\ block' \in BlockFields /\ block'.input = block.input /\ block'.pending = block.pending
        /\ block'.skip = block.skip /\ block'.total = block.total /\ block'.emitted = block.emitted
        /\ block'.ending = (block.ending \/ room > 0) /\ block'.finishing = TRUE
        /\ block'.finished = block.finished
    <3> DEFINE ending == block.ending \/ room > 0
    <3>1. block' = [block EXCEPT !.finishing = TRUE, !.ending = ending]
      BY <2>1, <2>2 DEF BlockFields
    <3>2. ending \in BOOLEAN
      OBVIOUS
    <3> HIDE DEF ending
    <3>3. /\ block' \in BlockFields /\ block'.input = block.input /\ block'.pending = block.pending
          /\ block'.skip = block.skip /\ block'.total = block.total /\ block'.emitted = block.emitted
          /\ block'.ending = ending /\ block'.finishing = TRUE /\ block'.finished = block.finished
      BY <2>2, <3>1, <3>2 DEF BlockFields
    <3> QED BY <3>3 DEF ending
  <2>5. Accounted(block)' /\ Fed(block)'
    BY <1>1, <2>4 DEF BlockSound, Accounted, Fed, Given
  <2>6. /\ call' \in CallFields /\ call'.result # "error" /\ call'.kind # "process"
        /\ call'.kind = "finish" => room > 0 /\ call'.stalled = 0
    <3>1. "need_output" \in Results \ {"error"}
      BY DEF Results
    <3>2. CASE room = 0
      <4>1. call' \in CallFields /\ call'.kind = "none" /\ call'.result # "error"
        BY <2>1, <3>1, <3>2, ReturnTypes
      <4> QED BY <4>1
    <3>3. CASE room # 0
      <4>1. call' = [NoCall EXCEPT !.kind = "finish", !.room = room, !.left = room]
        BY <2>1, <3>3
      <4>2. call' = [kind |-> "finish", input |-> 0, room |-> room, left |-> room,
                     stalled |-> 0, result |-> "none"]
        BY <4>1 DEF NoCall
      <4> QED BY <1>1, <3>3, <4>2 DEF CallFields, Results
    <3> QED BY <3>2, <3>3
  <2>7. Ends'
    <3>1. block'.total >= block.total
      BY <2>2, <2>4 DEF BlockFields
    <3>2. Budget' \in Nat /\ Budget \in Nat /\ Budget <= Budget'
      <4>1. kernel' = kernel /\ block' \in BlockFields /\ (block'.ending = block.ending \/ block'.ending)
        BY <1>1, <2>2, <2>4 DEF BlockFields
      <4> QED BY <3>1, <4>1, BudgetGrows, BudgetIs
    <3>3. block'.emitted <= Budget'
      BY <2>2, <2>4, <3>2 DEF BlockSound, Ends, BlockFields
    <3> QED BY <1>3, <2>4, <2>6, <3>3 DEF Ends
  <2>8. Patient'
    <3>1. runs \in Nat /\ runs - 0 = runs /\ StallLimit \in Nat
      BY BlockAssumption DEF BlockSound
    <3>2. block.emitted <= Given(runs)
      BY EmittedIs
    <3>3. 0 \in -1..StallLimit
      BY <3>1
    <3> QED BY <1>1, <2>4, <2>6, <3>1, <3>2, <3>3 DEF Patient, Given
  <2> QED BY <1>1, <2>4, <2>5, <2>6, <2>7, <2>8 DEF BlockSound
<1> QED BY <1>2, <1>3

\* A fresh stream is sound, the first one and the one after a reset.
LEMMA FreshSound == BlockInit => BlockSound
<1> SUFFICES ASSUME BlockInit PROVE BlockSound
  OBVIOUS
<1>1. kernel \in Kernels /\ block = FreshBlock(kernel) /\ call = NoCall /\ runs = 0 /\ inOrder = TRUE
  BY DEF BlockInit
<1>2. kernel.skip \in Nat /\ kernel.extension \in Nat /\ kernel.block \in Nat
  BY <1>1, KernelConstants
<1>3. /\ block.input = <<>> /\ block.pending = <<>> /\ block.skip = kernel.skip
      /\ block.total = 0 /\ block.emitted = 0 /\ block.ending = FALSE
      /\ block.finishing = FALSE /\ block.finished = FALSE /\ block \in BlockFields
  BY <1>1, <1>2 DEF FreshBlock, BlockFields
<1>4. GivenBy(kernel, 0) = 0 /\ Duration(kernel, 0) \in Nat
  <2>1. 0 \in Nat
    OBVIOUS
  <2> QED BY <1>1, <2>1, KernelGives, DurationGrows
<1>5. Accounted(block)
  <2>1. Len(<<>>) = 0 /\ kernel.skip - kernel.skip + 0 + 0 = 0 /\ 1..0 = {}
    BY <1>2
  <2> QED BY <1>1, <1>2, <1>3, <1>4, <2>1 DEF Accounted, Given
<1>6. Fed(block)
  BY <1>1, <1>2, <1>3 DEF Fed
<1>7. Budget = Duration(kernel, 0)
  BY <1>3, <1>4 DEF Budget, OutputFrames, Duration
<1>8. call \in CallFields /\ call.kind = "none" /\ call.result = "none"
  BY <1>1 DEF NoCall, CallFields, Results
<1>9. Ends /\ Patient
  BY <1>3, <1>4, <1>7, <1>8 DEF Ends, Patient
<1> QED BY <1>1, <1>3, <1>5, <1>6, <1>8, <1>9 DEF BlockSound

\* The same of the next state.
LEMMA FreshAgain == BlockInit' => BlockSound'
BY FreshSound, PTL

\* Frames that are flushed come out in order and within the budget.
LEMMA FlushSound ==
  ASSUME BlockSound, Flush
  PROVE  BlockSound'
<1> DEFINE n == Flushable
<1>1. /\ block' = [block EXCEPT !.pending = SubSeq(@, n + 1, Len(@)), !.emitted = @ + n]
      /\ call' = [call EXCEPT !.left = @ - n, !.stalled = -1]
      /\ inOrder' = (inOrder /\ OutInOrder(SubSeq(block.pending, 1, n)))
      /\ kernel' = kernel /\ runs' = runs
  BY DEF Flush
<1>2. /\ block \in BlockFields /\ call \in CallFields /\ kernel \in Kernels /\ runs \in Nat
      /\ Accounted(block) /\ Fed(block) /\ inOrder = TRUE /\ call.result # "error"
  BY DEF BlockSound
<1>3. /\ n \in Nat /\ n > 0 /\ n <= Len(block.pending) /\ n <= call.left
      /\ block.emitted + n <= Budget
  <2>1. call.left \in Nat /\ Len(block.pending) \in Nat /\ block.emitted \in Nat
    BY <1>2, EmittedIs DEF CallFields
  <2>2. Left \in Nat /\ Budget \in Nat /\ (Left > 0 => Left = Budget - block.emitted)
    BY BudgetIs
  <2>3. n > 0
    BY DEF Flush
  <2>4. n \in Nat /\ n <= Len(block.pending) /\ n <= call.left /\ n <= Left
    BY <2>1, <2>2 DEF Flushable, Fewer
  <2> HIDE DEF n
  <2> QED BY <2>1, <2>2, <2>3, <2>4
<1> HIDE DEF n
<1> DEFINE rest == SubSeq(block.pending, n + 1, Len(block.pending))
           given == SubSeq(block.pending, 1, n)
<1>4. /\ block.pending \in Seq(Int) /\ block.emitted \in Nat /\ block.skip \in Nat
      /\ block.skip <= kernel.skip /\ kernel.skip \in Nat
      /\ \A i \in 1..Len(block.pending) : block.pending[i] = kernel.skip + block.emitted + i - 1
      /\ kernel.skip - block.skip + block.emitted + Len(block.pending) = Given(runs)
      /\ Len(block.pending) \in Nat
  BY <1>2, KernelConstants, EmittedIs DEF Accounted, BlockFields
<1>5. /\ rest \in Seq(Int) /\ Len(rest) = Len(block.pending) - n
      /\ \A i \in 1..Len(rest) : rest[i] = block.pending[n + i]
      /\ given \in Seq(Int) /\ DOMAIN given = 1..n
      /\ \A i \in 1..n : given[i] = block.pending[i]
  <2>1. block.pending \in Seq(Int) /\ n \in 1..Len(block.pending)
    BY <1>3, <1>4
  <2> QED BY <2>1, Parted
<1>6. block.skip = 0
  BY <1>2, <1>3, <1>4 DEF Accounted
<1>7. OutInOrder(given)
  <2> HIDE DEF given
  <2>1. ASSUME NEW i \in 1..n PROVE given[i] = kernel.skip + block.emitted + i - 1
    <3>1. i \in 1..Len(block.pending)
      BY <1>3, <1>4
    <3> QED BY <1>4, <1>5, <3>1
  <2> QED BY <1>5, <2>1 DEF OutInOrder
<1>8. /\ block' \in BlockFields /\ block'.pending = rest /\ block'.emitted = block.emitted + n
      /\ block'.input = block.input /\ block'.skip = block.skip /\ block'.total = block.total
      /\ block'.ending = block.ending /\ block'.finishing = block.finishing
      /\ block'.finished = block.finished
  <2>1. block.emitted + n \in Nat
    BY <1>3, <1>4
  <2> HIDE DEF rest
  <2>2. block' = [block EXCEPT !.pending = rest, !.emitted = block.emitted + n]
    BY <1>1 DEF rest
  <2> QED BY <1>2, <1>5, <2>1, <2>2 DEF BlockFields
<1>9. /\ call' \in CallFields /\ call'.kind = call.kind /\ call'.result = call.result
      /\ call'.stalled = -1
  <2>1. call.left - n \in Nat
    <3>1. call.left \in Nat
      BY <1>2 DEF CallFields
    <3> QED BY <1>3, <3>1
  <2> DEFINE left == call.left - n
  <2>2. call' = [call EXCEPT !.left = left, !.stalled = -1] /\ left \in Nat /\ -1 \in Int
    BY <1>1, <2>1
  <2> HIDE DEF left
  <2> QED BY <1>2, <2>2 DEF CallFields
<1>10. Accounted(block)'
  <2>1. \A i \in 1..Len(rest) : rest[i] = kernel.skip + (block.emitted + n) + i - 1
    <3> SUFFICES ASSUME NEW i \in 1..Len(rest)
                 PROVE  rest[i] = kernel.skip + (block.emitted + n) + i - 1
      OBVIOUS
    <3>1. rest[i] = block.pending[n + i] /\ n + i \in 1..Len(block.pending)
      BY <1>3, <1>4, <1>5
    <3> HIDE DEF rest
    <3>2. block.pending[n + i] = kernel.skip + block.emitted + (n + i) - 1
      BY <1>4, <3>1
    <3>3. i \in Int /\ n \in Int /\ kernel.skip \in Int /\ block.emitted \in Int
      BY <1>3, <1>4
    <3> QED BY <3>1, <3>2, <3>3
  <2> HIDE DEF rest
  <2>2. kernel.skip - block.skip + (block.emitted + n) + Len(rest) = Given(runs)
    <3>1. Len(rest) = Len(block.pending) - n /\ n \in Nat
      BY <1>3, <1>5
    <3> QED BY <1>4, <3>1
  <2>3. Given(runs)' = Given(runs)
    BY <1>1 DEF Given
  <2>4. block'.skip = 0 /\ 0 <= kernel'.skip
    BY <1>1, <1>4, <1>6, <1>8
  <2>5. kernel'.skip - block'.skip + block'.emitted + Len(block'.pending) = Given(runs)'
    BY <1>1, <1>8, <2>2, <2>3
  <2>6. \A i \in 1..Len(block'.pending) :
          block'.pending[i] = kernel'.skip + block'.emitted + i - 1
    BY <1>1, <1>8, <2>1
  <2>7. ~(block'.skip > 0) /\ block'.skip <= kernel'.skip
    BY <2>4
  <2> QED BY <2>5, <2>6, <2>7 DEF Accounted
<1>11. Fed(block)' /\ Budget' = Budget
  BY <1>1, <1>2, <1>8 DEF Fed, Budget, OutputFrames
<1>12. ~block.finished
  <2>1. Budget \in Nat
    BY BudgetIs
  <2> QED BY <1>3, <1>4, <2>1 DEF BlockSound, Ends
<1>13. Ends'
  BY <1>3, <1>8, <1>9, <1>11, <1>12 DEF BlockSound, Ends
<1>14. Patient'
  <2>1. StallLimit \in Nat /\ -1 \in -1..StallLimit
    BY BlockAssumption
  <2> QED BY <1>1, <1>2, <1>9, <2>1 DEF Patient
<1> QED BY <1>1, <1>2, <1>7, <1>8, <1>9, <1>10, <1>11, <1>13, <1>14 DEF BlockSound

\* Nothing can be flushed while there is room: nothing is pending, or nothing due.
LEMMA NothingFlushable ==
  ASSUME BlockSound, Working, Flushable = 0
  PROVE  block.pending = <<>> \/ Left = 0
<1>1. call.left \in Nat /\ call.left > 0
  BY DEF Working, BlockSound, CallFields
<1>2. Left \in Nat
  BY BudgetIs
<1>3. block.pending \in Seq(Int)
  BY DEF BlockSound, BlockFields
<1>4. Len(block.pending) \in Nat /\ (Len(block.pending) = 0 => block.pending = <<>>)
  BY <1>3
<1>5. Fewer(Fewer(Len(block.pending), call.left), Left) = 0
  BY DEF Flushable
<1> QED BY <1>1, <1>2, <1>4, <1>5 DEF Fewer

\* Types that the rounds need at hand.
LEMMA StreamNumbers ==
  ASSUME BlockSound
  PROVE  /\ runs \in Nat /\ kernel \in Kernels /\ kernel.block \in Nat \ {0}
         /\ runs * kernel.block \in Nat /\ (runs + 1) * kernel.block = runs * kernel.block + kernel.block
         /\ block \in BlockFields /\ block.total \in Nat /\ block.input \in Seq(Int)
         /\ call \in CallFields /\ call.input \in Nat /\ call.left \in Nat
<1>1. runs \in Nat /\ kernel \in Kernels /\ block \in BlockFields /\ call \in CallFields
  BY DEF BlockSound
<1>2. kernel.block \in Nat \ {0}
  BY <1>1, KernelConstants
<1>3. runs * kernel.block \in Nat
  BY <1>1, <1>2, ProductNat
<1>4. (runs + 1) * kernel.block = runs * kernel.block + kernel.block
  BY <1>1, <1>2
<1> QED BY <1>1, <1>2, <1>3, <1>4 DEF BlockFields, CallFields

\* The run of a collected block keeps the backend sound.
LEMMA RunCollectedSound ==
  ASSUME BlockSound, RunCollected
  PROVE  BlockSound'
<1> DEFINE b == [block EXCEPT !.input = <<>>]
<1>1. /\ Working /\ call.kind = "process" /\ Len(block.input) = kernel.block
      /\ block.pending = <<>> /\ Run(block.input, b, call.input)
  BY DEF RunCollected, Processing, Full, Busy
<1>2. ~block.finishing /\ ~block.finished
  BY <1>1 DEF BlockSound, Ends
<1>3. /\ b \in BlockFields /\ b.input = <<>> /\ b.skip = block.skip /\ b.emitted = block.emitted
      /\ b.pending = block.pending /\ b.total = block.total /\ b.ending = block.ending
      /\ b.finishing = block.finishing /\ b.finished = block.finished
  <2>1. <<>> \in Seq(Int) /\ block \in BlockFields
    BY StreamNumbers
  <2> QED BY <2>1 DEF BlockFields
<1> HIDE DEF b
<1>4. /\ block.total = runs * kernel.block + Len(block.input)
      /\ \A i \in 1..Len(block.input) : block.input[i] = runs * kernel.block + i - 1
  BY <1>2 DEF BlockSound, Fed
<1>5. b.total = (runs + 1) * kernel.block /\ b.total >= block.total
  BY <1>1, <1>3, <1>4, StreamNumbers
<1>6. FedInOrder(block.input, b.total)
  <2>1. ASSUME NEW i \in DOMAIN block.input
        PROVE  /\ block.input[i] = runs * kernel.block + i - 1
               /\ runs * kernel.block + i - 1 < b.total
    <3> DEFINE fed == runs * kernel.block
    <3>1. block.input \in Seq(Int) /\ fed \in Nat /\ kernel.block \in Nat
      BY StreamNumbers
    <3>2. i \in 1..kernel.block
      BY <1>1, <3>1
    <3>3. block.input[i] = fed + i - 1 /\ b.total = fed + kernel.block
      BY <1>1, <1>3, <1>4, <3>2
    <3> HIDE DEF fed
    <3>4. fed + i - 1 < fed + kernel.block
      BY <3>1, <3>2
    <3> QED BY <3>3, <3>4 DEF fed
  <2> QED BY <2>1 DEF FedInOrder
<1>7. call.input \in Nat /\ (call.kind = "finish" => call.stalled < StallLimit)
  BY <1>1, StreamNumbers
<1> QED BY <1>1, <1>2, <1>3, <1>5, <1>6, <1>7, RunSound

\* The run of a block straight from the caller keeps the backend sound.
LEMMA RunOfferedSound ==
  ASSUME BlockSound, RunOffered
  PROVE  BlockSound'
<1> DEFINE b == [block EXCEPT !.total = @ + kernel.block]
           frames == Numbers(block.total, kernel.block)
<1>1. /\ Working /\ call.kind = "process" /\ block.pending = <<>> /\ block.input = <<>>
      /\ call.input >= kernel.block /\ Run(frames, b, call.input - kernel.block)
  BY DEF RunOffered, Processing, Full, Busy
<1>2. ~block.finishing /\ ~block.finished
  BY <1>1 DEF BlockSound, Ends
<1>3. block.total + kernel.block \in Nat /\ call.input - kernel.block \in Nat
  BY <1>1, StreamNumbers
<1>4. /\ b \in BlockFields /\ b.input = block.input /\ b.skip = block.skip
      /\ b.emitted = block.emitted /\ b.pending = block.pending
      /\ b.total = block.total + kernel.block /\ b.ending = block.ending
      /\ b.finishing = block.finishing /\ b.finished = block.finished
  BY <1>3, StreamNumbers DEF BlockFields
<1> HIDE DEF b
<1>5. block.total = runs * kernel.block
  <2>1. block.total = runs * kernel.block + Len(<<>>) /\ Len(<<>>) = 0
    BY <1>1, <1>2 DEF BlockSound, Fed
  <2> QED BY <2>1, StreamNumbers
<1>6. b.total = (runs + 1) * kernel.block /\ b.total >= block.total
  BY <1>4, <1>5, StreamNumbers
<1>7. /\ DOMAIN frames = 1..kernel.block
      /\ \A i \in 1..kernel.block : frames[i] = block.total + i - 1
  BY DEF Numbers
<1> HIDE DEF frames
<1>8. FedInOrder(frames, b.total)
  <2>1. ASSUME NEW i \in 1..kernel.block
        PROVE  /\ frames[i] = runs * kernel.block + i - 1
               /\ runs * kernel.block + i - 1 < b.total
    BY <1>4, <1>5, <1>7, StreamNumbers
  <2> QED BY <1>7, <2>1 DEF FedInOrder
<1>9. call.kind = "finish" => call.stalled < StallLimit
  BY <1>1
<1> QED BY <1>1, <1>2, <1>3, <1>4, <1>6, <1>8, <1>9, RunSound

\* A round of `process` that can neither flush, run nor accept does not happen.
LEMMA NeverStuck ==
  ASSUME BlockSound, Processing, call.input > 0, ~(Full /\ ~Busy)
  PROVE  Accepted # 0
<1> SUFFICES ASSUME Accepted = 0 PROVE FALSE
  OBVIOUS
<1>1. ~block.finishing /\ ~block.ending /\ Working /\ Flushable = 0
  BY DEF Processing, BlockSound, Ends
<1>2. block.total = runs * kernel.block + Len(block.input) /\ Len(block.input) <= kernel.block
  BY <1>1 DEF BlockSound, Fed
<1>3. Len(block.input) = kernel.block
  <2>1. Len(block.input) \in Nat /\ kernel.block \in Nat /\ call.input \in Nat
    BY StreamNumbers
  <2>2. Fewer(kernel.block - Len(block.input), call.input) = 0
    BY DEF Accepted
  <2> QED BY <1>2, <2>1, <2>2 DEF Fewer
<1>4. block.pending # <<>> /\ Left = 0
  BY <1>1, <1>3, NothingFlushable DEF Full, Busy
<1>5. Len(block.pending) > 0
  <2>1. block.pending \in Seq(Int)
    BY DEF BlockSound, BlockFields
  <2> QED BY <1>4, <2>1
<1>6. Budget = Duration(kernel, block.total)
  BY <1>1, BudgetIs, StreamNumbers DEF Budget
<1>7. Given(runs) <= Duration(kernel, block.total)
  <2> DEFINE fed == runs * kernel.block
  <2>1. fed \in Nat /\ fed <= block.total /\ block.total \in Nat
    BY <1>2, <1>3, StreamNumbers
  <2>2. Given(runs) <= Duration(kernel, fed) /\ Duration(kernel, fed) \in Nat
    BY <2>1, StreamNumbers, DurationGrows DEF Given
  <2>3. Duration(kernel, fed) <= Duration(kernel, block.total)
    BY <2>1, StreamNumbers, DurationGrows
  <2>4. Duration(kernel, block.total) \in Nat /\ Given(runs) \in Nat
    BY <2>1, StreamNumbers, DurationGrows, EmittedIs
  <2> QED BY <2>2, <2>3, <2>4
<1> QED
  <2>1. Budget \in Nat /\ ~(Budget > block.emitted)
    BY <1>4, BudgetIs, EmittedIs DEF Left
  <2> QED BY <1>5, <1>6, <1>7, <2>1, EmittedIs

\* Collecting input keeps the backend sound, and is never stuck.
LEMMA CollectSound ==
  ASSUME BlockSound, Collect
  PROVE  BlockSound'
<1>1. Accepted # 0 /\ call.kind = "process"
  BY NeverStuck DEF Collect, Processing
<1>2. /\ block' = Collected /\ call' = [call EXCEPT !.input = @ - Accepted]
      /\ UNCHANGED <<kernel, runs, inOrder>>
  BY <1>1 DEF Collect
<1>3. ~block.finishing
  BY <1>1 DEF BlockSound, Ends
<1>4. /\ kernel' \in Kernels /\ runs' \in Nat /\ inOrder' = TRUE /\ block' \in BlockFields
      /\ Accounted(block)' /\ Fed(block)' /\ block'.emitted <= Budget'
      /\ block'.finishing = block.finishing /\ block'.ending = block.ending
      /\ block'.finished = block.finished
  BY <1>2, <1>3, CollectedSound
<1>5. call' \in CallFields /\ call'.kind = call.kind /\ call'.result = call.result
  <2> DEFINE left == call.input - Accepted
  <2>1. left \in Nat
    <3>1. Len(block.input) \in Nat /\ kernel.block \in Nat /\ call.input \in Nat
      BY StreamNumbers
    <3>2. Accepted <= call.input /\ Accepted \in Int
      BY <3>1 DEF Accepted, Fewer
    <3>3. Accepted \in Nat
      BY <1>2, <1>3, CollectedSound
    <3> QED BY <3>1, <3>2, <3>3
  <2>2. call' = [call EXCEPT !.input = left] /\ call \in CallFields
    BY <1>2, StreamNumbers
  <2> HIDE DEF left
  <2> QED BY <2>1, <2>2 DEF CallFields
<1> QED BY <1>1, <1>3, <1>4, <1>5 DEF BlockSound, Ends, Patient

\* The end of a call of `process` keeps the backend sound.
LEMMA ProcessReturnsSound ==
  ASSUME BlockSound, ProcessReturns
  PROVE  BlockSound'
<1>1. call.kind = "process" /\ UNCHANGED <<kernel, runs, inOrder>>
  BY DEF ProcessReturns
<1>2. ~block.finishing /\ ~block.finished
  BY <1>1 DEF BlockSound, Ends
<1>3. Return("need_input") \/ Return("need_output")
  BY DEF ProcessReturns
<1>4. call' \in CallFields /\ call'.kind = "none" /\ call'.result # "error"
  <2>1. "need_input" \in Results \ {"error"} /\ "need_output" \in Results \ {"error"}
    BY DEF Results
  <2> QED BY <1>3, <2>1, ReturnTypes
<1>5. CASE UNCHANGED block
  <2>1. /\ kernel' \in Kernels /\ runs' \in Nat /\ inOrder' = TRUE /\ block' \in BlockFields
        /\ Accounted(block)' /\ Fed(block)' /\ Budget' = Budget
    BY <1>1, <1>5, SameBlock
  <2> QED BY <1>4, <1>5, <2>1 DEF BlockSound, Ends, Patient
<1>6. CASE block' = Collected
  <2>1. /\ kernel' \in Kernels /\ runs' \in Nat /\ inOrder' = TRUE /\ block' \in BlockFields
        /\ Accounted(block)' /\ Fed(block)' /\ block'.emitted <= Budget'
        /\ block'.finishing = block.finishing /\ block'.ending = block.ending
        /\ block'.finished = block.finished
    BY <1>1, <1>2, <1>6, CollectedSound
  <2> QED BY <1>2, <1>4, <2>1 DEF BlockSound, Ends, Patient
<1> QED BY <1>5, <1>6 DEF ProcessReturns

\* The end of a call of `finish` keeps it sound, and finishes on the last frame.
LEMMA FinishReturnsSound ==
  ASSUME BlockSound, FinishReturns
  PROVE  BlockSound'
<1>1. call.kind = "finish" /\ UNCHANGED <<kernel, runs, inOrder>>
  BY DEF FinishReturns
<1>2. block.ending /\ block.finishing /\ ~block.finished
  BY <1>1 DEF BlockSound, Ends
<1>3. Return("need_output") \/ Return("finished")
  BY DEF FinishReturns
<1>4. call' \in CallFields /\ call'.kind = "none" /\ call'.result # "error"
  <2>1. "need_output" \in Results \ {"error"} /\ "finished" \in Results \ {"error"}
    BY DEF Results
  <2> QED BY <1>3, <2>1, ReturnTypes
<1>5. CASE call.left = 0
  <2>0. UNCHANGED block
    BY <1>5 DEF FinishReturns
  <2>1. /\ kernel' \in Kernels /\ runs' \in Nat /\ inOrder' = TRUE /\ block' \in BlockFields
        /\ Accounted(block)' /\ Fed(block)' /\ Budget' = Budget
    BY <1>1, <2>0, SameBlock
  <2> QED BY <1>4, <2>0, <2>1 DEF BlockSound, Ends, Patient
<1>6. CASE call.left # 0
  <2>1. block' = [block EXCEPT !.finished = TRUE] /\ Left = 0
    BY <1>6 DEF FinishReturns
  <2>2. /\ block' \in BlockFields /\ block'.input = block.input /\ block'.pending = block.pending
        /\ block'.skip = block.skip /\ block'.total = block.total /\ block'.emitted = block.emitted
        /\ block'.ending = block.ending /\ block'.finishing = block.finishing
        /\ block'.finished = TRUE
    BY <2>1, StreamNumbers DEF BlockFields
  <2>3. Accounted(block)' /\ Fed(block)' /\ Budget' = Budget
    BY <1>1, <2>2 DEF BlockSound, Accounted, Fed, Given, Budget, OutputFrames
  <2>4. block.emitted = Budget
    <3>1. Budget \in Nat /\ block.emitted \in Nat /\ block.emitted <= Budget
      BY BudgetIs, EmittedIs DEF BlockSound, Ends
    <3>2. ~(Budget > block.emitted)
      BY <2>1, <3>1 DEF Left
    <3> QED BY <3>1, <3>2
  <2>5. block'.emitted = Budget' /\ block'.emitted <= Budget' /\ Budget' \in Nat
    BY <2>2, <2>3, <2>4, BudgetIs
  <2> QED BY <1>1, <1>2, <1>4, <2>2, <2>3, <2>5 DEF BlockSound, Ends, Patient
<1> QED BY <1>5, <1>6

\* A run of silence.
LEMMA SilenceIs ==
  ASSUME NEW count \in Nat
  PROVE  /\ [i \in 1..count |-> Silence] \in Seq(Int)
         /\ Len([i \in 1..count |-> Silence]) = count
         /\ \A j \in 1..count : [i \in 1..count |-> Silence][j] = Silence
BY DEF Silence

\* A kernel that is fed silence gives frames before `finish` runs out of patience.
LEMMA SilenceIsHeard ==
  ASSUME BlockSound, call.kind = "finish", block.pending = <<>>
  PROVE  call.stalled < StallLimit
<1>1. /\ call.stalled \in -1..StallLimit /\ call.stalled <= runs
      /\ call.stalled >= 0 => block.emitted <= Given(runs - call.stalled)
      /\ StallLimit \in Nat /\ runs \in Nat /\ kernel \in Kernels
  BY BlockAssumption DEF BlockSound, Patient
<1> SUFFICES ASSUME call.stalled = StallLimit PROVE FALSE
  BY <1>1
<1> DEFINE before == runs - StallLimit
<1>2. before \in Nat /\ before + StallLimit = runs /\ block.emitted <= GivenBy(kernel, before)
  BY <1>1 DEF Given
<1> HIDE DEF before
<1>3. /\ GivenBy(kernel, before) \in Nat /\ GivenBy(kernel, StallLimit) \in Nat
      /\ GivenBy(kernel, before) + GivenBy(kernel, StallLimit) <= GivenBy(kernel, runs)
  BY <1>1, <1>2, KernelGives
<1>4. kernel.skip < GivenBy(kernel, StallLimit) /\ kernel.skip \in Nat
  BY <1>1, KernelConstants
<1>5. GivenBy(kernel, runs) <= kernel.skip + block.emitted /\ GivenBy(kernel, runs) \in Nat
  <2>1. Len(block.pending) = 0
    OBVIOUS
  <2> QED BY <1>4, <2>1, EmittedIs DEF Given
<1>6. block.emitted \in Nat
  BY EmittedIs
<1> QED BY <1>2, <1>3, <1>4, <1>5, <1>6

\* Silence behind the programme keeps the backend sound.
LEMMA RunSilenceSound ==
  ASSUME BlockSound, RunSilence
  PROVE  BlockSound'
<1>1. Working /\ call.kind = "finish"
  BY DEF RunSilence
<1>2. block.finishing /\ ~block.finished
  BY <1>1 DEF BlockSound, Ends
<1>3. ~Stalled
  BY <1>1, BlockAssumption DEF Stalled, BlockSound, Patient
<1> DEFINE b == [block EXCEPT !.input = <<>>]
           silence == [i \in 1..kernel.block - Len(block.input) |-> Silence]
           frames == block.input \o silence
<1>4. Left > 0 /\ Flushable = 0 /\ Run(frames, b, 0)
  BY <1>3 DEF RunSilence
<1>5. block.pending = <<>>
  <2>1. Left # 0
    BY <1>4, BudgetIs
  <2> QED BY <1>1, <1>4, <2>1, NothingFlushable
<1>6. call.stalled < StallLimit
  BY <1>1, <1>5, SilenceIsHeard
<1>7. /\ b \in BlockFields /\ b.input = <<>> /\ b.skip = block.skip /\ b.emitted = block.emitted
      /\ b.pending = block.pending /\ b.total = block.total /\ b.ending = block.ending
      /\ b.finishing = block.finishing /\ b.finished = block.finished
  <2>1. <<>> \in Seq(Int) /\ block \in BlockFields
    BY StreamNumbers
  <2> QED BY <2>1 DEF BlockFields
<1> HIDE DEF b
<1> DEFINE fed == runs * kernel.block
<1>8. /\ \A i \in 1..Len(block.input) : block.input[i] = fed + i - 1
      /\ \/ block.total = fed + Len(block.input) /\ Len(block.input) <= kernel.block
         \/ Len(block.input) = 0 /\ block.total <= fed
  BY DEF BlockSound, Fed
<1>9. /\ fed \in Nat /\ kernel.block \in Nat /\ block.total \in Nat /\ Len(block.input) \in Nat
      /\ block.input \in Seq(Int)
  BY StreamNumbers
<1>10. b.total <= (runs + 1) * kernel.block /\ b.total >= block.total
  <2>1. (runs + 1) * kernel.block = fed + kernel.block
    BY StreamNumbers
  <2> HIDE DEF fed
  <2> QED BY <1>7, <1>8, <1>9, <2>1
<1> HIDE DEF fed
<1>11. kernel.block - Len(block.input) \in Nat
  BY <1>8, <1>9
<1>12. /\ silence \in Seq(Int) /\ Len(silence) = kernel.block - Len(block.input)
       /\ \A i \in 1..(kernel.block - Len(block.input)) : silence[i] = Silence
  BY <1>11, SilenceIs
<1> HIDE DEF silence
<1>13. /\ frames \in Seq(Int) /\ Len(frames) = kernel.block
       /\ \A i \in 1..kernel.block :
            frames[i] = IF i <= Len(block.input) THEN block.input[i]
                        ELSE silence[i - Len(block.input)]
  <2>1. Len(block.input) + Len(silence) = kernel.block
    BY <1>9, <1>12
  <2>2. /\ frames \in Seq(Int) /\ Len(frames) = Len(block.input) + Len(silence)
        /\ \A i \in 1..Len(frames) :
             frames[i] = IF i <= Len(block.input) THEN block.input[i]
                         ELSE silence[i - Len(block.input)]
    BY <1>9, <1>12, Joined
  <2> HIDE DEF frames
  <2> QED BY <2>1, <2>2
<1> HIDE DEF frames
<1>14. FedInOrder(frames, b.total)
  <2>1. ASSUME NEW i \in 1..kernel.block
        PROVE  frames[i] = IF fed + i - 1 < block.total THEN fed + i - 1 ELSE Silence
    <3>1. CASE i <= Len(block.input)
      <4>1. frames[i] = fed + i - 1
        BY <1>8, <1>9, <1>13, <3>1
      <4>2. fed + i - 1 < block.total
        BY <1>8, <1>9, <3>1
      <4> QED BY <4>1, <4>2
    <3>2. CASE i > Len(block.input)
      <4>0. i \in 1..kernel.block /\ ~(i <= Len(block.input))
        BY <1>9, <3>2
      <4>1. frames[i] = silence[i - Len(block.input)]
        BY <1>13, <4>0
      <4>2. i - Len(block.input) \in 1..(kernel.block - Len(block.input))
        BY <1>9, <3>2
      <4>3. ~(fed + i - 1 < block.total)
        BY <1>8, <1>9, <3>2
      <4> QED BY <1>12, <4>1, <4>2, <4>3
    <3> QED BY <1>9, <3>1, <3>2
  <2>2. DOMAIN frames = 1..kernel.block
    BY <1>13
  <2> QED BY <1>7, <2>1, <2>2 DEF FedInOrder, fed
<1>15. 0 \in Nat
  OBVIOUS
<1> QED BY <1>1, <1>2, <1>4, <1>5, <1>6, <1>7, <1>10, <1>14, <1>15, RunSound

\* Every step keeps the backend sound.
LEMMA BlockStep ==
  ASSUME BlockSound, [BlockNext]_blockVars
  PROVE  BlockSound'
<1>1. ASSUME NEW input \in CallInputs, NEW room \in CallOutputs, CallProcess(input, room)
      PROVE  BlockSound'
  BY <1>1, CallProcessSound
<1>2. ASSUME NEW room \in CallOutputs, CallFinish(room) PROVE BlockSound'
  BY <1>2, CallFinishSound
<1>3. CASE StreamReset
  <2>1. BlockInit'
    BY <1>3 DEF StreamReset, ResetBlock, BlockSound, BlockInit, FreshBlock
  <2> QED BY <2>1, FreshAgain
<1>4. CASE Flush
  BY <1>4, FlushSound
<1>5. CASE RunCollected
  BY <1>5, RunCollectedSound
<1>6. CASE RunOffered
  BY <1>6, RunOfferedSound
<1>7. CASE Collect
  BY <1>7, CollectSound
<1>8. CASE ProcessReturns
  BY <1>8, ProcessReturnsSound
<1>9. CASE RunSilence
  BY <1>9, RunSilenceSound
<1>10. CASE FinishReturns
  BY <1>10, FinishReturnsSound
<1>11. CASE UNCHANGED blockVars
  <2>1. UNCHANGED <<kernel, block, call, runs, inOrder>>
    BY <1>11 DEF blockVars
  <2>2. /\ kernel' \in Kernels /\ runs' \in Nat /\ inOrder' = TRUE /\ block' \in BlockFields
        /\ Accounted(block)' /\ Fed(block)' /\ Budget' = Budget
    BY <2>1, SameBlock
  <2>3. Ends' /\ Patient'
    BY <2>1, <2>2 DEF BlockSound, Ends, Patient, Given
  <2> QED BY <2>1, <2>2, <2>3 DEF BlockSound
<1> QED BY <1>1, <1>2, <1>3, <1>4, <1>5, <1>6, <1>7, <1>8, <1>9, <1>10, <1>11 DEF BlockNext

\* `process` and `finish` under a bounded duration: for every kernel, every size of
\* call and every length of stream, the kernel sees the input once and in order,
\* its output comes out once and in order, within the budget, and to its last frame.
THEOREM ResamplerExact == BlockSpec => []ResamplerIsExact
<1>1. BlockInit => BlockSound
  BY FreshSound
<1>2. BlockSound /\ [BlockNext]_blockVars => BlockSound'
  BY BlockStep
<1>3. BlockSound => ResamplerIsExact
  <2> SUFFICES ASSUME BlockSound PROVE ResamplerIsExact
    OBVIOUS
  <2>1. block.finished => block.emitted = OutputFrames(block.total) + kernel.extension
    BY DEF BlockSound, Ends, Budget
  <2> QED BY <2>1 DEF BlockSound, Ends, ResamplerIsExact
<1> QED BY <1>1, <1>2, <1>3, PTL DEF BlockSpec

-----------------------------------------------------------------------------
(* The limiter before the noise shaper.                                    *)

\* A sequence of numbers that is not empty has a greatest element, which `Highest` is.
LEMMA HighestIs ==
  ASSUME NEW s \in Seq(Nat), s # <<>>
  PROVE  \A i \in 1..Len(s) : s[i] <= Highest(s) /\ Highest(s) \in Nat
<1>1. Len(s) \in Nat \ {0} /\ DOMAIN s = 1..Len(s) /\ \A i \in 1..Len(s) : s[i] \in Nat
  OBVIOUS
<1> DEFINE Reached == {n \in Nat : n \in 1..Len(s) => \E i \in 1..n : \A j \in 1..n : s[j] <= s[i]}
<1>2. 0 \in Reached
  OBVIOUS
<1>3. ASSUME NEW n \in Nat, n \in Reached PROVE n + 1 \in Reached
  <2> SUFFICES ASSUME n + 1 \in 1..Len(s)
               PROVE  \E i \in 1..n + 1 : \A j \in 1..n + 1 : s[j] <= s[i]
    OBVIOUS
  <2>1. CASE n = 0
    BY <1>1, <2>1
  <2>2. CASE n # 0
    <3>1. n \in 1..Len(s)
      BY <2>2
    <3>2. PICK i \in 1..n : \A j \in 1..n : s[j] <= s[i]
      BY <1>3, <3>1
    <3>3. s[i] \in Nat /\ s[n + 1] \in Nat /\ \A j \in 1..n : s[j] \in Nat
      BY <1>1, <3>1
    <3>4. CASE s[n + 1] <= s[i]
      <4>1. \A j \in 1..n + 1 : s[j] <= s[i]
        BY <3>2, <3>4
      <4> QED BY <4>1
    <3>5. CASE s[n + 1] > s[i]
      <4>1. \A j \in 1..n + 1 : s[j] <= s[n + 1]
        BY <3>2, <3>3, <3>5
      <4> QED BY <4>1
    <3>6. s[n + 1] <= s[i] \/ s[n + 1] > s[i]
      BY <3>3
    <3> QED BY <3>4, <3>5, <3>6
  <2> QED BY <2>1, <2>2
<1>4. Nat \subseteq Reached
  <2> HIDE DEF Reached
  <2> QED BY <1>2, <1>3, SetInduction
<1>5. PICK m \in 1..Len(s) : \A j \in 1..Len(s) : s[j] <= s[m]
  <2>1. Len(s) \in Reached
    <3> HIDE DEF Reached
    <3> QED BY <1>1, <1>4
  <2>2. Len(s) \in 1..Len(s)
    BY <1>1
  <2> QED BY <2>1, <2>2
<1>6. \E t \in {s[i] : i \in DOMAIN s} : \A i \in DOMAIN s : s[i] <= t
  BY <1>1, <1>5
<1>7. Highest(s) \in {s[i] : i \in DOMAIN s} /\ \A i \in DOMAIN s : s[i] <= Highest(s)
  BY <1>6 DEF Highest
<1> QED BY <1>1, <1>7

\* What the queue of the window is: its candidates in falling order, and one for every
\* frame in the line, no older and no lower.
Candidates == [age : Nat, peak : Nat]
Covers(queue, line) ==
  \A i \in 1..Delay :
    line[i] = 0 \/ \E j \in 1..Len(queue) : queue[j].age <= Delay - i /\ queue[j].peak >= line[i]
QueueSound(queue, line) ==
  /\ queue \in Seq(Candidates) /\ line \in Seq(Nat) /\ Len(line) = Delay
  /\ \A i, j \in 1..Len(queue) : i <= j => queue[i].peak >= queue[j].peak
  /\ Covers(queue, line)

\* The look-ahead is at least as long as the attack ramp.
LEMMA DelayIs ==
  /\ Delay \in Nat \ {0} /\ AttackFrames \in Nat \ {0} /\ AttackFrames <= Window
  /\ Delay = Window + Settle /\ Settle \in Nat
BY GuardAssumption DEF Delay, AttackFrames, Bigger

\* The front of the queue is the greatest peak of the window.
LEMMA FrontIsGreatest ==
  ASSUME NEW queue, NEW line, QueueSound(queue, line)
  PROVE  Front(queue) \in Nat /\ \A i \in 1..Delay : line[i] \in Nat /\ line[i] <= Front(queue)
<1>1. queue \in Seq(Candidates) /\ line \in Seq(Nat) /\ Len(line) = Delay /\ Delay \in Nat
  BY DelayIs DEF QueueSound
<1>2. Front(queue) \in Nat /\ \A j \in 1..Len(queue) : queue[j].peak \in Nat /\ queue[j].peak <= Front(queue)
  <2>1. CASE queue = <<>>
    BY <2>1 DEF Front
  <2>2. CASE queue # <<>>
    <3>1. 1 \in 1..Len(queue) /\ \A j \in 1..Len(queue) : queue[j] \in Candidates /\ 1 <= j
      BY <1>1, <2>2
    <3>2. \A j \in 1..Len(queue) : queue[j].peak \in Nat
      BY <3>1 DEF Candidates
    <3>3. \A j \in 1..Len(queue) : queue[1].peak >= queue[j].peak
      BY <3>1 DEF QueueSound
    <3> QED BY <2>2, <3>1, <3>2, <3>3 DEF Front
  <2> QED BY <2>1, <2>2
<1>3. ASSUME NEW i \in 1..Delay PROVE line[i] \in Nat /\ line[i] <= Front(queue)
  <2>1. line[i] \in Nat
    BY <1>1
  <2>2. CASE line[i] = 0
    BY <1>2, <2>1, <2>2
  <2>3. CASE line[i] # 0
    <3>1. PICK j \in 1..Len(queue) : queue[j].peak >= line[i]
      BY <2>3 DEF QueueSound, Covers
    <3> QED BY <1>2, <2>1, <3>1
  <2> QED BY <2>2, <2>3
<1> QED BY <1>2, <1>3

\* The two ends of the queue that stay, the popped ones being those before and behind.
LEMMA EndsExist ==
  ASSUME NEW n \in Nat, NEW P \in SUBSET (1..n)
  PROVE  /\ \E k \in 1..n + 1 : (k <= n => k \notin P) /\ \A i \in 1..k - 1 : i \in P
         /\ \E k \in 0..n : (k > 0 => k \notin P) /\ \A i \in k + 1..n : i \in P
<1>1. \E k \in 1..n + 1 : (k <= n => k \notin P) /\ \A i \in 1..k - 1 : i \in P
  <2> DEFINE S == {k \in 1..n + 1 : k <= n => k \notin P}
  <2>1. S \subseteq Nat /\ n + 1 \in S
    OBVIOUS
  <2>2. PICK k \in S : \A m \in S : k <= m
    <3> HIDE DEF S
    <3> QED BY <2>1, LeastNatural
  <2>3. ASSUME NEW i \in 1..k - 1 PROVE i \in P
    <3>1. i \notin S /\ i \in 1..n + 1 /\ i <= n
      BY <2>2
    <3> QED BY <3>1
  <2> QED BY <2>2, <2>3
<1>2. \E k \in 0..n : (k > 0 => k \notin P) /\ \A i \in k + 1..n : i \in P
  <2> DEFINE S == {d \in 0..n : n - d > 0 => n - d \notin P}
  <2>1. S \subseteq Nat /\ n \in S
    OBVIOUS
  <2>2. PICK d \in S : \A m \in S : d <= m
    <3> HIDE DEF S
    <3> QED BY <2>1, LeastNatural
  <2>3. n - d \in 0..n /\ (n - d > 0 => n - d \notin P)
    BY <2>2
  <2>4. ASSUME NEW i \in n - d + 1..n PROVE i \in P
    <3>1. n - i \in 0..n /\ n - i < d /\ n - (n - i) = i /\ i > 0
      BY <2>2
    <3>2. n - i \notin S
      BY <2>2, <3>1
    <3> QED BY <3>1, <3>2
  <2> QED BY <2>3, <2>4
<1> QED BY <1>1, <1>2


\* A frame enters the window and the oldest leaves it.
LEMMA PushSound ==
  ASSUME NEW l, QueueSound(l.queue, l.line), NEW peak \in Nat
  PROVE  QueueSound(Pushed(l, peak), Append(Tail(l.line), peak))
<1> DEFINE n == Len(l.queue)
           line == Append(Tail(l.line), peak)
           aged == [i \in DOMAIN l.queue |-> [l.queue[i] EXCEPT !.age = @ + 1]]
           Old(i) == aged[i].age >= Len(l.line)
           Low(i) == aged[i].peak <= peak
           first == CHOOSE k \in 1..Len(aged) + 1 :
                      (k <= Len(aged) => ~Old(k)) /\ \A i \in 1..k - 1 : Old(i)
           last == CHOOSE k \in 0..Len(aged) :
                     (k > 0 => ~Low(k)) /\ \A i \in k + 1..Len(aged) : Low(i)
           newest == [age |-> 0, peak |-> peak]
<1>1. /\ l.queue \in Seq(Candidates) /\ l.line \in Seq(Nat) /\ Len(l.line) = Delay
      /\ Delay \in Nat \ {0} /\ n \in Nat /\ DOMAIN l.queue = 1..n
      /\ \A i \in 1..n : l.queue[i].age \in Nat /\ l.queue[i].peak \in Nat
  <2>1. l.queue \in Seq(Candidates) /\ l.line \in Seq(Nat) /\ Len(l.line) = Delay
    BY DEF QueueSound
  <2>2. n \in Nat /\ DOMAIN l.queue = 1..n /\ \A i \in 1..n : l.queue[i] \in Candidates
    BY <2>1
  <2>3. \A i \in 1..n : l.queue[i].age \in Nat /\ l.queue[i].peak \in Nat
    BY <2>2 DEF Candidates
  <2> QED BY <2>1, <2>2, <2>3, DelayIs
<1>2. /\ aged \in Seq(Candidates) /\ Len(aged) = n
      /\ \A i \in 1..n : aged[i].age = l.queue[i].age + 1 /\ aged[i].peak = l.queue[i].peak
  <2>1. \A i \in 1..n : l.queue[i] \in Candidates
    BY <1>1
  <2>2. \A i \in 1..n : /\ aged[i] \in Candidates /\ aged[i].age = l.queue[i].age + 1
                        /\ aged[i].peak = l.queue[i].peak
    <3> SUFFICES ASSUME NEW i \in 1..n
                 PROVE  /\ aged[i] \in Candidates /\ aged[i].age = l.queue[i].age + 1
                        /\ aged[i].peak = l.queue[i].peak
      OBVIOUS
    <3> DEFINE c == l.queue[i]
    <3>1. aged[i] = [c EXCEPT !.age = @ + 1]
      BY <1>1
    <3>2. c \in Candidates
      BY <2>1
    <3> HIDE DEF aged, c
    <3>3. /\ aged[i] \in Candidates /\ aged[i].age = c.age + 1 /\ aged[i].peak = c.peak
      BY <3>1, <3>2 DEF Candidates
    <3> QED BY <3>3 DEF c
  <2>3. aged = [i \in 1..n |-> aged[i]]
    BY <1>1
  <2> HIDE DEF aged
  <2>4. aged \in Seq(Candidates) /\ Len(aged) = n
    <3>1. \A i \in 1..n : aged[i] \in Candidates
      BY <2>2
    <3>2. n \in Nat
      BY <1>1
    <3> QED BY <2>3, <3>1, <3>2
  <2> QED BY <2>2, <2>4
<1>3. Pushed(l, peak) = Append(SubSeq(aged, first, last), newest)
  BY DEF Pushed
<1> HIDE DEF aged
<1>4. /\ first \in 1..n + 1 /\ (first <= n => aged[first].age < Delay)
      /\ \A i \in 1..first - 1 : aged[i].age >= Delay
  <2> DEFINE P == {i \in 1..n : Old(i)}
  <2>1. \E k \in 1..n + 1 : (k <= n => k \notin P) /\ \A i \in 1..k - 1 : i \in P
    <3>1. P \in SUBSET (1..n) /\ n \in Nat
      BY <1>1
    <3> HIDE DEF P
    <3> QED BY <3>1, EndsExist
  <2>2. \E k \in 1..Len(aged) + 1 : (k <= Len(aged) => ~Old(k)) /\ \A i \in 1..k - 1 : Old(i)
    <3>1. PICK k \in 1..n + 1 : (k <= n => k \notin P) /\ \A i \in 1..k - 1 : i \in P
      BY <2>1
    <3> QED BY <1>2, <3>1
  <2>3. /\ first \in 1..Len(aged) + 1 /\ (first <= Len(aged) => ~Old(first))
        /\ \A i \in 1..first - 1 : Old(i)
    BY <2>2
  <2> HIDE DEF first
  <2>4. \A i \in 1..n : aged[i].age \in Nat
    BY <1>1, <1>2
  <2> QED BY <1>1, <1>2, <2>3, <2>4
<1>5. /\ last \in 0..n /\ (last > 0 => aged[last].peak > peak)
      /\ \A i \in last + 1..n : aged[i].peak <= peak
  <2> DEFINE P == {i \in 1..n : Low(i)}
  <2>1. \E k \in 0..n : (k > 0 => k \notin P) /\ \A i \in k + 1..n : i \in P
    <3>1. P \in SUBSET (1..n) /\ n \in Nat
      BY <1>1
    <3> HIDE DEF P
    <3> QED BY <3>1, EndsExist
  <2>2. \E k \in 0..Len(aged) : (k > 0 => ~Low(k)) /\ \A i \in k + 1..Len(aged) : Low(i)
    <3>1. PICK k \in 0..n : (k > 0 => k \notin P) /\ \A i \in k + 1..n : i \in P
      BY <2>1
    <3>2. k > 0 => k \in 1..n
      BY <1>1
    <3>3. (k > 0 => ~Low(k)) /\ \A i \in k + 1..n : Low(i)
      BY <3>1, <3>2
    <3> QED BY <1>2, <3>3
  <2>3. /\ last \in 0..Len(aged) /\ (last > 0 => ~Low(last))
        /\ \A i \in last + 1..Len(aged) : Low(i)
    BY <2>2
  <2> HIDE DEF last
  <2>4. \A i \in 1..n : aged[i].peak \in Nat
    BY <1>1, <1>2
  <2> QED BY <1>1, <1>2, <2>3, <2>4
<1> HIDE DEF first, last
<1> DEFINE kept == SubSeq(aged, first, last)
           queue == Append(kept, newest)
           size == IF first <= last THEN last - first + 1 ELSE 0
<1>6. /\ kept \in Seq(Candidates) /\ Len(kept) = size /\ size \in Nat
      /\ \A j \in 1..size : kept[j] = aged[first + j - 1] /\ first + j - 1 \in first..last
  BY <1>1, <1>2, <1>4, <1>5
<1>7. newest \in Candidates /\ newest.age = 0 /\ newest.peak = peak
  BY DEF Candidates
<1> HIDE DEF kept, newest
<1>8. /\ queue \in Seq(Candidates) /\ Len(queue) = size + 1 /\ queue[size + 1] = newest
      /\ \A j \in 1..size : queue[j] = aged[first + j - 1] /\ first + j - 1 \in first..last
  BY <1>6, <1>7
<1>9. \A i, j \in 1..n : i <= j => aged[i].peak >= aged[j].peak
  BY <1>2 DEF QueueSound
<1> HIDE DEF queue
<1>10. ASSUME NEW i \in 1..Len(queue), NEW j \in 1..Len(queue), i <= j
       PROVE  queue[i].peak >= queue[j].peak
  <2>1. CASE j <= size
    <3>1. /\ queue[i] = aged[first + i - 1] /\ queue[j] = aged[first + j - 1]
          /\ first + i - 1 \in 1..n /\ first + j - 1 \in 1..n /\ first + i - 1 <= first + j - 1
      <4>1. i \in 1..size /\ j \in 1..size
        BY <1>6, <1>8, <1>10, <2>1
      <4>2. first \in Nat /\ last \in Nat /\ first >= 1 /\ last <= n
        BY <1>1, <1>4, <1>5
      <4> HIDE DEF size
      <4>3. first + i - 1 \in first..last /\ first + j - 1 \in first..last
        BY <1>8, <4>1
      <4>4. first + i - 1 \in 1..n /\ first + j - 1 \in 1..n
        BY <1>1, <4>2, <4>3
      <4>5. first + i - 1 <= first + j - 1
        BY <1>10, <4>1, <4>2
      <4> QED BY <1>8, <4>1, <4>4, <4>5
    <3> QED BY <1>9, <3>1
  <2>2. CASE i <= size /\ j = size + 1
    <3>1. first <= last /\ last > 0 /\ last \in 1..n
      BY <1>4, <1>5, <2>2
    <3>2. queue[i] = aged[first + i - 1] /\ first + i - 1 \in 1..n /\ first + i - 1 <= last
      BY <1>1, <1>4, <1>5, <1>6, <1>8, <2>2
    <3>3. aged[first + i - 1].peak >= aged[last].peak /\ aged[last].peak > peak
      BY <1>5, <1>9, <3>1, <3>2
    <3>4. aged[first + i - 1].peak \in Nat /\ aged[last].peak \in Nat
      BY <1>1, <1>2, <3>1, <3>2
    <3> QED BY <1>7, <1>8, <2>2, <3>2, <3>3, <3>4
  <2>3. CASE i = size + 1 /\ j = size + 1
    BY <1>7, <1>8, <2>3
  <2> QED BY <1>6, <1>8, <1>10, <2>1, <2>2, <2>3
<1>11. /\ line \in Seq(Nat) /\ Len(line) = Delay /\ line[Delay] = peak
       /\ \A i \in 1..Delay - 1 : line[i] = l.line[i + 1] /\ i + 1 \in 1..Delay
  BY <1>1
<1> HIDE DEF line
<1>12. ASSUME NEW i \in 1..Delay, line[i] # 0
       PROVE  \E j \in 1..Len(queue) : queue[j].age <= Delay - i /\ queue[j].peak >= line[i]
  <2>0. size + 1 \in 1..Len(queue) /\ queue[size + 1].age = 0 /\ queue[size + 1].peak = peak
    BY <1>6, <1>7, <1>8
  <2>1. CASE i = Delay
    BY <1>1, <1>11, <2>0, <2>1
  <2>2. CASE i # Delay
    <3>1. line[i] = l.line[i + 1] /\ i + 1 \in 1..Delay /\ line[i] \in Nat
      BY <1>1, <1>11, <2>2
    <3>2. PICK j \in 1..n : l.queue[j].age <= Delay - (i + 1) /\ l.queue[j].peak >= l.line[i + 1]
      BY <1>12, <3>1 DEF QueueSound, Covers
    <3>3. aged[j].age <= Delay - i /\ aged[j].age < Delay /\ aged[j].peak >= line[i]
      <4>1. l.queue[j].age \in Nat /\ i \in 1..Delay
        BY <1>1
      <4>2. aged[j].age = l.queue[j].age + 1 /\ aged[j].peak = l.queue[j].peak
        BY <1>2
      <4>3. l.queue[j].age + 1 <= Delay - i /\ Delay - i < Delay /\ Delay \in Nat
        <5>1. Delay \in Nat /\ i \in 1..Delay /\ l.queue[j].age <= Delay - (i + 1)
          BY <1>1, <3>2
        <5> QED BY <4>1, <5>1
      <4>4. aged[j].age < Delay
        BY <4>1, <4>2, <4>3
      <4> QED BY <3>1, <3>2, <4>2, <4>3, <4>4
    <3>4. first <= j
      <4>1. aged[j].age \in Nat
        BY <1>1, <1>2
      <4>2. j \notin 1..first - 1
        BY <1>1, <1>4, <3>3, <4>1
      <4> QED BY <1>4, <4>2
    <3>5. aged[j].peak \in Nat
      BY <1>1, <1>2
    <3>6. CASE j <= last
      <4>1. j - first + 1 \in 1..size /\ first + (j - first + 1) - 1 = j
        BY <1>4, <1>5, <3>4, <3>6
      <4>2. queue[j - first + 1] = aged[j]
        BY <1>8, <4>1
      <4>3. j - first + 1 \in 1..Len(queue)
        BY <1>6, <1>8, <4>1
      <4> QED BY <3>3, <4>2, <4>3
    <3>7. CASE j > last
      <4>1. aged[j].peak <= peak
        BY <1>5, <3>7
      <4>2. peak >= line[i]
        BY <3>1, <3>3, <3>5, <4>1
      <4>3. 0 <= Delay - i
        BY <1>1
      <4> QED BY <2>0, <4>2, <4>3
    <3> QED BY <1>5, <3>6, <3>7
  <2> QED BY <2>1, <2>2
<1>13. QueueSound(queue, line)
  BY <1>8, <1>10, <1>11, <1>12 DEF QueueSound, Covers
<1> QED BY <1>3, <1>13 DEF queue, kept, line

-----------------------------------------------------------------------------
(* Gains.                                                                  *)

LimiterFields ==
  [threshold : Nat \ {0}, line : Seq(Nat), queue : Seq(Candidates), gain : 0..GainUnit, step : Nat]

\* A peak that the last `k` moves have seen: what the ramp leaves of the gain after the
\* moves that remain keeps it under one of their thresholds.
Held(gain, step, thresholds, peak, k) ==
  \E j \in 1..k : (gain - step * (AttackFrames - k)) * peak <= GainUnit * thresholds[j]

\* Products keep an order.
LEMMA ProductOrder ==
  ASSUME NEW x \in Int, NEW y \in Int, NEW p \in Nat, x <= y
  PROVE  x * p <= y * p /\ x * p \in Int /\ y * p \in Int
OBVIOUS

\* The target takes every peak of the window under the threshold.
LEMMA TargetIs ==
  ASSUME NEW l \in LimiterFields, Front(l.queue) \in Nat, NEW p \in Nat, p <= Front(l.queue)
  PROVE  Target(l) \in 0..GainUnit /\ Target(l) * p <= GainUnit * l.threshold
<1> DEFINE f == Front(l.queue)
           t == l.threshold
           U == GainUnit
<1>1. t \in Nat \ {0} /\ U \in Nat \ {0} /\ f \in Nat
  BY GuardAssumption DEF LimiterFields
<1>2. CASE f > t
  <2> DEFINE g == (U * t) \div f
  <2>1. U * t \in Nat /\ f \in Nat \ {0}
    BY <1>1, <1>2, ProductNat
  <2>2. g \in Nat /\ f * g <= U * t
    BY <2>1, Quotient
  <2>3. Target(l) = g
    BY <1>2 DEF Target
  <2> HIDE DEF g
  <2>4. g * p <= g * f
    BY <1>1, <2>2, ProductNat
  <2>5. g <= U
    <3>1. U * t <= U * f
      BY <1>1, <1>2
    <3>2. f * g <= f * U
      BY <1>1, <2>1, <2>2, <3>1
    <3> QED BY <1>1, <1>2, <2>2, <3>2
  <2>6. g * f = f * g /\ g * p \in Nat /\ f * g \in Nat
    BY <1>1, <2>2, ProductNat
  <2> QED BY <1>1, <2>1, <2>2, <2>3, <2>4, <2>5, <2>6
<1>3. CASE ~(f > t)
  <2>1. Target(l) = U /\ p <= t
    BY <1>1, <1>3 DEF Target
  <2>2. U * p <= U * t
    BY <1>1, <2>1
  <2> QED BY <1>1, <2>1, <2>2
<1> QED BY <1>2, <1>3

\* A division rounded up.
LEMMA RoundedUp ==
  ASSUME NEW a \in Nat, NEW d \in Nat \ {0}
  PROVE  (a + d - 1) \div d \in Nat /\ a <= d * ((a + d - 1) \div d)
OBVIOUS

\* One move: it lands within the attack, and goes on as steep as before.
LEMMA MovedHolds ==
  ASSUME NEW l \in LimiterFields, Front(l.queue) \in Nat, NEW p \in Nat, p <= Front(l.queue)
  PROVE  /\ Moved(l) \in LimiterFields /\ Moved(l).line = l.line /\ Moved(l).threshold = l.threshold
         /\ (Moved(l).gain - Moved(l).step * (AttackFrames - 1)) * p <= GainUnit * l.threshold
         /\ \A k \in 1..AttackFrames - 1 :
              \/ Moved(l).gain - Moved(l).step * (AttackFrames - (k + 1))
                    <= l.gain - l.step * (AttackFrames - k)
              \/ (Moved(l).gain - Moved(l).step * (AttackFrames - (k + 1))) * p
                    <= GainUnit * l.threshold
<1> DEFINE A == AttackFrames
           U == GainUnit
           g == l.gain
           s == l.step
           target == Target(l)
           armed == Armed(l, (g - target + A - 1) \div A)
           released == g + (U - g) \div Release
           g2 == Moved(l).gain
           s2 == Moved(l).step
<1>1. /\ A \in Nat \ {0} /\ U \in Nat \ {0} /\ Release \in Nat \ {0}
      /\ g \in 0..U /\ s \in Nat /\ l.threshold \in Nat
      /\ target \in 0..U /\ target * p <= U * l.threshold
  BY GuardAssumption, DelayIs, TargetIs DEF LimiterFields
<1>2. CASE target < g
  <2>0. g - target \in Nat
    BY <1>1, <1>2
  <2>1. (g - target + A - 1) \div A \in Nat /\ g - target <= A * ((g - target + A - 1) \div A)
    <3> DEFINE a == g - target
    <3>1. a \in Nat
      BY <2>0
    <3> HIDE DEF a
    <3>2. (a + A - 1) \div A \in Nat /\ a <= A * ((a + A - 1) \div A)
      BY <1>1, <3>1, RoundedUp
    <3> QED BY <3>2 DEF a
  <2> DEFINE least == (g - target + A - 1) \div A
  <2>2. armed \in Nat /\ armed >= s /\ armed >= least
    BY <1>1, <2>1 DEF Armed, Bigger
  <2>3. Moved(l) = [l EXCEPT !.step = armed, !.gain = Bigger(g - armed, target)]
    BY <1>2 DEF Moved
  <2> HIDE DEF least, armed
  <2>4. A * armed >= g - target
    <3>1. A * armed >= A * least
      BY <1>1, <2>1, <2>2 DEF least
    <3>2. A * least >= g - target /\ A * least \in Int /\ A * armed \in Int
      BY <1>1, <2>1, <2>2 DEF least
    <3> QED BY <1>1, <3>1, <3>2
  <2>5. /\ Bigger(g - armed, target) \in 0..U
        /\ Bigger(g - armed, target) = g - armed \/ Bigger(g - armed, target) = target
    BY <1>1, <1>2, <2>2 DEF Bigger
  <2>6. /\ Moved(l) \in LimiterFields /\ Moved(l).line = l.line /\ Moved(l).threshold = l.threshold
        /\ s2 = armed /\ g2 \in 0..U /\ (g2 = g - armed \/ g2 = target)
    <3> DEFINE gain == Bigger(g - armed, target)
    <3>1. Moved(l) = [l EXCEPT !.step = armed, !.gain = gain] /\ gain \in 0..U
          /\ (gain = g - armed \/ gain = target)
      BY <2>3, <2>5
    <3> HIDE DEF gain
    <3> QED BY <2>2, <3>1 DEF LimiterFields
  <2> HIDE DEF g2, s2, g, s, target
  <2>7. ASSUME NEW m \in Nat, g2 = target PROVE (g2 - s2 * m) * p <= U * l.threshold
    <3>1. s2 * m \in Nat
      BY <2>2, <2>6, <2>7, ProductNat
    <3>2. g2 - s2 * m \in Int /\ g2 - s2 * m <= target /\ target \in Int
      BY <1>1, <2>6, <2>7, <3>1
    <3>3. (g2 - s2 * m) * p <= target * p
      BY <3>2, ProductOrder
    <3> QED BY <1>1, <2>6, <2>7, <3>2, <3>3, ProductOrder
  <2>8. (g2 - s2 * (A - 1)) * p <= U * l.threshold
    <3>1. CASE g2 = target
      <4>1. A - 1 \in Nat
        BY <1>1
      <4> QED BY <2>7, <3>1, <4>1
    <3>2. CASE g2 = g - armed
      <4>1. g2 - s2 * (A - 1) = g - A * armed
        BY <1>1, <2>2, <2>6, <3>2
      <4>2. g - A * armed <= target /\ g - A * armed \in Int /\ target \in Int
        BY <1>1, <2>2, <2>4
      <4>3. (g - A * armed) * p <= target * p
        BY <4>2, ProductOrder
      <4> QED BY <1>1, <4>1, <4>2, <4>3, ProductOrder
    <3> QED BY <2>6, <3>1, <3>2
  <2>9. ASSUME NEW k \in 1..A - 1
        PROVE  \/ g2 - s2 * (A - (k + 1)) <= g - s * (A - k)
               \/ (g2 - s2 * (A - (k + 1))) * p <= U * l.threshold
    <3>0. A - (k + 1) \in Nat /\ A - k \in Nat
      BY <1>1
    <3>1. CASE g2 = target
      BY <2>7, <3>0, <3>1
    <3>2. CASE g2 = g - armed
      <4> DEFINE m == A - k
      <4>1. g2 - s2 * (m - 1) = g - armed * m
        BY <1>1, <2>2, <2>6, <3>0, <3>2
      <4>2. armed * m >= s * m
        BY <1>1, <2>2, <3>0, ProductOrder
      <4>3. g - armed * m <= g - s * m
        <5>1. armed * m \in Int /\ s * m \in Int /\ g \in Int
          BY <1>1, <2>2, <3>0, ProductNat
        <5> QED BY <4>2, <5>1
      <4>4. m - 1 = A - (k + 1)
        BY <1>1
      <4> QED BY <4>1, <4>3, <4>4
    <3> QED BY <2>6, <3>1, <3>2
  <2> QED BY <2>6, <2>8, <2>9 DEF g2, s2, g, s
<1>3. CASE ~(target < g)
  <2>1. Moved(l) = [l EXCEPT !.step = 0, !.gain = Lesser(released, target)]
    BY <1>3 DEF Moved
  <2>2. released \in Nat
    <3>1. U - g \in Nat
      BY <1>1
    <3>2. (U - g) \div Release \in Nat
      BY <1>1, <3>1, Quotient
    <3> QED BY <1>1, <3>2
  <2> HIDE DEF released
  <2>3. Lesser(released, target) \in 0..U /\ Lesser(released, target) <= target
    BY <1>1, <2>2 DEF Lesser
  <2>4. /\ Moved(l) \in LimiterFields /\ Moved(l).line = l.line /\ Moved(l).threshold = l.threshold
        /\ s2 = 0 /\ g2 \in 0..U /\ g2 <= target
    <3> DEFINE gain == Lesser(released, target)
    <3>1. Moved(l) = [l EXCEPT !.step = 0, !.gain = gain] /\ gain \in 0..U /\ gain <= target
      BY <2>1, <2>3
    <3>2. 0 \in Nat
      OBVIOUS
    <3> HIDE DEF gain, target, g
    <3> QED BY <3>1, <3>2 DEF LimiterFields
  <2> HIDE DEF g2, s2, g, s, target
  <2>5. g2 * p <= U * l.threshold
    <3>1. g2 * p <= target * p
      BY <1>1, <2>4, ProductOrder
    <3> QED BY <1>1, <2>4, <3>1, ProductOrder
  <2>6. ASSUME NEW m \in Int PROVE (g2 - s2 * m) * p <= U * l.threshold
    <3>1. g2 - s2 * m = g2
      BY <2>4
    <3> QED BY <2>5, <3>1
  <2> QED BY <1>1, <2>4, <2>6 DEF g2, s2
<1> QED BY <1>2, <1>3

\* Of the limiter and the thresholds of its last moves, that every peak it has seen is
\* held; before the first ramp is over, only silence leaves the line.
LimiterSound(l, thresholds) ==
  /\ l \in LimiterFields /\ QueueSound(l.queue, l.line)
  /\ thresholds \in Seq(Nat) /\ Len(thresholds) <= AttackFrames
  /\ Len(thresholds) < AttackFrames =>
       \A i \in 1..Delay : Delay - i >= Len(thresholds) => l.line[i] = 0
  /\ \A i \in 1..Delay, k \in 1..Len(thresholds) :
       k <= Delay - i => Held(l.gain, l.step, thresholds, l.line[i], k)
OutSound(l, thresholds, peak) ==
  thresholds # <<>> =>
    /\ peak \in Nat /\ (Len(thresholds) < AttackFrames => peak = 0)
    /\ \A k \in 1..Len(thresholds) : Held(l.gain, l.step, thresholds, peak, k)

\* A fresh limiter holds nothing.
LEMMA FreshLimiterSound ==
  ASSUME NEW t \in Nat \ {0}, NEW peak
  PROVE  LimiterSound(FreshLimiter(t), <<>>) /\ OutSound(FreshLimiter(t), <<>>, peak)
<1> DEFINE l == FreshLimiter(t)
<1>1. /\ Delay \in Nat \ {0} /\ AttackFrames \in Nat \ {0} /\ GainUnit \in Nat
  BY DelayIs, GuardAssumption
<1>2. /\ l.threshold = t /\ l.queue = <<>> /\ l.gain = GainUnit /\ l.step = 0
      /\ l.line = [i \in 1..Delay |-> 0]
  BY DEF FreshLimiter
<1>3. l.line \in Seq(Nat) /\ Len(l.line) = Delay /\ \A i \in 1..Delay : l.line[i] = 0
  BY <1>1, <1>2
<1>4. QueueSound(l.queue, l.line)
  <2>1. l.queue \in Seq(Candidates) /\ Len(l.queue) = 0
    BY <1>2
  <2> QED BY <1>3, <2>1 DEF QueueSound, Covers
<1>5. l \in LimiterFields
  <2>1. <<>> \in Seq(Candidates) /\ GainUnit \in 0..GainUnit /\ 0 \in Nat
    BY <1>1
  <2> DEFINE line == [i \in 1..Delay |-> 0]
  <2>2. l = [threshold |-> t, line |-> line, queue |-> <<>>, gain |-> GainUnit, step |-> 0]
    BY DEF FreshLimiter
  <2>3. line \in Seq(Nat)
    BY <1>2, <1>3
  <2> HIDE DEF l, line
  <2> QED BY <2>1, <2>2, <2>3 DEF LimiterFields
<1>6. <<>> \in Seq(Nat) /\ Len(<<>>) = 0 /\ 1..0 = {}
  OBVIOUS
<1> HIDE DEF l
<1> QED BY <1>1, <1>3, <1>4, <1>5, <1>6 DEF LimiterSound, OutSound, l

\* The thresholds that are remembered after a move.
LEMMA KeptIs ==
  ASSUME NEW s \in Seq(Nat), Len(s) <= AttackFrames, NEW t \in Nat
  PROVE  LET kept == Kept(<<t>> \o s)
         IN /\ kept \in Seq(Nat) /\ Len(kept) <= AttackFrames /\ Len(kept) > 0
            /\ Len(kept) < AttackFrames => Len(kept) = Len(s) + 1
            /\ Len(kept) <= Len(s) + 1 /\ kept[1] = t
            /\ \A j \in 1..Len(s) : j + 1 <= Len(kept) => kept[j + 1] = s[j]
<1> DEFINE all == <<t>> \o s
           n == Lesser(Len(all), AttackFrames)
<1>1. AttackFrames \in Nat \ {0} /\ Len(s) \in Nat
  BY DelayIs
<1>2. /\ all \in Seq(Nat) /\ Len(all) = Len(s) + 1 /\ all[1] = t
      /\ \A j \in 1..Len(s) : all[j + 1] = s[j]
  OBVIOUS
<1>3. n \in 1..Len(all) /\ n <= AttackFrames /\ (n < AttackFrames => n = Len(s) + 1)
  BY <1>1, <1>2 DEF Lesser
<1> HIDE DEF all, n
<1>4. /\ SubSeq(all, 1, n) \in Seq(Nat) /\ Len(SubSeq(all, 1, n)) = n
      /\ \A j \in 1..n : SubSeq(all, 1, n)[j] = all[j]
  BY <1>2, <1>3
<1>5. Kept(all) = SubSeq(all, 1, n)
  BY DEF Kept, n
<1>6. \A j \in 1..Len(s) : j + 1 <= n => j + 1 \in 1..n
  BY <1>1, <1>3
<1>7. 1 \in 1..n /\ n \in Nat
  BY <1>2, <1>3
<1>8. Kept(all)[1] = t /\ \A j \in 1..Len(s) : j + 1 <= n => Kept(all)[j + 1] = s[j]
  BY <1>2, <1>4, <1>5, <1>6, <1>7
<1>9. n <= Len(s) + 1 /\ n > 0
  BY <1>1, <1>2, <1>3
<1> QED BY <1>3, <1>4, <1>5, <1>8, <1>9 DEF all

\* A peak that a move sees is held by it, and stays held through the next ones.
LEMMA HoldsOn ==
  ASSUME NEW l, NEW thresholds, LimiterSound(l, thresholds), NEW i \in 1..Delay,
         NEW k \in 1..Len(Kept(<<l.threshold>> \o thresholds)), k - 1 <= Delay - i
  PROVE  Held(Moved(l).gain, Moved(l).step, Kept(<<l.threshold>> \o thresholds), l.line[i], k)
<1> DEFINE kept == Kept(<<l.threshold>> \o thresholds)
           p == l.line[i]
           A == AttackFrames
           g2 == Moved(l).gain
           s2 == Moved(l).step
<1>1. /\ l \in LimiterFields /\ thresholds \in Seq(Nat) /\ Len(thresholds) <= A
      /\ l.threshold \in Nat /\ A \in Nat \ {0} /\ Len(thresholds) \in Nat
  BY DelayIs DEF LimiterSound, LimiterFields
<1>2. Front(l.queue) \in Nat /\ p \in Nat /\ p <= Front(l.queue)
  BY FrontIsGreatest DEF LimiterSound
<1>3. /\ Len(kept) <= A /\ Len(kept) <= Len(thresholds) + 1 /\ kept[1] = l.threshold
      /\ kept \in Seq(Nat)
      /\ \A j \in 1..Len(thresholds) : j + 1 <= Len(kept) => kept[j + 1] = thresholds[j]
  BY <1>1, KeptIs
<1>4. Len(kept) \in Nat /\ k \in 1..Len(kept)
  BY <1>3
<1>5. /\ (g2 - s2 * (A - 1)) * p <= GainUnit * l.threshold
      /\ \A m \in 1..A - 1 :
           \/ g2 - s2 * (A - (m + 1)) <= l.gain - l.step * (A - m)
           \/ (g2 - s2 * (A - (m + 1))) * p <= GainUnit * l.threshold
      /\ Moved(l) \in LimiterFields
  BY <1>1, <1>2, MovedHolds
<1>6. g2 \in Int /\ s2 \in Int /\ l.gain \in Int /\ l.step \in Int
  BY <1>1, <1>5 DEF LimiterFields
<1> HIDE DEF kept, p, A, g2, s2
<1>7. 1 \in 1..k
  BY <1>4
<1>8. CASE (g2 - s2 * (A - k)) * p <= GainUnit * l.threshold
  BY <1>3, <1>7, <1>8 DEF Held, kept, p, A, g2, s2
<1>9. CASE ~((g2 - s2 * (A - k)) * p <= GainUnit * l.threshold)
  <2>1. k # 1
    BY <1>5, <1>9
  <2>2. k - 1 \in 1..A - 1 /\ k - 1 \in 1..Len(thresholds) /\ (k - 1) + 1 = k
    BY <1>1, <1>3, <1>4, <2>1
  <2>3. g2 - s2 * (A - k) <= l.gain - l.step * (A - (k - 1))
    BY <1>5, <1>9, <2>2
  <2>4. Held(l.gain, l.step, thresholds, p, k - 1)
    BY <2>2 DEF LimiterSound, p
  <2>5. PICK j \in 1..k - 1 : (l.gain - l.step * (A - (k - 1))) * p <= GainUnit * thresholds[j]
    BY <2>4 DEF Held, A
  <2>6. g2 - s2 * (A - k) \in Int /\ l.gain - l.step * (A - (k - 1)) \in Int
    BY <1>1, <1>4, <1>6
  <2>7. (g2 - s2 * (A - k)) * p <= (l.gain - l.step * (A - (k - 1))) * p
    BY <1>2, <2>3, <2>6, ProductOrder
  <2>8. thresholds[j] \in Nat /\ j \in 1..Len(thresholds)
    BY <1>1, <2>2
  <2>9. kept[j + 1] = thresholds[j] /\ j + 1 \in 1..k
    BY <1>3, <1>4, <2>2, <2>8
  <2>10. (g2 - s2 * (A - k)) * p <= GainUnit * kept[j + 1]
    <3>1. GainUnit * thresholds[j] \in Int
      BY <2>8, GuardAssumption
    <3> QED BY <1>2, <2>5, <2>6, <2>7, <2>9, <3>1, ProductOrder
  <2> QED BY <2>9, <2>10 DEF Held, kept, p, A, g2, s2
<1> QED BY <1>8, <1>9

\* One frame through the limiter.
LEMMA LimitedSound ==
  ASSUME NEW l, NEW thresholds, LimiterSound(l, thresholds), NEW peak \in Nat
  PROVE  LET kept == Kept(<<l.threshold>> \o thresholds)
         IN /\ LimiterSound(Limited(l, peak), kept) /\ OutSound(Limited(l, peak), kept, l.line[1])
            /\ Limited(l, peak).threshold = l.threshold
<1> DEFINE kept == Kept(<<l.threshold>> \o thresholds)
           line == Append(Tail(l.line), peak)
           queue == Pushed(l, peak)
           m == Limited(l, peak)
<1>1. /\ l \in LimiterFields /\ QueueSound(l.queue, l.line)
      /\ thresholds \in Seq(Nat) /\ Len(thresholds) <= AttackFrames /\ Len(thresholds) \in Nat
      /\ l.threshold \in Nat /\ l.line \in Seq(Nat) /\ Len(l.line) = Delay
      /\ Delay \in Nat \ {0} /\ AttackFrames \in Nat \ {0} /\ AttackFrames <= Delay
  <2>1. l.threshold \in Nat
    BY DEF LimiterSound, LimiterFields
  <2>2. l.line \in Seq(Nat) /\ Len(l.line) = Delay
    BY DEF LimiterSound, QueueSound
  <2>3. thresholds \in Seq(Nat)
    BY DEF LimiterSound
  <2>4. Len(thresholds) \in Nat
    BY <2>3
  <2>5. AttackFrames <= Delay
    BY DelayIs, GuardAssumption
  <2> QED BY <2>1, <2>2, <2>3, <2>4, <2>5, DelayIs DEF LimiterSound
<1>2. QueueSound(queue, line)
  BY <1>1, PushSound
<1>3. /\ line[Delay] = peak
      /\ \A i \in 1..Delay - 1 : line[i] = l.line[i + 1] /\ i + 1 \in 1..Delay
  BY <1>1
<1>4. Moved(l) \in LimiterFields /\ Moved(l).threshold = l.threshold
  <2>1. 0 \in Nat /\ Front(l.queue) \in Nat /\ 0 <= Front(l.queue)
    BY <1>1, FrontIsGreatest
  <2> QED BY <1>1, <2>1, MovedHolds
<1>5. queue \in Seq(Candidates) /\ line \in Seq(Nat)
  BY <1>2 DEF QueueSound
<1> HIDE DEF line, queue
<1>6. /\ m \in LimiterFields /\ m.threshold = l.threshold /\ m.line = line /\ m.queue = queue
      /\ m.gain = Moved(l).gain /\ m.step = Moved(l).step
  <2>1. m = [Moved(l) EXCEPT !.line = line, !.queue = queue]
    BY DEF Limited, line, queue
  <2> HIDE DEF m
  <2> QED BY <1>4, <1>5, <2>1 DEF LimiterFields
<1> HIDE DEF m
<1>7. /\ kept \in Seq(Nat) /\ Len(kept) <= AttackFrames /\ Len(kept) > 0
      /\ Len(kept) < AttackFrames => Len(kept) = Len(thresholds) + 1
  BY <1>1, KeptIs
<1>8. ASSUME NEW i \in 1..Delay, NEW k \in 1..Len(kept), k - 1 <= Delay - i
      PROVE  Held(m.gain, m.step, kept, l.line[i], k)
  <2>1. Held(Moved(l).gain, Moved(l).step, kept, l.line[i], k)
    BY <1>8, HoldsOn
  <2> QED BY <1>6, <2>1
<1> HIDE DEF kept
<1>9. Len(kept) \in Nat
  BY <1>7
<1>10. ASSUME NEW i \in 1..Delay, NEW k \in 1..Len(kept), k <= Delay - i
       PROVE  Held(m.gain, m.step, kept, m.line[i], k)
  <2>1. i \in 1..Delay - 1 /\ i + 1 \in 1..Delay /\ k - 1 <= Delay - (i + 1)
    BY <1>1, <1>9, <1>10
  <2>2. Held(m.gain, m.step, kept, l.line[i + 1], k)
    BY <1>8, <2>1
  <2> QED BY <1>3, <1>6, <2>1, <2>2
<1>11. ASSUME Len(kept) < AttackFrames
       PROVE  /\ \A i \in 1..Delay : Delay - i >= Len(kept) => m.line[i] = 0
              /\ l.line[1] = 0
  <2>1. Len(kept) = Len(thresholds) + 1 /\ Len(thresholds) < AttackFrames
    BY <1>1, <1>7, <1>9, <1>11
  <2>2. \A i \in 1..Delay : Delay - i >= Len(thresholds) => l.line[i] = 0
    BY <2>1 DEF LimiterSound
  <2>3. ASSUME NEW i \in 1..Delay, Delay - i >= Len(kept) PROVE m.line[i] = 0
    <3>1. i \in 1..Delay - 1 /\ i + 1 \in 1..Delay /\ Delay - (i + 1) >= Len(thresholds)
      BY <1>1, <2>1, <2>3
    <3> QED BY <1>3, <1>6, <2>2, <3>1
  <2>4. 1 \in 1..Delay /\ Delay - 1 >= Len(thresholds)
    BY <1>1, <1>11, <2>1
  <2> QED BY <2>2, <2>3, <2>4
<1>12. LimiterSound(m, kept)
  BY <1>2, <1>6, <1>7, <1>10, <1>11 DEF LimiterSound
<1>13. OutSound(m, kept, l.line[1])
  <2>1. 1 \in 1..Delay /\ l.line[1] \in Nat
    BY <1>1
  <2>2. ASSUME NEW k \in 1..Len(kept) PROVE Held(m.gain, m.step, kept, l.line[1], k)
    <3>1. k - 1 <= Delay - 1
      BY <1>1, <1>7, <1>9
    <3> QED BY <1>8, <2>1, <3>1
  <2> QED BY <1>11, <2>1, <2>2 DEF OutSound
<1> QED BY <1>6, <1>12, <1>13 DEF kept, m

\* Another threshold concerns the next move only.
LEMMA ThresholdSound ==
  ASSUME NEW l, NEW thresholds, NEW peak, NEW t \in Nat \ {0},
         LimiterSound(l, thresholds), OutSound(l, thresholds, peak)
  PROVE  LET next == [l EXCEPT !.threshold = t]
         IN /\ LimiterSound(next, thresholds) /\ OutSound(next, thresholds, peak)
            /\ next.threshold = t
<1> DEFINE next == [l EXCEPT !.threshold = t]
<1>1. l \in LimiterFields
  BY DEF LimiterSound
<1>2. /\ next \in LimiterFields /\ next.threshold = t /\ next.line = l.line
      /\ next.queue = l.queue /\ next.gain = l.gain /\ next.step = l.step
  BY <1>1 DEF LimiterFields
<1> HIDE DEF next
<1>3. LimiterSound(next, thresholds)
  BY <1>2 DEF LimiterSound
<1>4. OutSound(next, thresholds, peak)
  BY <1>2 DEF OutSound
<1> QED BY <1>2, <1>3, <1>4 DEF next

\* The limiter keeps room for the shaper's setting of the block, and holds its peaks.
GuardSettings == [limiter : Settings, shaper : Errors]
GuardSound ==
  /\ published \in GuardSettings /\ adopted \in GuardSettings
  /\ turn \in {"limiter", "shaper"} /\ latch = adopted.shaper
  /\ turn = "limiter" => shaped = latch
  /\ limiter.threshold = Guarded(adopted.limiter, adopted.shaper)
  /\ LimiterSound(limiter, recent) /\ OutSound(limiter, recent, out)

\* The threshold that leaves the shaper its head-room is positive.
LEMMA GuardedIs ==
  ASSUME NEW p \in GuardSettings
  PROVE  Guarded(p.limiter, p.shaper) \in Nat \ {0}
<1>1. p.limiter.ceiling \in Nat /\ p.shaper \in Nat
  BY GuardAssumption DEF GuardSettings, Setting
<1> QED BY <1>1 DEF Guarded, Bigger

\* What a render makes of a sound limiter.
LEMMA RenderSound ==
  ASSUME NEW l, NEW thresholds, LimiterSound(l, thresholds), NEW peak \in Nat,
         Render(l, peak, thresholds)
  PROVE  /\ LimiterSound(limiter', recent') /\ OutSound(limiter', recent', out')
         /\ limiter'.threshold = l.threshold
<1>1. /\ limiter' = Limited(l, peak) /\ out' = l.line[1]
      /\ recent' = Kept(<<l.threshold>> \o thresholds)
  BY DEF Render
<1> QED BY <1>1, LimitedSound

\* `sync_params` leaves a sound limiter at the new threshold.
LEMMA SyncedSound ==
  ASSUME GuardSound
  PROVE  /\ LimiterSound(Synced, RecentSynced) /\ OutSound(Synced, RecentSynced, out)
         /\ Synced.threshold = Guarded(published.limiter, published.shaper)
<1> DEFINE t == Guarded(published.limiter, published.shaper)
<1>1. t \in Nat \ {0}
  BY GuardedIs DEF GuardSound
<1>2. CASE Stays
  <2>1. Synced = [limiter EXCEPT !.threshold = t] /\ RecentSynced = recent
    BY <1>2 DEF Synced, RecentSynced
  <2> HIDE DEF t
  <2>2. LimiterSound(limiter, recent) /\ OutSound(limiter, recent, out)
    BY DEF GuardSound
  <2> QED BY <1>1, <2>1, <2>2, ThresholdSound DEF t
<1>3. CASE ~Stays
  <2>1. Synced = FreshLimiter(t) /\ RecentSynced = <<>>
    BY <1>3 DEF Synced, RecentSynced
  <2>2. FreshLimiter(t).threshold = t
    BY DEF FreshLimiter
  <2> HIDE DEF t
  <2> QED BY <1>1, <2>1, <2>2, FreshLimiterSound DEF t
<1> QED BY <1>2, <1>3

\* The limiter's `process`, after its own `sync_params`.
LEMMA LimiterProcessSound ==
  ASSUME GuardSound, NEW frames, LimiterProcess(frames),
         frames # <<>> => frames[1] \in Nat
  PROVE  GuardSound'
<1>1. /\ adopted' = published /\ published' = published /\ latch' = published.shaper
      /\ turn' = "shaper"
  BY DEF LimiterProcess
<1>2. /\ LimiterSound(Synced, RecentSynced) /\ OutSound(Synced, RecentSynced, out)
      /\ Synced.threshold = Guarded(published.limiter, published.shaper)
  BY SyncedSound
<1>3. /\ LimiterSound(limiter', recent') /\ OutSound(limiter', recent', out')
      /\ limiter'.threshold = Guarded(published.limiter, published.shaper)
  <2>1. CASE published.limiter.enabled /\ frames # <<>>
    <3>1. Render(Synced, frames[1], RecentSynced)
      BY <2>1 DEF LimiterProcess
    <3> QED BY <1>2, <2>1, <3>1, RenderSound
  <2>2. CASE ~(published.limiter.enabled /\ frames # <<>>)
    <3>1. limiter' = Synced /\ recent' = RecentSynced /\ out' = out
      BY <2>2 DEF LimiterProcess
    <3> QED BY <1>2, <3>1
  <2> QED BY <2>1, <2>2
<1>4. LimiterSound(limiter, recent)' /\ OutSound(limiter, recent, out)'
  BY <1>3 DEF LimiterSound, OutSound
<1> QED BY <1>1, <1>3, <1>4 DEF GuardSound

\* The limiter's `finish`: a silent frame, or none.
LEMMA LimiterFinishSound ==
  ASSUME GuardSound, NEW frames, LimiterFinish(frames)
  PROVE  GuardSound'
<1>1. /\ adopted' = adopted /\ published' = published /\ latch' = latch /\ turn' = "shaper"
  BY DEF LimiterFinish
<1>2. UNCHANGED <<limiter, out, recent>> \/ Render(limiter, 0, recent)
  BY DEF LimiterFinish
<1>3. /\ LimiterSound(limiter', recent') /\ OutSound(limiter', recent', out')
      /\ limiter'.threshold = limiter.threshold
  <2>1. CASE UNCHANGED <<limiter, out, recent>>
    BY <2>1 DEF GuardSound
  <2>2. CASE Render(limiter, 0, recent)
    <3>1. 0 \in Nat /\ LimiterSound(limiter, recent)
      BY DEF GuardSound
    <3> QED BY <2>2, <3>1, RenderSound
  <2> QED BY <1>2, <2>1, <2>2
<1>4. LimiterSound(limiter, recent)' /\ OutSound(limiter, recent, out)'
  BY <1>3 DEF LimiterSound, OutSound
<1> QED BY <1>1, <1>3, <1>4 DEF GuardSound

\* Every step of the two stages keeps all this.
LEMMA GuardStep ==
  ASSUME GuardSound, [GuardNext]_guardVars
  PROVE  GuardSound'
<1>1. CASE PublishGuarded
  <2>1. UNCHANGED <<adopted, latch, shaped, limiter, drain, turn, out, recent>>
    BY <1>1 DEF PublishGuarded
  <2>2. published' \in GuardSettings
    BY <1>1 DEF PublishGuarded, GuardSound, GuardSettings
  <2>3. LimiterSound(limiter, recent)' /\ OutSound(limiter, recent, out)'
    BY <2>1 DEF GuardSound, LimiterSound, OutSound
  <2> QED BY <2>1, <2>2, <2>3 DEF GuardSound
<1>2. CASE ShaperProcess
  <2>1. /\ UNCHANGED <<published, adopted, latch, limiter, drain, out, recent>>
        /\ turn' = "limiter" /\ shaped' = latch
    BY <1>2 DEF ShaperProcess, BlockSetting
  <2>2. LimiterSound(limiter, recent)' /\ OutSound(limiter, recent, out)'
    BY <2>1 DEF GuardSound, LimiterSound, OutSound
  <2> QED BY <2>1, <2>2 DEF GuardSound
<1>3. CASE GuardReset
  <2>1. /\ UNCHANGED <<published, adopted, latch, shaped, turn>>
        /\ limiter' = FreshLimiter(limiter.threshold) /\ recent' = <<>>
    BY <1>3 DEF GuardReset
  <2>2. limiter.threshold \in Nat \ {0} /\ FreshLimiter(limiter.threshold).threshold = limiter.threshold
    BY DEF GuardSound, LimiterSound, LimiterFields, FreshLimiter
  <2>3. LimiterSound(limiter', recent') /\ OutSound(limiter', recent', out')
    BY <2>1, <2>2, FreshLimiterSound
  <2>4. LimiterSound(limiter, recent)' /\ OutSound(limiter, recent, out)'
    BY <2>3 DEF LimiterSound, OutSound
  <2> QED BY <2>1, <2>2, <2>4 DEF GuardSound
<1>4. ASSUME NEW peak \in Peaks, LimiterProcess(<<peak>>) PROVE GuardSound'
  <2>1. <<peak>>[1] \in Nat
    BY GuardAssumption
  <2> QED BY <1>4, <2>1, LimiterProcessSound
<1>5. CASE LimiterProcess(<<>>)
  BY <1>5, LimiterProcessSound
<1>6. ASSUME NEW frames \in {0, 1}, LimiterFinish(frames) PROVE GuardSound'
  BY <1>6, LimiterFinishSound
<1>7. CASE UNCHANGED guardVars
  <2>1. UNCHANGED <<published, adopted, latch, shaped, limiter, turn, out, recent>>
    BY <1>7 DEF guardVars
  <2>2. LimiterSound(limiter, recent)' /\ OutSound(limiter, recent, out)'
    BY <2>1 DEF GuardSound, LimiterSound, OutSound
  <2> QED BY <2>1, <2>2 DEF GuardSound
<1> QED BY <1>1, <1>2, <1>3, <1>4, <1>5, <1>6, <1>7 DEF GuardNext

\* For every look-ahead, release and sequence of peaks and settings, each frame leaves
\* under the highest threshold of the last ramp, in which the shaper of the same block
\* finds its head-room: the linear attack of limiter.rs in time, however it is retargeted.
THEOREM CeilingKept == GuardSpec => []CeilingHolds
<1>1. GuardInit => GuardSound
  <2> SUFFICES ASSUME GuardInit PROVE GuardSound
    OBVIOUS
  <2>1. /\ published \in GuardSettings /\ adopted = published /\ latch = published.shaper
        /\ shaped = latch /\ turn = "limiter" /\ recent = <<>>
        /\ limiter = FreshLimiter(Guarded(adopted.limiter, adopted.shaper))
    BY DEF GuardInit, GuardSettings
  <2> DEFINE t == Guarded(adopted.limiter, adopted.shaper)
  <2>2. t \in Nat \ {0} /\ FreshLimiter(t).threshold = t
    BY <2>1, GuardedIs DEF FreshLimiter
  <2> HIDE DEF t
  <2>3. LimiterSound(FreshLimiter(t), <<>>) /\ OutSound(FreshLimiter(t), <<>>, out)
    BY <2>2, FreshLimiterSound
  <2> QED BY <2>1, <2>2, <2>3 DEF GuardSound, t
<1>2. GuardSound /\ [GuardNext]_guardVars => GuardSound'
  BY GuardStep
<1>3. GuardSound => CeilingHolds
  <2> SUFFICES ASSUME GuardSound PROVE CeilingHolds
    OBVIOUS
  <2>1. turn = "limiter" =>
          shaped = adopted.shaper /\ limiter.threshold = Guarded(adopted.limiter, shaped)
    BY DEF GuardSound
  <2>2. ASSUME recent # <<>>, NEW peak \in {out} \cup {limiter.line[i] : i \in 1..Settle}
        PROVE  limiter.gain * peak <= GainUnit * Highest(recent)
    <3> DEFINE n == Len(recent)
    <3>1. /\ recent \in Seq(Nat) /\ n \in Nat \ {0} /\ n <= AttackFrames
          /\ limiter \in LimiterFields /\ limiter.line \in Seq(Nat) /\ Len(limiter.line) = Delay
      <4>1. recent \in Seq(Nat)
        BY DEF GuardSound, LimiterSound
      <4>2. n \in Nat \ {0}
        BY <2>2, <4>1
      <4> QED BY <4>1, <4>2 DEF GuardSound, LimiterSound, QueueSound
    <3>2. \A i \in 1..n : recent[i] <= Highest(recent) /\ Highest(recent) \in Nat
      BY <2>2, <3>1, HighestIs
    <3>3. Highest(recent) \in Nat /\ limiter.gain \in Nat /\ limiter.step \in Nat /\ GainUnit \in Nat
      BY <3>1, <3>2, GuardAssumption DEF LimiterFields
    <3>4. /\ peak \in Nat
          /\ n < AttackFrames => peak = 0
          /\ n = AttackFrames => Held(limiter.gain, limiter.step, recent, peak, n)
      <4>1. CASE peak = out
        <5>1. n \in 1..n
          BY <3>1
        <5> QED BY <2>2, <4>1, <5>1 DEF GuardSound, OutSound
      <4>2. ASSUME NEW i \in 1..Settle, peak = limiter.line[i]
            PROVE  /\ peak \in Nat /\ (n < AttackFrames => peak = 0)
                   /\ n = AttackFrames => Held(limiter.gain, limiter.step, recent, peak, n)
        <5>0. i <= Settle /\ i >= 1 /\ i \in Nat /\ Window \in Nat
          BY DelayIs, GuardAssumption
        <5>1. i \in 1..Delay /\ Delay - i >= AttackFrames /\ n \in 1..n
          BY <3>1, <5>0, DelayIs
        <5>2. Delay - i >= n /\ n <= Delay - i
          BY <3>1, <5>1, DelayIs
        <5>3. peak \in Nat
          BY <3>1, <4>2, <5>1
        <5> QED BY <4>2, <5>1, <5>2, <5>3 DEF GuardSound, LimiterSound
      <4> QED BY <4>1, <4>2
    <3>5. CASE n < AttackFrames
      <4>1. GainUnit * Highest(recent) \in Nat
        BY <3>3, ProductNat
      <4>2. limiter.gain * peak = 0
        BY <3>3, <3>4, <3>5
      <4> QED BY <4>1, <4>2
    <3>6. CASE n = AttackFrames
      <4>1. PICK j \in 1..n : (limiter.gain - limiter.step * (AttackFrames - n)) * peak
                               <= GainUnit * recent[j]
        BY <3>4, <3>6 DEF Held
      <4>2. limiter.gain - limiter.step * (AttackFrames - n) = limiter.gain
        BY <3>1, <3>3, <3>6
      <4>3. recent[j] \in Nat /\ recent[j] <= Highest(recent)
        BY <3>1, <3>2
      <4>4. GainUnit * recent[j] <= GainUnit * Highest(recent)
        BY <3>3, <4>3
      <4>5. limiter.gain * peak \in Nat /\ GainUnit * recent[j] \in Nat
            /\ GainUnit * Highest(recent) \in Nat
        BY <3>3, <3>4, <4>3, ProductNat
      <4> QED BY <4>1, <4>2, <4>4, <4>5
    <3> QED BY <3>1, <3>5, <3>6, DelayIs
  <2> QED BY <2>1, <2>2 DEF CeilingHolds
<1> QED BY <1>1, <1>2, <1>3, PTL DEF GuardSpec

-----------------------------------------------------------------------------
(* The resampler around the backends of another library.                   *)

\* What was fed to a backend, frame by frame; what it can have made of that before it
\* is drained; and what output frame n is made of when all f frames were fed.
Numbered(f) == [i \in 1..f |-> i]
ReadyOf(f) == MadeOf(Numbered(f), FALSE)
Right(n, f) == IF SourceOf(n) <= f THEN SourceOf(n) ELSE 0

Rates == Layout.from \in Nat \ {0} /\ Layout.to \in Nat \ {0}

\* Quotients grow with the dividend.
LEMMA QuotientGrows ==
  ASSUME NEW a \in Nat, NEW b \in Nat, NEW d \in Nat \ {0}, a <= b
  PROVE  a \div d <= b \div d
BY Quotient

\* Durations and sources are natural numbers that grow.
LEMMA DurationIs ==
  ASSUME Rates, NEW f \in Nat, NEW g \in Nat, f <= g
  PROVE  RoundedDuration(f) \in Nat /\ RoundedDuration(f) <= RoundedDuration(g)
<1> DEFINE a == 2 * f * Layout.to + Layout.from
           b == 2 * g * Layout.to + Layout.from
           d == 2 * Layout.from
<1>1. a \in Nat /\ b \in Nat /\ d \in Nat \ {0} /\ a <= b
  <2>1. f * Layout.to \in Nat /\ g * Layout.to \in Nat /\ f * Layout.to <= g * Layout.to
    BY DEF Rates
  <2>2. 2 * f * Layout.to = 2 * (f * Layout.to) /\ 2 * g * Layout.to = 2 * (g * Layout.to)
    BY DEF Rates
  <2> QED BY <2>1, <2>2 DEF Rates
<1>2. RoundedDuration(f) = a \div d /\ RoundedDuration(g) = b \div d
  BY DEF RoundedDuration
<1> HIDE DEF a, b, d
<1> QED BY <1>1, <1>2, Quotient, QuotientGrows

\* The input frame an output frame is made of: never an earlier one for a later frame.
LEMMA SourceIs ==
  ASSUME Rates, NEW n \in Nat \ {0}, NEW m \in Nat \ {0}, n <= m
  PROVE  SourceOf(n) \in Nat \ {0} /\ SourceOf(n) <= SourceOf(m)
<1> DEFINE a == (n - 1) * Layout.from
           b == (m - 1) * Layout.from
<1>1. a \in Nat /\ b \in Nat /\ a <= b
  BY DEF Rates
<1>2. SourceOf(n) = (a \div Layout.to) + 1 /\ SourceOf(m) = (b \div Layout.to) + 1
  BY DEF SourceOf
<1> HIDE DEF a, b
<1>3. a \div Layout.to \in Nat /\ b \div Layout.to \in Nat /\ a \div Layout.to <= b \div Layout.to
  BY <1>1, Quotient, QuotientGrows DEF Rates
<1> QED BY <1>2, <1>3

\* At equal rates frames stay what they are.
LEMMA Unconverted ==
  ASSUME Rates, SameRate
  PROVE  /\ \A n \in Nat : RoundedDuration(n) = n
         /\ \A n \in Nat \ {0} : SourceOf(n) = n
<1> DEFINE d == Layout.from
<1>1. d \in Nat \ {0} /\ Layout.to = d
  BY DEF Rates, SameRate
<1>2. ASSUME NEW n \in Nat PROVE RoundedDuration(n) = n
  <2>1. RoundedDuration(n) = (2 * n * d + d) \div (2 * d)
    BY <1>1 DEF RoundedDuration
  <2> HIDE DEF d
  <2> DEFINE e == 2 * d
  <2>2. 2 * n * d + d = e * n + d /\ e \in Nat \ {0} /\ d < e
    BY <1>1
  <2>3. e * n \in Nat
    BY <2>2
  <2> HIDE DEF e
  <2>4. (e * n + d) \div e = n
    BY <1>1, <2>2, <2>3
  <2> QED BY <2>1, <2>2, <2>4 DEF e
<1>3. ASSUME NEW n \in Nat \ {0} PROVE SourceOf(n) = n
  <2>1. SourceOf(n) = (((n - 1) * d) \div d) + 1
    BY <1>1 DEF SourceOf
  <2> HIDE DEF d
  <2>2. ((n - 1) * d) \div d = n - 1
    BY <1>1
  <2> QED BY <2>1, <2>2
<1> QED BY <1>2, <1>3

\* The frames that are ready are the first ones, those whose look-ahead was fed.
LEMMA ReadyAre ==
  ASSUME Rates, NEW f \in Nat
  PROVE  /\ ReadyOf(f) \in Nat /\ ReadyOf(f) <= RoundedDuration(f)
         /\ \A n \in Nat \ {0} : n <= ReadyOf(f) <=> n <= RoundedDuration(f) /\ SourceOf(n) + Lookahead <= f
<1> DEFINE d == RoundedDuration(f)
           S == {n \in 1..d : SourceOf(n) + Lookahead <= f}
           Out == {n \in Nat : n + 1 \notin S}
<1>1. d \in Nat /\ Lookahead \in Nat
  BY DurationIs, ResamplerAssumption
<1>2. ReadyOf(f) = Cardinality(S)
  <2>1. Len(Numbered(f)) = f
    BY DEF Numbered
  <2> QED BY <2>1 DEF ReadyOf, MadeOf
<1> HIDE DEF d
<1>3. PICK k \in Out : \A m \in Out : k <= m
  <2>1. d \in Out
    BY <1>1
  <2>2. Out \subseteq Nat
    OBVIOUS
  <2> HIDE DEF Out
  <2> QED BY <2>1, <2>2, LeastNatural
<1>4. S = 1..k
  <2>1. ASSUME NEW n \in 1..k PROVE n \in S
    <3>1. n - 1 \in Nat /\ n - 1 < k
      BY <2>1
    <3>2. n - 1 \notin Out
      BY <1>3, <3>1
    <3> QED BY <3>1, <3>2
  <2>2. ASSUME NEW n \in S, n > k PROVE FALSE
    <3>1. n \in 1..d /\ k + 1 \in 1..d /\ k + 1 <= n
      BY <1>1, <1>3, <2>2
    <3>2. SourceOf(k + 1) \in Nat /\ SourceOf(n) \in Nat /\ SourceOf(k + 1) <= SourceOf(n)
      <4>1. k + 1 \in Nat \ {0} /\ n \in Nat \ {0}
        BY <3>1
      <4> QED BY <3>1, <4>1, SourceIs
    <3>3. SourceOf(n) + Lookahead <= f
      BY <2>2
    <3>4. k + 1 \in S
      BY <1>1, <3>1, <3>2, <3>3
    <3> QED BY <1>3, <3>4
  <2>3. S \subseteq 1..d /\ k \in Nat
    BY <1>3
  <2> QED BY <1>1, <2>1, <2>2, <2>3
<1>5. Cardinality(S) = k
  <2>1. k \in Nat
    BY <1>3
  <2>2. Cardinality(1..k) = k
    BY <2>1, FS_Interval
  <2> QED BY <1>4, <2>2
<1>6. k <= d
  <2>1. d \in Out
    BY <1>1
  <2> QED BY <1>3, <2>1
<1>7. ASSUME NEW n \in Nat \ {0} PROVE n <= k <=> n <= d /\ SourceOf(n) + Lookahead <= f
  <2>1. n \in 1..k <=> n \in S
    BY <1>4
  <2> HIDE DEF Out
  <2>2. k \in Nat
    BY <1>3 DEF Out
  <2> QED BY <1>1, <2>1, <2>2
<1> QED BY <1>1, <1>2, <1>3, <1>5, <1>6, <1>7 DEF d

\* More input makes no fewer frames ready, and what is ready was fed.
LEMMA ReadyGrows ==
  ASSUME Rates, NEW f \in Nat, NEW g \in Nat, f <= g
  PROVE  /\ ReadyOf(f) <= ReadyOf(g)
         /\ \A n \in Nat \ {0} : n <= ReadyOf(f) => Right(n, f) = SourceOf(n) /\ Right(n, g) = SourceOf(n)
<1>1. ReadyOf(f) \in Nat /\ ReadyOf(g) \in Nat /\ RoundedDuration(f) \in Nat /\ RoundedDuration(g) \in Nat
      /\ RoundedDuration(f) <= RoundedDuration(g) /\ Lookahead \in Nat
  BY ReadyAre, DurationIs, ResamplerAssumption
<1>2. ASSUME NEW n \in Nat \ {0}, n <= ReadyOf(f)
      PROVE  /\ SourceOf(n) \in Nat /\ SourceOf(n) + Lookahead <= f
             /\ n <= ReadyOf(g)
  <2>1. n <= RoundedDuration(f) /\ SourceOf(n) + Lookahead <= f
    BY <1>2, ReadyAre
  <2>2. SourceOf(n) \in Nat
    BY SourceIs
  <2>3. n <= RoundedDuration(g) /\ SourceOf(n) + Lookahead <= g
    BY <1>1, <2>1, <2>2
  <2> QED BY <2>1, <2>2, <2>3, ReadyAre
<1>3. ReadyOf(f) <= ReadyOf(g)
  <2>1. CASE ReadyOf(f) = 0
    BY <1>1, <2>1
  <2>2. CASE ReadyOf(f) # 0
    <3> DEFINE n == ReadyOf(f)
    <3>1. n \in Nat \ {0} /\ n <= ReadyOf(f)
      BY <1>1, <2>2
    <3> HIDE DEF n
    <3>2. n <= ReadyOf(g)
      BY <1>2, <3>1
    <3> QED BY <3>2 DEF n
  <2> QED BY <2>1, <2>2
<1>4. ASSUME NEW n \in Nat \ {0}, n <= ReadyOf(f)
      PROVE  Right(n, f) = SourceOf(n) /\ Right(n, g) = SourceOf(n)
  BY <1>1, <1>2, <1>4 DEF Right
<1> QED BY <1>3, <1>4

\* Frames that are fed come after those that were.
LEMMA FedOn ==
  ASSUME NEW f \in Nat, NEW n \in Nat, NEW c \in 0..n
  PROVE  /\ Numbered(f) \o SubSeq([i \in 1..n |-> f + i], 1, c) = Numbered(f + c)
         /\ Len(Numbered(f)) = f
<1> DEFINE piece == [i \in 1..n |-> f + i]
           part == SubSeq(piece, 1, c)
           before == Numbered(f)
           all == before \o part
<1>1. before \in Seq(Int) /\ Len(before) = f /\ \A i \in 1..f : before[i] = i
  BY DEF Numbered
<1>2. piece \in Seq(Int) /\ Len(piece) = n
  OBVIOUS
<1>3. part \in Seq(Int) /\ Len(part) = c /\ \A i \in 1..c : part[i] = f + i
  BY <1>2
<1> HIDE DEF part, before
<1>4. /\ all \in Seq(Int) /\ Len(all) = f + c
      /\ \A i \in 1..f + c : all[i] = IF i <= f THEN before[i] ELSE part[i - f]
  <2>1. before \in Seq(Int) /\ part \in Seq(Int)
    BY <1>1, <1>3
  <2>2. /\ all \in Seq(Int) /\ Len(all) = Len(before) + Len(part)
        /\ \A i \in 1..Len(all) : all[i] = IF i <= Len(before) THEN before[i] ELSE part[i - Len(before)]
    BY <2>1, Joined
  <2> HIDE DEF all
  <2> QED BY <1>1, <1>3, <2>2
<1> HIDE DEF all
<1>5. ASSUME NEW i \in 1..f + c PROVE all[i] = i
  <2>1. CASE i <= f
    BY <1>1, <1>4, <2>1
  <2>2. CASE i > f
    <3> DEFINE j == i - f
    <3>1. j \in 1..c /\ i = f + j /\ ~(i <= f)
      BY <2>2
    <3>2. all[i] = part[j]
      BY <1>4, <3>1
    <3> QED BY <1>3, <3>1, <3>2
  <2> QED BY <2>1, <2>2
<1>6. Numbered(f + c) \in Seq(Int) /\ Len(Numbered(f + c)) = f + c /\ \A i \in 1..f + c : Numbered(f + c)[i] = i
  BY DEF Numbered
<1>7. all = Numbered(f + c)
  BY <1>4, <1>5, <1>6
<1> QED BY <1>1, <1>7 DEF part, before, all

\* A backend after f frames of input and m of output.
Backend(f, m, drained) == [fed |-> Numbered(f), made |-> m, drained |-> drained]

\* The frames it takes of n more to fill the room, and those it makes of them.
Taking(f, m, n, room) ==
  LET enough == {c \in 0..n : ReadyOf(f + c) - m >= room}
  IN IF enough = {} THEN n ELSE CHOOSE k \in enough : \A j \in enough : k <= j
Making(f, m, n, room) == FewerOf(room, ReadyOf(f + Taking(f, m, n, room)) - m)

\* What it takes and makes: something, if there is input and room.
LEMMA TakingIs ==
  ASSUME Rates, NEW f \in Nat, NEW m \in Nat, NEW n \in Nat, NEW room \in Nat, m <= ReadyOf(f)
  PROVE  /\ Taking(f, m, n, room) \in 0..n
         /\ Making(f, m, n, room) \in 0..room
         /\ m + Making(f, m, n, room) <= ReadyOf(f + Taking(f, m, n, room))
         /\ n > 0 /\ room > 0 => Taking(f, m, n, room) + Making(f, m, n, room) > 0
<1> DEFINE enough == {c \in 0..n : ReadyOf(f + c) - m >= room}
           c == Taking(f, m, n, room)
           p == Making(f, m, n, room)
<1>1. c \in 0..n /\ (enough = {} => c = n) /\ (enough # {} => c \in enough)
  <2>1. CASE enough = {}
    BY <2>1 DEF Taking
  <2>2. CASE enough # {}
    <3>1. enough \subseteq Nat
      OBVIOUS
    <3>2. \E k \in enough : \A j \in enough : k <= j
      <4> HIDE DEF enough
      <4> QED BY <2>2, <3>1, LeastNatural
    <3>3. c = CHOOSE k \in enough : \A j \in enough : k <= j
      BY <2>2 DEF Taking
    <3>4. c \in enough
      <4> HIDE DEF enough, c
      <4> QED BY <3>2, <3>3
    <3> QED BY <2>2, <3>4
  <2> QED BY <2>1, <2>2
<1>2. p = FewerOf(room, ReadyOf(f + c) - m)
  BY DEF Making
<1>3. f + c \in Nat /\ f <= f + c
  BY <1>1
<1>4. ReadyOf(f + c) \in Nat /\ ReadyOf(f) \in Nat /\ ReadyOf(f) <= ReadyOf(f + c)
  <2> HIDE DEF c
  <2> QED BY <1>3, ReadyAre, ReadyGrows
<1>5. p \in 0..room /\ m + p <= ReadyOf(f + c)
  <2> HIDE DEF c, p
  <2> QED BY <1>2, <1>4 DEF FewerOf
<1>6. ASSUME n > 0, room > 0 PROVE c + p > 0
  <2>1. CASE enough = {}
    <3> HIDE DEF c, p
    <3> QED BY <1>1, <1>5, <1>6, <2>1
  <2>2. CASE enough # {}
    <3>1. ReadyOf(f + c) - m >= room
      <4> HIDE DEF c
      <4> QED BY <1>1, <2>2
    <3> HIDE DEF c, p
    <3> QED BY <1>1, <1>2, <1>4, <1>6, <3>1 DEF FewerOf
  <2> QED BY <2>1, <2>2
<1> QED BY <1>1, <1>5, <1>6

\* A call on a backend takes and makes just that.
LEMMA ProcessedIs ==
  ASSUME Rates, NEW f \in Nat, NEW m \in Nat, NEW n \in Nat, NEW room \in Nat, m <= ReadyOf(f), NEW drained
  PROVE  Processed(Backend(f, m, drained), [i \in 1..n |-> f + i], room) =
           [backend |-> Backend(f + Taking(f, m, n, room), m + Making(f, m, n, room), drained),
            consumed |-> Taking(f, m, n, room), produced |-> Making(f, m, n, room)]
<1> DEFINE b == Backend(f, m, drained)
           piece == [i \in 1..n |-> f + i]
           enough == {c \in 0..n : MadeOf(b.fed \o SubSeq(piece, 1, c), FALSE) - b.made >= room}
           c == IF enough = {} THEN n ELSE CHOOSE k \in enough : \A j \in enough : k <= j
           after == [b EXCEPT !.fed = b.fed \o SubSeq(piece, 1, c)]
           count == FewerOf(room, MadeOf(after.fed, FALSE) - b.made)
<1>1. Len(piece) = n
  OBVIOUS
<1>2. b.fed = Numbered(f) /\ b.made = m /\ b.drained = drained
  BY DEF Backend
<1>3. \A k \in 0..n : b.fed \o SubSeq(piece, 1, k) = Numbered(f + k)
  <2>1. \A k \in 0..n : Numbered(f) \o SubSeq(piece, 1, k) = Numbered(f + k)
    BY FedOn
  <2> HIDE DEF b, piece
  <2> QED BY <1>2, <2>1
<1>4. enough = {k \in 0..n : ReadyOf(f + k) - m >= room}
  <2> HIDE DEF b, piece
  <2> QED BY <1>2, <1>3 DEF ReadyOf
<1>5. c = Taking(f, m, n, room)
  <2> HIDE DEF enough
  <2> QED BY <1>4 DEF Taking
<1>6. c \in 0..n
  <2> HIDE DEF c
  <2> QED BY <1>5, TakingIs
<1>7. after = Backend(f + c, m, drained)
  <2> DEFINE g == b.fed \o SubSeq(piece, 1, c)
  <2>1. g = Numbered(f + c)
    <3> HIDE DEF c
    <3> QED BY <1>3, <1>6
  <2> HIDE DEF g
  <2>2. [Backend(f, m, drained) EXCEPT !.fed = g] = [fed |-> g, made |-> m, drained |-> drained]
    BY DEF Backend
  <2>3. [b EXCEPT !.fed = g] = Backend(f + c, m, drained)
    BY <2>1, <2>2, Zenon DEF Backend
  <2> QED BY <2>3 DEF g
<1>8. count = Making(f, m, n, room)
  <2> HIDE DEF c, after
  <2> QED BY <1>2, <1>5, <1>7 DEF Making, ReadyOf, Backend
<1>9. Processed(b, piece, room) =
        [backend |-> [after EXCEPT !.made = after.made + count], consumed |-> c, produced |-> count]
  BY <1>1 DEF Processed
<1>10. [after EXCEPT !.made = after.made + count] = Backend(f + c, m + count, drained)
  <2> HIDE DEF c, after, count
  <2> QED BY <1>7 DEF Backend
<1> HIDE DEF c, after, count
<1> QED BY <1>5, <1>8, <1>9, <1>10

\* What a drain makes.
Draining(f, m, room) == FewerOf(room, RoundedDuration(f) - m)

\* A drain makes what is left of the rounded duration, as far as there is room.
LEMMA DrainedIs ==
  ASSUME Rates, NEW f \in Nat, NEW m \in Nat, NEW room \in Nat, m <= RoundedDuration(f), NEW drained
  PROVE  /\ DrainedBy(Backend(f, m, drained), room) =
              [backend |-> Backend(f, m + Draining(f, m, room), TRUE),
               consumed |-> 0, produced |-> Draining(f, m, room)]
         /\ Draining(f, m, room) \in 0..room /\ m + Draining(f, m, room) <= RoundedDuration(f)
         /\ Draining(f, m, room) < room => m + Draining(f, m, room) = RoundedDuration(f)
<1> DEFINE b == Backend(f, m, drained)
           count == Draining(f, m, room)
<1>1. b.fed = Numbered(f) /\ b.made = m
  BY DEF Backend
<1>2. MadeOf(b.fed, TRUE) = RoundedDuration(f)
  BY <1>1, FedOn DEF MadeOf
<1>3. [[b EXCEPT !.made = b.made + count] EXCEPT !.drained = TRUE] = Backend(f, m + count, TRUE)
  <2> DEFINE yes == TRUE
  <2> HIDE DEF count, yes
  <2>1. [b EXCEPT !.made = b.made + count] = Backend(f, m + count, drained)
    BY DEF Backend
  <2>2. [Backend(f, m + count, drained) EXCEPT !.drained = yes] = Backend(f, m + count, yes)
    BY DEF Backend
  <2> QED BY <2>1, <2>2 DEF yes
<1>4. DrainedBy(b, room) = [backend |-> Backend(f, m + count, TRUE), consumed |-> 0, produced |-> count]
  BY <1>1, <1>2, <1>3 DEF DrainedBy, Draining
<1>5. RoundedDuration(f) \in Nat
  BY DurationIs
<1>6. /\ count \in 0..room /\ m + count <= RoundedDuration(f)
      /\ count < room => m + count = RoundedDuration(f)
  BY <1>5 DEF Draining, FewerOf
<1> QED BY <1>4, <1>6

\* What a backend makes of its input.
LEMMA FrameIs ==
  ASSUME NEW f \in Nat, NEW m, NEW drained, NEW n \in Nat \ {0}, Rates
  PROVE  FrameOfBackend(Backend(f, m, drained), n) = Right(n, f)
<1>1. SourceOf(n) \in Nat \ {0}
  BY SourceIs
<1>2. Backend(f, m, drained).fed = Numbered(f) /\ Len(Numbered(f)) = f
  BY FedOn DEF Backend
<1>3. SourceOf(n) <= f => Numbered(f)[SourceOf(n)] = SourceOf(n)
  BY <1>1 DEF Numbered
<1> QED BY <1>2, <1>3 DEF FrameOfBackend, Right

\* A run of p output frames after the first m, in all channels.
More(m, p, f) == [i \in 1..p |-> AllAlike(Right(m + i, f))]

\* What two sequences hold, one after the other.
LEMMA JoinedOf ==
  ASSUME NEW S, NEW s \in Seq(S), NEW t \in Seq(S)
  PROVE  /\ s \o t \in Seq(S) /\ Len(s \o t) = Len(s) + Len(t)
         /\ \A i \in 1..Len(s) + Len(t) : (s \o t)[i] = IF i <= Len(s) THEN s[i] ELSE t[i - Len(s)]
OBVIOUS

\* A run has the length asked for.
LEMMA MoreLength ==
  ASSUME Rates, NEW m \in Nat, NEW p \in Nat, NEW f \in Nat
  PROVE  Len(More(m, p, f)) = p
<1> DEFINE F(i) == AllAlike(Right(m + i, f))
<1>1. More(m, p, f) = [i \in 1..p |-> F(i)]
  BY DEF More
<1> HIDE DEF F
<1> QED BY <1>1

\* Two runs are one.
OneRun(m, p, q, f) == More(m, p, f) \o More(m + p, q, f) = More(m, p + q, f)

\* A run and the run that follows it are one.
LEMMA MoreJoined ==
  ASSUME Rates, NEW m \in Nat, NEW p \in Nat, NEW q \in Nat, NEW f \in Nat
  PROVE  OneRun(m, p, q, f)
<1> DEFINE S == {AllAlike(x) : x \in Nat}
           n == m + p
           o == p + q
           s == More(m, p, f)
           t == More(n, q, f)
           u == More(m, o, f)
<1>1. \A k \in Nat \ {0} : Right(k, f) \in Nat
  BY SourceIs DEF Right
<1>2. ASSUME NEW a \in Nat, NEW r \in Nat
      PROVE  /\ More(a, r, f) \in Seq(S) /\ Len(More(a, r, f)) = r
             /\ \A i \in 1..r : More(a, r, f)[i] = AllAlike(Right(a + i, f))
  <2>1. \A i \in 1..r : AllAlike(Right(a + i, f)) \in S
    BY <1>1
  <2> HIDE DEF S
  <2> QED BY <2>1 DEF More
<1>3. /\ s \in Seq(S) /\ Len(s) = p /\ t \in Seq(S) /\ Len(t) = q /\ u \in Seq(S) /\ Len(u) = p + q
      /\ \A i \in 1..p : s[i] = AllAlike(Right(m + i, f))
      /\ \A i \in 1..q : t[i] = AllAlike(Right(m + p + i, f))
      /\ \A i \in 1..p + q : u[i] = AllAlike(Right(m + i, f))
  <2> HIDE DEF S
  <2>1. s \in Seq(S) /\ Len(s) = p /\ \A i \in 1..p : s[i] = AllAlike(Right(m + i, f))
    BY <1>2
  <2>0. n \in Nat /\ o \in Nat
    OBVIOUS
  <2> HIDE DEF n, o
  <2>2. t \in Seq(S) /\ Len(t) = q /\ \A i \in 1..q : t[i] = AllAlike(Right(n + i, f))
    BY <1>2, <2>0
  <2>3. u \in Seq(S) /\ Len(u) = o /\ \A i \in 1..o : u[i] = AllAlike(Right(m + i, f))
    BY <1>2, <2>0
  <2> HIDE DEF s, t, u
  <2> QED BY <2>1, <2>2, <2>3 DEF n, o
<1> HIDE DEF S, s, t, u
<1> DEFINE w == s \o t
<1>4. /\ w \in Seq(S) /\ Len(w) = p + q
      /\ \A i \in 1..p + q : w[i] = IF i <= p THEN s[i] ELSE t[i - p]
  <2>1. s \in Seq(S) /\ t \in Seq(S)
    BY <1>3
  <2>2. /\ w \in Seq(S) /\ Len(w) = Len(s) + Len(t)
        /\ \A i \in 1..Len(s) + Len(t) : w[i] = IF i <= Len(s) THEN s[i] ELSE t[i - Len(s)]
    BY <2>1, JoinedOf
  <2> HIDE DEF w
  <2> QED BY <1>3, <2>2
<1> HIDE DEF w
<1>5. ASSUME NEW i \in 1..p + q PROVE w[i] = u[i]
  <2>1. CASE i <= p
    <3>1. i \in 1..p
      BY <2>1
    <3>2. w[i] = s[i]
      BY <1>4, <2>1
    <3>3. s[i] = AllAlike(Right(m + i, f)) /\ u[i] = AllAlike(Right(m + i, f))
      BY <1>3, <3>1
    <3> QED BY <3>2, <3>3
  <2>2. CASE i > p
    <3> DEFINE j == i - p
    <3>1. j \in 1..q /\ m + p + j = m + i /\ ~(i <= p)
      BY <2>2
    <3>2. w[i] = t[j]
      BY <1>4, <3>1
    <3>3. t[j] = AllAlike(Right(m + i, f))
      <4> HIDE DEF j
      <4> QED BY <1>3, <3>1
    <3> QED BY <1>3, <3>2, <3>3
  <2> QED BY <2>1, <2>2
<1>6. w = u
  BY <1>3, <1>4, <1>5
<1> QED BY <1>6 DEF OneRun, s, t, u, w

\* Frames that were ready do not change as more is fed.
LEMMA MoreStays ==
  ASSUME Rates, NEW m \in Nat, NEW p \in Nat, NEW f \in Nat, NEW g \in Nat, f <= g, m + p <= ReadyOf(f)
  PROVE  More(m, p, f) = More(m, p, g)
<1>1. \A i \in 1..p : Right(m + i, f) = Right(m + i, g)
  <2> TAKE i \in 1..p
  <2> DEFINE n == m + i
  <2>1. n \in Nat \ {0} /\ n <= ReadyOf(f)
    <3>1. ReadyOf(f) \in Nat
      BY ReadyAre
    <3> QED BY <3>1
  <2> HIDE DEF n
  <2>2. Right(n, f) = Right(n, g)
    BY <2>1, ReadyGrows
  <2> QED BY <2>2 DEF n
<1> QED BY <1>1 DEF More

Count == IF Layout.interleaved THEN 1 ELSE Layout.channels

TypedInv ==
  /\ resampler = [layout |-> Layout, finishing |-> resampler.finishing, finished |-> resampler.finished]
  /\ Layout \in Layouts /\ {resampler.finishing, resampler.finished} \subseteq BOOLEAN
  /\ backends = [b \in 1..Count |-> backends[b]]
  /\ outputs = [b \in 1..Count |-> outputs[b]]

\* What was fed and made when the round under way began, and what its step takes and makes.
FedNow == IF round.op = "none" THEN taken ELSE taken + round.consumed
MadeNow == IF round.op = "none" THEN Len(delivered) ELSE Len(delivered) + Len(round.produced)
Step ==
  IF round.op = "process"
  THEN <<Taking(FedNow, MadeNow, StepInput, StepRoom), Making(FedNow, MadeNow, StepInput, StepRoom)>>
  ELSE <<0, Draining(FedNow, MadeNow, StepRoom)>>
Limit(f) == IF resampler.finishing THEN RoundedDuration(f) ELSE ReadyOf(f)

RoundType ==
  /\ round = [op |-> round.op, first |-> round.first, left |-> round.left, room |-> round.room,
              channel |-> round.channel, consumed |-> round.consumed,
              produced |-> round.produced, progress |-> round.progress]
  /\ round.op \in {"process", "finish"} /\ round.channel \in 1..Count + 1
  /\ round.room \in Nat \ {0} /\ round.consumed \in Nat /\ Len(round.produced) \in Nat

\* A round: the channels that had their turn are a step ahead of the others, all alike.
RoundInv ==
  /\ RoundType
  /\ round.produced = More(Len(delivered), Len(round.produced), FedNow)
  /\ round.op = "process" =>
       ~resampler.finishing /\ round.left \in Nat \ {0} /\ round.first = FedNow + 1
  /\ round.op = "finish" => resampler.finishing /\ ~resampler.finished /\ round.consumed = 0
  /\ round.channel > 1 => round.progress = Step
  /\ returned = "none"

Ahead(b) == round.op # "none" /\ b < round.channel
BackendInv(b) ==
  IF Ahead(b)
  THEN /\ backends[b] = Backend(FedNow + Step[1], MadeNow + Step[2], backends[b].drained)
       /\ outputs[b] = [i \in 1..Step[2] |-> Right(MadeNow + i, FedNow + Step[1])]
  ELSE backends[b] = Backend(FedNow, MadeNow, backends[b].drained)

StreamInv ==
  /\ returned # "error" /\ taken \in Nat /\ Len(delivered) \in Nat
  /\ delivered = More(0, Len(delivered), taken)
  /\ returned = "finished" => Len(delivered) = RoundedDuration(taken)
  /\ resampler.finished => resampler.finishing
  /\ SameRate => round.op = "none" /\ Len(delivered) = taken
  /\ ~SameRate =>
       /\ resampler.finished => Len(delivered) = RoundedDuration(taken)
       /\ Len(delivered) <= Limit(taken) /\ MadeNow <= Limit(FedNow)
       /\ round.op # "none" => RoundInv
       /\ \A b \in 1..Count : BackendInv(b)

\* A thread of a one-shot conversion.
ThreadInv(t) ==
  /\ t = [backend |-> t.backend, offset |-> t.offset, output |-> t.output, at |-> t.at]
  /\ \/ t.at = "failed" /\ broken
     \/ /\ t.offset \in 0..conversion.frames /\ Len(t.output) \in Nat
        /\ t.output = [i \in 1..Len(t.output) |-> Right(i, t.offset)]
        /\ t.backend = Backend(t.offset, Len(t.output), t.backend.drained)
        /\ \/ t.at = "process" /\ t.offset < conversion.frames /\ Len(t.output) <= ReadyOf(t.offset)
           \/ /\ t.at \in {"drain", "done"} /\ t.offset = conversion.frames
              /\ Len(t.output) <= RoundedDuration(t.offset)
              /\ t.at = "done" => Len(t.output) = RoundedDuration(t.offset)

Whole(frames) ==
  [n \in 1..RoundedDuration(frames) |-> [ch \in 1..Layout.channels |-> Right(n, frames)]]

ConversionInv ==
  conversion # NoConversion =>
    /\ conversion = [threads |-> conversion.threads, frames |-> conversion.frames,
                     answer |-> conversion.answer, made |-> conversion.made]
    /\ conversion.frames \in Nat
    /\ \/ conversion.answer = "ok" /\ conversion.made = Whole(conversion.frames)
       \/ conversion.answer = "error" /\ broken
       \/ /\ conversion.answer = "running"
          /\ conversion.threads = [ch \in 1..Layout.channels |-> conversion.threads[ch]]
          /\ \A ch \in 1..Layout.channels : ThreadInv(conversion.threads[ch])

ResamplerInv == TypedInv /\ ConversionInv /\ (~broken => StreamInv)

\* What the layout fixes.
LEMMA LayoutIs ==
  ASSUME TypedInv
  PROVE  /\ Rates /\ Layout.channels \in Nat \ {0} /\ Layout.interleaved \in BOOLEAN
         /\ Count \in Nat \ {0} /\ Backends = 1..Count
<1>1. /\ {Layout.channels, Layout.from, Layout.to} \subseteq Nat \ {0}
      /\ Layout.interleaved \in BOOLEAN
  BY ResamplerAssumption DEF TypedInv
<1>2. Rates /\ Layout.channels \in Nat \ {0}
  BY <1>1 DEF Rates
<1>3. Count \in Nat \ {0}
  BY <1>1 DEF Count
<1>4. Backends = 1..Count
  BY DEF TypedInv, Backends
<1> QED BY <1>1, <1>2, <1>3, <1>4

\* As long as the layout stands, so does what follows from it.
LEMMA SameLayout ==
  ASSUME resampler'.layout = resampler.layout, Backends' = Backends
  PROVE  /\ Layout' = Layout /\ (Rates' <=> Rates) /\ (SameRate' <=> SameRate) /\ Count' = Count
         /\ \A f : RoundedDuration(f)' = RoundedDuration(f)
         /\ \A f : ReadyOf(f)' = ReadyOf(f)
         /\ \A n, f : Right(n, f)' = Right(n, f)
         /\ \A m, p, f : More(m, p, f)' = More(m, p, f)
         /\ \A f, m, n, room : Taking(f, m, n, room)' = Taking(f, m, n, room)
         /\ \A f, m, n, room : Making(f, m, n, room)' = Making(f, m, n, room)
         /\ \A f, m, room : Draining(f, m, room)' = Draining(f, m, room)
<1>1. Layout' = Layout
  BY DEF Layout
<1>2. (Rates' <=> Rates) /\ (SameRate' <=> SameRate) /\ Count' = Count
  BY <1>1 DEF Rates, SameRate, Count
<1>3. \A f : RoundedDuration(f)' = RoundedDuration(f)
  BY <1>1 DEF RoundedDuration
<1>4. \A n : SourceOf(n)' = SourceOf(n)
  BY <1>1 DEF SourceOf
<1>5. \A f : ReadyOf(f)' = ReadyOf(f)
  <2> TAKE f
  <2> DEFINE g == Numbered(f)
             S == {n \in 1..RoundedDuration(Len(g)) : SourceOf(n) + Lookahead <= Len(g)}
             P == {n \in 1..RoundedDuration(Len(g))' : SourceOf(n)' + Lookahead <= Len(g)}
  <2>1. S = P
    BY <1>3, <1>4
  <2>2. ReadyOf(f) = Cardinality(S) /\ ReadyOf(f)' = Cardinality(P)
    BY DEF ReadyOf, MadeOf, Numbered
  <2> QED BY <2>1, <2>2
<1>6. \A n, f : Right(n, f)' = Right(n, f)
  BY <1>4 DEF Right
<1>7. \A m, p, f : More(m, p, f)' = More(m, p, f)
  BY <1>6 DEF More, AllAlike
<1>8. \A f, m, n, room : Taking(f, m, n, room)' = Taking(f, m, n, room)
  <2> TAKE f, m, n, room
  <2> DEFINE S == {c \in 0..n : ReadyOf(f + c) - m >= room}
             P == {c \in 0..n : ReadyOf(f + c)' - m >= room}
  <2>1. S = P
    BY <1>5
  <2> DEFINE First(T) == IF T = {} THEN n ELSE CHOOSE k \in T : \A j \in T : k <= j
  <2>2. Taking(f, m, n, room) = First(S) /\ Taking(f, m, n, room)' = First(P)
    BY DEF Taking
  <2> HIDE DEF S, P, First
  <2> QED BY <2>1, <2>2
<1>9. \A f, m, n, room : Making(f, m, n, room)' = Making(f, m, n, room)
  BY <1>5, <1>8 DEF Making, FewerOf
<1>10. \A f, m, room : Draining(f, m, room)' = Draining(f, m, room)
  BY <1>3 DEF Draining, FewerOf
<1> QED BY <1>1, <1>2, <1>3, <1>5, <1>6, <1>7, <1>8, <1>9, <1>10

ResamplerSpec == ResamplerInit /\ [][ResamplerNext]_resamplerVars

\* A backend that nothing was fed, and a run of no frames.
LEMMA NothingYet ==
  ASSUME Rates
  PROVE  /\ NewBackend = Backend(0, 0, FALSE)
         /\ \A m, f : More(m, 0, f) = <<>>
         /\ ReadyOf(0) \in Nat /\ RoundedDuration(0) \in Nat
<1>1. Numbered(0) = <<>>
  BY DEF Numbered
<1>2. NewBackend = Backend(0, 0, FALSE)
  BY <1>1 DEF NewBackend, Backend
<1>3. \A m, f : More(m, 0, f) = <<>>
  BY DEF More
<1> QED BY <1>2, <1>3, ReadyAre, DurationIs

\* What a step of a round may take and make.
LEMMA StepSizes ==
  ASSUME TypedInv, RoundInv
  PROVE  /\ StepRoom \in 1..round.room
         /\ round.op = "process" => StepInput \in 1..round.left
<1>1. /\ Layout.from \in Nat \ {0} /\ Layout.to \in Nat \ {0} /\ Layout.interleaved \in BOOLEAN
      /\ StreamingMaxInput \in Nat \ {0} /\ Slack \in Nat
  BY LayoutIs, ResamplerAssumption DEF Rates
<1>2. Ceiling(StreamingMaxInput, Layout.from, Layout.to) \in Nat \ {0}
  <2> DEFINE a == StreamingMaxInput * Layout.to + Layout.from - 1
  <2>1. a \in Nat /\ a >= Layout.from
    <3>1. StreamingMaxInput * Layout.to \in Nat \ {0}
      BY <1>1
    <3> QED BY <1>1, <3>1
  <2> HIDE DEF a
  <2>2. a \div Layout.from \in Nat /\ a < Layout.from * (a \div Layout.from) + Layout.from
    BY <1>1, <2>1, Quotient
  <2>3. a \div Layout.from # 0
    BY <1>1, <2>1, <2>2
  <2> QED BY <2>2, <2>3 DEF Ceiling, a
<1>3. round.room \in Nat \ {0} /\ (round.op = "process" => round.left \in Nat \ {0})
  BY DEF RoundInv, RoundType
<1> QED BY <1>1, <1>2, <1>3 DEF StepRoom, StepInput, FewerOf

\* A round's step: it never takes more than is left and never makes more than is ready.
LEMMA StepIs ==
  ASSUME TypedInv, RoundInv, ~SameRate, StreamInv
  PROVE  /\ FedNow \in Nat /\ MadeNow \in Nat /\ taken \in Nat /\ taken <= FedNow
         /\ Step[1] \in Nat /\ Step[2] \in 0..StepRoom
         /\ round.op = "process" =>
              /\ Step[1] \in 0..StepInput /\ Step # <<0, 0>> /\ MadeNow <= ReadyOf(FedNow)
              /\ MadeNow + Step[2] <= ReadyOf(FedNow + Step[1])
         /\ round.op = "finish" =>
              /\ Step[1] = 0 /\ FedNow = taken /\ MadeNow + Step[2] <= RoundedDuration(FedNow)
              /\ Step[2] < StepRoom => MadeNow + Step[2] = RoundedDuration(FedNow)
<1>1. Rates
  BY LayoutIs
<1>2. round.op \in {"process", "finish"} /\ round.consumed \in Nat /\ Len(round.produced) \in Nat
  BY DEF RoundInv, RoundType
<1>3. taken \in Nat /\ Len(delivered) \in Nat
  BY DEF StreamInv
<1>4. FedNow = taken + round.consumed /\ MadeNow = Len(delivered) + Len(round.produced)
  BY <1>2 DEF FedNow, MadeNow
<1>5. FedNow \in Nat /\ MadeNow \in Nat /\ taken <= FedNow
  BY <1>2, <1>3, <1>4
<1>6. MadeNow <= Limit(FedNow)
  BY DEF StreamInv
<1>7. StepRoom \in Nat /\ (round.op = "process" => StepInput \in Nat /\ StepInput > 0) /\ StepRoom > 0
  BY <1>2, StepSizes DEF RoundInv, RoundType
<1> HIDE DEF FedNow, MadeNow
<1>8. CASE round.op = "process"
  <2> DEFINE c == Taking(FedNow, MadeNow, StepInput, StepRoom)
             p == Making(FedNow, MadeNow, StepInput, StepRoom)
  <2>1. MadeNow <= ReadyOf(FedNow)
    BY <1>6, <1>8 DEF Limit, RoundInv
  <2>2. /\ c \in 0..StepInput /\ p \in 0..StepRoom /\ MadeNow + p <= ReadyOf(FedNow + c) /\ c + p > 0
    BY <1>1, <1>5, <1>7, <1>8, <2>1, TakingIs
  <2>3. Step = <<c, p>>
    BY <1>8 DEF Step
  <2> HIDE DEF c, p
  <2>4. Step # <<0, 0>>
    BY <1>7, <1>8, <2>2, <2>3
  <2> QED BY <1>3, <1>5, <1>7, <1>8, <2>1, <2>2, <2>3, <2>4
<1>9. CASE round.op = "finish"
  <2> DEFINE p == Draining(FedNow, MadeNow, StepRoom)
  <2>1. MadeNow <= RoundedDuration(FedNow)
    BY <1>6, <1>9 DEF Limit, RoundInv
  <2>2. /\ p \in 0..StepRoom /\ MadeNow + p <= RoundedDuration(FedNow)
        /\ p < StepRoom => MadeNow + p = RoundedDuration(FedNow)
    BY <1>1, <1>5, <1>7, <2>1, DrainedIs
  <2>3. Step = <<0, p>>
    BY <1>9 DEF Step
  <2>4. FedNow = taken
    BY <1>3, <1>4, <1>9 DEF RoundInv
  <2> HIDE DEF p
  <2> QED BY <1>3, <1>5, <1>9, <2>2, <2>3, <2>4
<1> QED BY <1>2, <1>8, <1>9

\* The layout stands, whatever becomes of the rest.
LEMMA LayoutStands ==
  ASSUME TypedInv, NEW g \in BOOLEAN, NEW h \in BOOLEAN,
         resampler' = [layout |-> Layout, finishing |-> g, finished |-> h],
         NEW now, NEW outs, backends' = [b \in 1..Count |-> now[b]], outputs' = [b \in 1..Count |-> outs[b]]
  PROVE  /\ TypedInv' /\ Layout' = Layout /\ Backends' = Backends
         /\ resampler'.layout = resampler.layout
         /\ resampler'.finishing = g /\ resampler'.finished = h
<1>1. Layout' = Layout /\ resampler'.finishing = g /\ resampler'.finished = h
  BY DEF Layout
<1>2. Count' = Count
  BY <1>1 DEF Count
<1>3. /\ backends' = [b \in 1..Count |-> backends'[b]]
      /\ outputs' = [b \in 1..Count |-> outputs'[b]]
  <2>1. \A b \in 1..Count : backends'[b] = now[b] /\ outputs'[b] = outs[b]
    OBVIOUS
  <2> QED BY <2>1
<1>4. Backends' = Backends
  BY <1>2, <1>3 DEF Backends, TypedInv
<1>5. Layout \in Layouts
  BY DEF TypedInv
<1>6. {g, h} \subseteq BOOLEAN
  OBVIOUS
<1>7. TypedInv'
  BY <1>1, <1>2, <1>3, <1>5, <1>6, Zenon DEF TypedInv
<1> QED BY <1>1, <1>4, <1>7 DEF Layout

\* Nothing is to be shown of a conversion that does not run.
LEMMA NothingConverted ==
  ASSUME conversion' = NoConversion
  PROVE  ConversionInv'
BY DEF ConversionInv, NoConversion

\* Between two rounds, and when one begins, every backend is where the stream is.
LEMMA RoundBegins ==
  ASSUME TypedInv, StreamInv, ~SameRate, round.op = "none", Layout' = Layout,
         UNCHANGED <<backends, taken, delivered>>,
         round'.op = "none" \/ (round'.channel = 1 /\ round'.consumed = 0 /\ round'.produced = <<>>)
  PROVE  /\ FedNow = taken /\ MadeNow = Len(delivered) /\ FedNow' = taken /\ MadeNow' = Len(delivered)
         /\ \A b \in 1..Count : BackendInv(b)'
<1>1. FedNow = taken /\ MadeNow = Len(delivered) /\ taken \in Nat /\ Len(delivered) \in Nat
  BY DEF FedNow, MadeNow, StreamInv
<1>2. FedNow' = taken /\ MadeNow' = Len(delivered)
  BY <1>1 DEF FedNow, MadeNow
<1>3. ASSUME NEW b \in 1..Count PROVE BackendInv(b)'
  <2>1. ~Ahead(b) /\ ~Ahead(b)'
    BY DEF Ahead
  <2>2. backends[b] = Backend(FedNow, MadeNow, backends[b].drained)
    BY <2>1 DEF StreamInv, BackendInv
  <2> QED BY <1>1, <1>2, <2>1, <2>2 DEF BackendInv, Backend
<1> QED BY <1>1, <1>2, <1>3

\* At equal rates what is copied are the frames that follow.
LEMMA Copied ==
  ASSUME TypedInv, SameRate, taken \in Nat, NEW n \in Nat, delivered = More(0, taken, taken)
  PROVE  /\ delivered \o Identity(n) = More(0, taken + n, taken + n)
         /\ Len(delivered \o Identity(n)) = taken + n
<1>1. Rates
  BY LayoutIs
<1>2. \A i \in Nat \ {0} : SourceOf(i) = i
  BY <1>1, Unconverted
<1>3. More(0, taken, taken) = More(0, taken, taken + n)
  <2>1. \A i \in 1..taken : Right(0 + i, taken) = Right(0 + i, taken + n)
    <3> TAKE i \in 1..taken
    <3>1. 0 + i \in Nat \ {0} /\ SourceOf(0 + i) = i
      BY <1>2
    <3> QED BY <3>1 DEF Right
  <2> QED BY <2>1 DEF More
<1>4. Identity(n) = More(0 + taken, n, taken + n)
  <2>1. \A i \in 1..n : Right(0 + taken + i, taken + n) = taken + i
    <3> TAKE i \in 1..n
    <3>1. 0 + taken + i \in Nat \ {0} /\ SourceOf(0 + taken + i) = taken + i
      BY <1>2
    <3> QED BY <3>1 DEF Right
  <2> QED BY <2>1 DEF More, Identity
<1>5. More(0, taken, taken + n) \o More(0 + taken, n, taken + n) = More(0, taken + n, taken + n)
  <2> DEFINE z == 0
             g == taken + n
  <2>1. z \in Nat /\ g \in Nat
    OBVIOUS
  <2> HIDE DEF z, g
  <2>2. OneRun(z, taken, n, g)
    BY <1>1, <2>1, MoreJoined
  <2> QED BY <2>2 DEF OneRun, z, g
<1>6. Len(More(0, taken + n, taken + n)) = taken + n
  <2> DEFINE z == 0
             g == taken + n
  <2>1. z \in Nat /\ g \in Nat
    OBVIOUS
  <2> HIDE DEF z, g
  <2>2. Len(More(z, g, g)) = g
    BY <1>1, <2>1, MoreLength
  <2> QED BY <2>2 DEF z, g
<1> QED BY <1>3, <1>4, <1>5, <1>6

\* Nothing more is nothing new.
LEMMA DeliveredNothing ==
  ASSUME Rates, NEW m \in Nat, NEW p \in Nat, NEW f \in Nat
  PROVE  More(m, p, f) \o <<>> = More(m, p, f)
<1> DEFINE none == 0
<1>1. none \in Nat /\ p + none = p /\ More(m + p, none, f) = <<>>
  BY NothingYet
<1> HIDE DEF none
<1>2. OneRun(m, p, none, f)
  BY <1>1, MoreJoined
<1> QED BY <1>1, <1>2 DEF OneRun

\* The first round of a call.
FirstRound(op, first, left, room) ==
  [op |-> op, first |-> first, left |-> left, room |-> room, channel |-> 1,
   consumed |-> 0, produced |-> <<>>, progress |-> <<>>]

Begun(op, first, left, room) ==
  [NoRound EXCEPT !.op = op, !.first = first, !.left = left, !.room = room]
BegunDraining(op, room) == [NoRound EXCEPT !.op = op, !.room = room]

\* The fields of a call's first round.
LEMMA FirstRoundIs ==
  ASSUME NEW op, NEW first, NEW left, NEW room
  PROVE  /\ Begun(op, first, left, room) = FirstRound(op, first, left, room)
         /\ BegunDraining(op, room) = FirstRound(op, 1, 0, room)
<1> DEFINE empty == <<>>
           none == "none"
           R(o, f, l, r) == [op |-> o, first |-> f, left |-> l, room |-> r, channel |-> 1,
                             consumed |-> 0, produced |-> empty, progress |-> empty]
<1>1. NoRound = R(none, 1, 0, 0)
  BY DEF NoRound
<1>2. \A o, f, l, r : FirstRound(o, f, l, r) = R(o, f, l, r)
  BY DEF FirstRound
<1> HIDE DEF empty, none
<1>3. [NoRound EXCEPT !.op = op] = R(op, 1, 0, 0)
  BY <1>1
<1>4. [R(op, 1, 0, 0) EXCEPT !.first = first] = R(op, first, 0, 0)
  OBVIOUS
<1>5. [R(op, first, 0, 0) EXCEPT !.left = left] = R(op, first, left, 0)
  OBVIOUS
<1>6. [R(op, first, left, 0) EXCEPT !.room = room] = R(op, first, left, room)
  OBVIOUS
<1>7. [R(op, 1, 0, 0) EXCEPT !.room = room] = R(op, 1, 0, room)
  OBVIOUS
<1> HIDE DEF R
<1>8. [NoRound EXCEPT !.op = op, !.first = first, !.left = left, !.room = room] = R(op, first, left, room)
  BY <1>3, <1>4, <1>5, <1>6
<1>9. [NoRound EXCEPT !.op = op, !.room = room] = R(op, 1, 0, room)
  BY <1>3, <1>7
<1> QED BY <1>2, <1>8, <1>9 DEF Begun, BegunDraining

\* A call that hands nothing on, and at most begins its first round.
LEMMA StreamStands ==
  ASSUME TypedInv, StreamInv, round.op = "none",
         Layout' = Layout, Backends' = Backends, resampler'.layout = resampler.layout,
         UNCHANGED <<backends, taken, delivered>>, returned' # "error",
         resampler.finishing => resampler'.finishing, resampler'.finished => resampler'.finishing,
         ~SameRate /\ (resampler'.finished \/ returned' = "finished") =>
           Len(delivered) = RoundedDuration(taken),
         \/ round'.op = "none"
         \/ /\ ~SameRate /\ returned' = "none"
            /\ \/ \E n \in Nat \ {0}, room \in Nat \ {0} :
                    /\ round' = FirstRound("process", taken + 1, n, room)
                    /\ ~resampler'.finishing
               \/ \E room \in Nat \ {0} :
                    /\ round' = FirstRound("finish", 1, 0, room)
                    /\ resampler'.finishing /\ ~resampler'.finished
  PROVE  StreamInv'
<1>1. /\ Rates /\ (SameRate' <=> SameRate) /\ Count' = Count /\ Count \in Nat \ {0}
      /\ \A f : RoundedDuration(f)' = RoundedDuration(f)
      /\ \A f : ReadyOf(f)' = ReadyOf(f)
      /\ \A m, p, f : More(m, p, f)' = More(m, p, f)
  BY LayoutIs, SameLayout
<1>2. taken \in Nat /\ Len(delivered) \in Nat /\ delivered = More(0, Len(delivered), taken)
  BY DEF StreamInv
<1>3. delivered' = More(0, Len(delivered), taken)'
  BY <1>1, <1>2
<1>4. SameRate => round'.op = "none" /\ Len(delivered) = taken /\ RoundedDuration(taken) = taken
  BY <1>1, <1>2, Unconverted DEF StreamInv
<1>5. ASSUME ~SameRate
      PROVE  /\ Len(delivered) <= Limit(taken)' /\ MadeNow' <= Limit(FedNow)'
             /\ round'.op # "none" => RoundInv'
             /\ \A b \in 1..Count : BackendInv(b)'
  <2>1. \/ round'.op = "none"
        \/ \E op, first, left, room : round' = FirstRound(op, first, left, room)
    BY <1>5
  <2>2. round'.op = "none" \/ (round'.channel = 1 /\ round'.consumed = 0 /\ round'.produced = <<>>)
    BY <2>1 DEF FirstRound
  <2>3. /\ FedNow' = taken /\ MadeNow' = Len(delivered)
        /\ \A b \in 1..Count : BackendInv(b)'
    BY <1>5, <2>2, RoundBegins
  <2>4. Len(delivered) <= Limit(taken)'
    <3>1. Len(delivered) <= Limit(taken)
      BY <1>5 DEF StreamInv
    <3>2. ReadyOf(taken) <= RoundedDuration(taken) /\ ReadyOf(taken) \in Nat /\ RoundedDuration(taken) \in Nat
      BY <1>1, <1>2, ReadyAre, DurationIs
    <3>3. Limit(taken)' = IF resampler'.finishing THEN RoundedDuration(taken) ELSE ReadyOf(taken)
      BY <1>1 DEF Limit
    <3> QED BY <1>2, <3>1, <3>2, <3>3 DEF Limit
  <2>5. Limit(FedNow)' = Limit(taken)'
    BY <1>1, <2>3 DEF Limit
  <2>6. ASSUME NEW op \in {"process", "finish"}, NEW first, NEW left, NEW room \in Nat \ {0},
               round' = FirstRound(op, first, left, room)
        PROVE  /\ RoundType' /\ round'.op = op /\ round'.first = first /\ round'.left = left
               /\ round'.channel = 1 /\ round'.consumed = 0
               /\ round'.produced = More(Len(delivered), Len(round.produced), FedNow)'
    <3> DEFINE begun == FirstRound(op, first, left, room)
    <3>1. /\ begun = [op |-> begun.op, first |-> begun.first, left |-> begun.left, room |-> begun.room,
                      channel |-> begun.channel, consumed |-> begun.consumed,
                      produced |-> begun.produced, progress |-> begun.progress]
          /\ begun.op = op /\ begun.first = first /\ begun.left = left /\ begun.room = room
          /\ begun.channel = 1 /\ begun.consumed = 0 /\ begun.produced = <<>> /\ Len(begun.produced) = 0
      BY DEF FirstRound
    <3> HIDE DEF begun
    <3>2. RoundType'
      BY <1>1, <2>6, <3>1 DEF RoundType, begun
    <3>3. More(Len(delivered), Len(round.produced), FedNow)' = <<>>
      <4>1. \A m, f : More(m, 0, f)' = <<>>
        BY <1>1, NothingYet
      <4>2. Len(round.produced)' = 0
        BY <2>6, <3>1 DEF begun
      <4> QED BY <4>1, <4>2
    <3> QED BY <2>6, <3>1, <3>2, <3>3 DEF begun
  <2>7. ASSUME round'.op # "none" PROVE RoundInv'
    <3>1. CASE \E n \in Nat \ {0}, room \in Nat \ {0} :
                 round' = FirstRound("process", taken + 1, n, room) /\ ~resampler'.finishing
      <4>1. PICK n \in Nat \ {0}, room \in Nat \ {0} :
              round' = FirstRound("process", taken + 1, n, room) /\ ~resampler'.finishing
        BY <3>1
      <4>2. /\ RoundType' /\ round'.op = "process" /\ round'.first = taken + 1 /\ round'.left = n
            /\ round'.channel = 1 /\ round'.produced = More(Len(delivered), Len(round.produced), FedNow)'
        BY <2>6, <4>1
      <4> QED BY <1>2, <1>5, <2>3, <2>7, <4>1, <4>2 DEF RoundInv
    <3>2. CASE \E room \in Nat \ {0} :
                 /\ round' = FirstRound("finish", 1, 0, room)
                 /\ resampler'.finishing /\ ~resampler'.finished
      <4>1. PICK room \in Nat \ {0} :
              /\ round' = FirstRound("finish", 1, 0, room)
              /\ resampler'.finishing /\ ~resampler'.finished
        BY <3>2
      <4>2. /\ RoundType' /\ round'.op = "finish" /\ round'.consumed = 0
            /\ round'.channel = 1 /\ round'.produced = More(Len(delivered), Len(round.produced), FedNow)'
        BY <2>6, <4>1
      <4> QED BY <1>2, <1>5, <2>3, <2>7, <4>1, <4>2 DEF RoundInv
    <3> QED BY <1>5, <2>7, <3>1, <3>2
  <2> QED BY <2>3, <2>4, <2>5, <2>7
<1> QED BY <1>1, <1>2, <1>3, <1>4, <1>5 DEF StreamInv

\* A call of `process`.
LEMMA ProcessCalled ==
  ASSUME ResamplerInv, conversion = NoConversion, UNCHANGED conversion, ResamplerProcess
  PROVE  ResamplerInv'
<1>1. /\ round.op = "none"
      /\ UNCHANGED <<resampler, backends, outputs, broken>>
  BY DEF ResamplerProcess
<1>2. PICK n \in InputSizes, room \in OutputSizes :
        IF resampler.finishing
        THEN returned' = "refused" /\ UNCHANGED <<round, delivered, taken>>
        ELSE IF SameRate
        THEN LET count == FewerOf(n, room)
             IN Deliver(Identity(count), count, IF count < n THEN "need_output" ELSE "need_input")
        ELSE IF n = 0 \/ room = 0
        THEN Deliver(<<>>, 0, IF n = 0 THEN "need_input" ELSE "need_output")
        ELSE /\ round' = [NoRound EXCEPT !.op = "process", !.first = taken + 1, !.left = n, !.room = room]
             /\ returned' = "none" /\ UNCHANGED <<delivered, taken>>
  BY DEF ResamplerProcess
<1>3. n \in Nat /\ room \in Nat
  BY ResamplerAssumption
<1>4. TypedInv
  BY DEF ResamplerInv
<1>5. /\ TypedInv' /\ Layout' = Layout /\ Backends' = Backends /\ resampler'.layout = resampler.layout
      /\ resampler'.finishing = resampler.finishing /\ resampler'.finished = resampler.finished
  BY <1>1, <1>4 DEF TypedInv, Layout, Count, Backends
<1>6. ConversionInv'
  BY NothingConverted
<1>7. ASSUME ~broken PROVE StreamInv'
  <2>1. StreamInv
    BY <1>7 DEF ResamplerInv
  <2>2. /\ Rates /\ (SameRate' <=> SameRate) /\ Count' = Count
        /\ \A f : RoundedDuration(f)' = RoundedDuration(f)
        /\ \A f : ReadyOf(f)' = ReadyOf(f)
        /\ \A m, p, f : More(m, p, f)' = More(m, p, f)
    BY <1>4, <1>5, LayoutIs, SameLayout
  <2>3. \A f : Limit(f)' = Limit(f)
    BY <1>5, <2>2 DEF Limit
  <2>4. taken \in Nat /\ Len(delivered) \in Nat /\ delivered = More(0, Len(delivered), taken)
    BY <2>1 DEF StreamInv
  <2>5. CASE SameRate /\ ~resampler.finishing
    <3> DEFINE count == FewerOf(n, room)
    <3>1. count \in Nat
      BY <1>3 DEF FewerOf
    <3> HIDE DEF count
    <3>2. PICK answer \in {"need_output", "need_input"} : Deliver(Identity(count), count, answer)
      BY <1>2, <2>5 DEF count
    <3>3. Len(delivered) = taken
      BY <2>1, <2>5 DEF StreamInv
    <3>4. delivered \o Identity(count) = More(0, taken + count, taken + count)
          /\ Len(delivered \o Identity(count)) = taken + count
      BY <1>4, <2>4, <2>5, <3>1, <3>3, Copied
    <3>5. /\ delivered' = More(0, taken + count, taken + count) /\ taken' = taken + count
          /\ Len(delivered') = taken + count
          /\ returned' \in {"need_output", "need_input"} /\ round'.op = "none"
      BY <3>2, <3>4 DEF Deliver, NoRound
    <3>6. delivered' = More(0, Len(delivered), taken)'
      BY <2>2, <3>5
    <3>7. resampler'.finished => resampler'.finishing
      BY <1>5, <2>1 DEF StreamInv
    <3> QED BY <2>2, <2>4, <2>5, <3>1, <3>5, <3>6, <3>7 DEF StreamInv
  <2>6. CASE resampler.finishing \/ ~SameRate
    <3>1. /\ UNCHANGED <<delivered, taken>> /\ returned' \notin {"error", "finished"}
      <4>1. CASE resampler.finishing
        BY <1>2, <4>1
      <4>2. CASE ~resampler.finishing /\ ~SameRate /\ (n = 0 \/ room = 0)
        <5>1. PICK answer \in {"need_output", "need_input"} : Deliver(<<>>, 0, answer)
          BY <1>2, <4>2
        <5>2. delivered \o <<>> = delivered
          <6>1. More(0, Len(delivered), taken) \o <<>> = More(0, Len(delivered), taken)
            <7>1. 0 \in Nat
              OBVIOUS
            <7> QED BY <2>2, <2>4, <7>1, DeliveredNothing
          <6> QED BY <2>4, <6>1
        <5> QED BY <2>4, <5>1, <5>2 DEF Deliver
      <4>3. CASE ~resampler.finishing /\ ~SameRate /\ ~(n = 0 \/ room = 0)
        BY <1>2, <4>3
      <4> QED BY <2>6, <4>1, <4>2, <4>3
    <3>2. \/ round'.op = "none"
          \/ /\ ~SameRate /\ ~resampler.finishing /\ n # 0 /\ room # 0 /\ returned' = "none"
             /\ round' = FirstRound("process", taken + 1, n, room)
      <4>1. CASE resampler.finishing
        BY <1>1, <1>2, <4>1
      <4>2. CASE ~resampler.finishing /\ ~SameRate /\ (n = 0 \/ room = 0)
        <5>1. round' = NoRound
          BY <1>2, <4>2 DEF Deliver
        <5> QED BY <4>2, <5>1 DEF NoRound
      <4>3. CASE ~resampler.finishing /\ ~SameRate /\ ~(n = 0 \/ room = 0)
        <5>1. round' = Begun("process", taken + 1, n, room)
          BY <1>2, <4>3 DEF Begun
        <5>2. round' = FirstRound("process", taken + 1, n, room)
          BY <5>1, FirstRoundIs
        <5> QED BY <1>2, <4>3, <5>2
      <4> QED BY <2>6, <4>1, <4>2, <4>3
    <3>3. ~SameRate /\ resampler'.finished => Len(delivered) = RoundedDuration(taken)
      BY <1>5, <2>1 DEF StreamInv
    <3>4. resampler'.finished => resampler'.finishing
      BY <1>5, <2>1 DEF StreamInv
    <3> QED BY <1>1, <1>3, <1>4, <1>5, <2>1, <3>1, <3>2, <3>3, <3>4, StreamStands
  <2> QED BY <2>5, <2>6
<1> QED BY <1>1, <1>5, <1>6, <1>7 DEF ResamplerInv

\* A call of `finish`.
LEMMA FinishCalled ==
  ASSUME ResamplerInv, conversion = NoConversion, UNCHANGED conversion, ResamplerFinish
  PROVE  ResamplerInv'
<1>1. round.op = "none" /\ UNCHANGED <<backends, outputs, broken>>
  BY DEF ResamplerFinish
<1>2. PICK room \in OutputSizes :
        IF SameRate
        THEN /\ resampler' = [resampler EXCEPT !.finishing = TRUE, !.finished = TRUE]
             /\ Deliver(<<>>, 0, "finished")
        ELSE IF resampler.finished THEN Deliver(<<>>, 0, "finished") /\ UNCHANGED resampler
        ELSE /\ resampler' = [resampler EXCEPT !.finishing = TRUE]
             /\ IF room = 0 THEN Deliver(<<>>, 0, "need_output")
                ELSE /\ round' = [NoRound EXCEPT !.op = "finish", !.room = room]
                     /\ returned' = "none" /\ UNCHANGED <<delivered, taken>>
  BY DEF ResamplerFinish
<1>3. room \in Nat
  BY ResamplerAssumption
<1>4. /\ TypedInv /\ Layout \in Layouts /\ resampler.finishing \in BOOLEAN /\ resampler.finished \in BOOLEAN
      /\ resampler = [layout |-> Layout, finishing |-> resampler.finishing, finished |-> resampler.finished]
  BY DEF ResamplerInv, TypedInv
<1>5. PICK g \in BOOLEAN, h \in BOOLEAN :
        /\ resampler' = [layout |-> Layout, finishing |-> g, finished |-> h]
        /\ g = TRUE \/ g = resampler.finishing
        /\ IF SameRate THEN g = TRUE ELSE h = resampler.finished
        /\ ~SameRate /\ ~resampler.finished => g = TRUE
  <2> DEFINE yes == TRUE
             f == resampler.finishing
             e == resampler.finished
             r == Layout
  <2>1. yes \in BOOLEAN /\ f \in BOOLEAN /\ e \in BOOLEAN /\ resampler = [layout |-> r, finishing |-> f, finished |-> e]
    BY <1>4
  <2> HIDE DEF yes, f, e, r
  <2>2. [resampler EXCEPT !.finishing = yes] = [layout |-> r, finishing |-> yes, finished |-> e]
    BY <2>1
  <2>3. [resampler EXCEPT !.finishing = yes, !.finished = yes] = [layout |-> r, finishing |-> yes, finished |-> yes]
    <3>1. [[layout |-> r, finishing |-> yes, finished |-> e] EXCEPT !.finished = yes] =
            [layout |-> r, finishing |-> yes, finished |-> yes]
      OBVIOUS
    <3> QED BY <2>2, <3>1
  <2>4. CASE SameRate
    <3>1. resampler' = [layout |-> r, finishing |-> yes, finished |-> yes]
      BY <1>2, <2>3, <2>4 DEF yes
    <3> QED BY <2>1, <2>4, <3>1, Zenon DEF yes, r
  <2>5. CASE ~SameRate /\ resampler.finished
    <3>1. resampler' = [layout |-> r, finishing |-> f, finished |-> e]
      BY <1>2, <2>1, <2>5
    <3> QED BY <2>1, <2>5, <3>1, Zenon DEF f, e, r
  <2>6. CASE ~SameRate /\ ~resampler.finished
    <3>1. resampler' = [layout |-> r, finishing |-> yes, finished |-> e]
      BY <1>2, <2>2, <2>6 DEF yes
    <3> QED BY <2>1, <2>6, <3>1, Zenon DEF yes, e, r
  <2> QED BY <2>4, <2>5, <2>6
<1>6. /\ TypedInv' /\ Layout' = Layout /\ Backends' = Backends /\ resampler'.layout = resampler.layout
      /\ resampler'.finishing = g /\ resampler'.finished = h
  <2>1. backends' = [b \in 1..Count |-> backends[b]] /\ outputs' = [b \in 1..Count |-> outputs[b]]
    BY <1>1, <1>4 DEF TypedInv
  <2> QED BY <1>4, <1>5, <2>1, LayoutStands
<1>7. ConversionInv'
  BY NothingConverted
<1>8. ASSUME ~broken PROVE StreamInv'
  <2>1. StreamInv /\ Rates
    BY <1>4, <1>8, LayoutIs DEF ResamplerInv
  <2>2. taken \in Nat /\ Len(delivered) \in Nat /\ delivered = More(0, Len(delivered), taken)
    BY <2>1 DEF StreamInv
  <2>3. delivered \o <<>> = delivered
    <3>1. 0 \in Nat
      OBVIOUS
    <3>2. More(0, Len(delivered), taken) \o <<>> = More(0, Len(delivered), taken)
      BY <2>1, <2>2, <3>1, DeliveredNothing
    <3> QED BY <2>2, <3>2
  <2>4. CASE SameRate \/ resampler.finished \/ room = 0
    <3>1. PICK answer \in {"finished", "need_output"} :
            Deliver(<<>>, 0, answer) /\ (answer = "finished" => SameRate \/ resampler.finished)
      BY <1>2, <2>4
    <3>2. /\ UNCHANGED <<delivered, taken>> /\ round'.op = "none" /\ returned' = answer
      BY <2>2, <2>3, <3>1 DEF Deliver, NoRound
    <3>3. ~SameRate /\ (resampler'.finished \/ returned' = "finished") => Len(delivered) = RoundedDuration(taken)
      BY <1>5, <1>6, <2>1, <3>1, <3>2 DEF StreamInv
    <3>4. resampler'.finished => resampler'.finishing
      BY <1>5, <1>6, <2>1 DEF StreamInv
    <3> QED BY <1>1, <1>4, <1>5, <1>6, <2>1, <3>2, <3>3, <3>4, StreamStands
  <2>5. CASE ~(SameRate \/ resampler.finished \/ room = 0)
    <3>1. round' = BegunDraining("finish", room) /\ returned' = "none" /\ UNCHANGED <<delivered, taken>>
      BY <1>2, <2>5 DEF BegunDraining
    <3>2. round' = FirstRound("finish", 1, 0, room)
      BY <3>1, FirstRoundIs
    <3>3. room \in Nat \ {0} /\ resampler'.finishing /\ ~resampler'.finished
      BY <1>3, <1>5, <1>6, <2>5
    <3>4. ~(~SameRate /\ (resampler'.finished \/ returned' = "finished"))
      BY <3>1, <3>3
    <3>5. \/ round'.op = "none"
          \/ /\ ~SameRate /\ returned' = "none"
             /\ \/ \E n \in Nat \ {0}, space \in Nat \ {0} :
                     /\ round' = FirstRound("process", taken + 1, n, space)
                     /\ ~resampler'.finishing
                \/ \E space \in Nat \ {0} :
                     /\ round' = FirstRound("finish", 1, 0, space)
                     /\ resampler'.finishing /\ ~resampler'.finished
      BY <2>5, <3>1, <3>2, <3>3
    <3> QED BY <1>1, <1>4, <1>6, <2>1, <3>1, <3>3, <3>4, <3>5, StreamStands
  <2> QED BY <2>4, <2>5
<1> QED BY <1>1, <1>6, <1>7, <1>8 DEF ResamplerInv

\* The round after a channel's turn, and the one after a round of turns.
NextTurn(r, channel, progress) == [r EXCEPT !.channel = channel, !.progress = progress]
NextRound(r, first, left, room, consumed, produced) ==
  [r EXCEPT !.channel = 1, !.first = first, !.left = left, !.room = room, !.consumed = consumed,
            !.produced = produced]
NextDrain(r, room, produced) == [r EXCEPT !.channel = 1, !.room = room, !.produced = produced]
ARound(op, first, left, room, channel, consumed, produced, progress) ==
  [op |-> op, first |-> first, left |-> left, room |-> room, channel |-> channel,
   consumed |-> consumed, produced |-> produced, progress |-> progress]

\* The fields of the next turn, of the next round and of the next drain.
LEMMA NextTurnIs ==
  ASSUME NEW r, NEW o, NEW f, NEW l, NEW m, NEW c, NEW e, NEW p, NEW g,
         r = ARound(o, f, l, m, c, e, p, g), NEW C, NEW G
  PROVE  NextTurn(r, C, G) = ARound(o, f, l, m, C, e, p, G)
<1>1. [r EXCEPT !.channel = C] = ARound(o, f, l, m, C, e, p, g)
  BY DEF ARound
<1>2. [ARound(o, f, l, m, C, e, p, g) EXCEPT !.progress = G] = ARound(o, f, l, m, C, e, p, G)
  BY DEF ARound
<1>3. [[r EXCEPT !.channel = C] EXCEPT !.progress = G] = ARound(o, f, l, m, C, e, p, G)
  BY <1>1, <1>2
<1> QED BY <1>3 DEF NextTurn

LEMMA NextRoundIs ==
  ASSUME NEW r, NEW o, NEW f, NEW l, NEW m, NEW c, NEW e, NEW p, NEW g,
         r = ARound(o, f, l, m, c, e, p, g), NEW F, NEW L, NEW M, NEW E, NEW P
  PROVE  NextRound(r, F, L, M, E, P) = ARound(o, F, L, M, 1, E, P, g)
<1>1. [r EXCEPT !.channel = 1] = ARound(o, f, l, m, 1, e, p, g)
  BY DEF ARound
<1>2. /\ [ARound(o, f, l, m, 1, e, p, g) EXCEPT !.first = F] = ARound(o, F, l, m, 1, e, p, g)
      /\ [ARound(o, F, l, m, 1, e, p, g) EXCEPT !.left = L] = ARound(o, F, L, m, 1, e, p, g)
  BY DEF ARound
<1>3. /\ [ARound(o, F, L, m, 1, e, p, g) EXCEPT !.room = M] = ARound(o, F, L, M, 1, e, p, g)
      /\ [ARound(o, F, L, M, 1, e, p, g) EXCEPT !.consumed = E] = ARound(o, F, L, M, 1, E, p, g)
      /\ [ARound(o, F, L, M, 1, E, p, g) EXCEPT !.produced = P] = ARound(o, F, L, M, 1, E, P, g)
  BY DEF ARound
<1>4. [[[r EXCEPT !.channel = 1] EXCEPT !.first = F] EXCEPT !.left = L] = ARound(o, F, L, m, 1, e, p, g)
  BY <1>1, <1>2
<1>5. [[[ARound(o, F, L, m, 1, e, p, g) EXCEPT !.room = M] EXCEPT !.consumed = E] EXCEPT !.produced = P] =
        ARound(o, F, L, M, 1, E, P, g)
  BY <1>3
<1>6. [[[[[[r EXCEPT !.channel = 1] EXCEPT !.first = F] EXCEPT !.left = L] EXCEPT !.room = M]
          EXCEPT !.consumed = E] EXCEPT !.produced = P] = ARound(o, F, L, M, 1, E, P, g)
  BY <1>4, <1>5
<1> QED BY <1>6 DEF NextRound

LEMMA NextDrainIs ==
  ASSUME NEW r, NEW o, NEW f, NEW l, NEW m, NEW c, NEW e, NEW p, NEW g,
         r = ARound(o, f, l, m, c, e, p, g), NEW M, NEW P
  PROVE  NextDrain(r, M, P) = ARound(o, f, l, M, 1, e, P, g)
<1>1. [r EXCEPT !.channel = 1] = ARound(o, f, l, m, 1, e, p, g)
  BY DEF ARound
<1>2. /\ [ARound(o, f, l, m, 1, e, p, g) EXCEPT !.room = M] = ARound(o, f, l, M, 1, e, p, g)
      /\ [ARound(o, f, l, M, 1, e, p, g) EXCEPT !.produced = P] = ARound(o, f, l, M, 1, e, P, g)
  BY DEF ARound
<1>3. [[[r EXCEPT !.channel = 1] EXCEPT !.room = M] EXCEPT !.produced = P] =
        ARound(o, f, l, M, 1, e, P, g)
  BY <1>1, <1>2
<1> QED BY <1>3 DEF NextDrain

\* What a channel's turn does: it takes and makes what a step of the round takes and makes.
LEMMA TurnIs ==
  ASSUME TypedInv, StreamInv, ~SameRate, RoundInv, NEW k \in 1..Count, k = round.channel
  PROVE  LET b == backends[k]
             piece == [i \in 1..StepInput |-> round.first + i - 1]
             done == IF round.op = "process" THEN Processed(b, piece, StepRoom) ELSE DrainedBy(b, StepRoom)
         IN \E drained :
              done = [backend |-> Backend(FedNow + Step[1], MadeNow + Step[2], drained),
                      consumed |-> Step[1], produced |-> Step[2]]
<1> DEFINE b == backends[k]
           piece == [i \in 1..StepInput |-> round.first + i - 1]
<1>1. /\ Rates /\ FedNow \in Nat /\ MadeNow \in Nat /\ StepRoom \in Nat
      /\ b = Backend(FedNow, MadeNow, b.drained)
  <2>1. ~Ahead(k)
    BY DEF Ahead, RoundInv, RoundType
  <2>2. b = Backend(FedNow, MadeNow, b.drained)
    BY <2>1 DEF StreamInv, BackendInv
  <2> QED BY <2>2, LayoutIs, StepIs, StepSizes
<1>2. CASE round.op = "process"
  <2>1. MadeNow <= ReadyOf(FedNow) /\ StepInput \in Nat /\ round.first = FedNow + 1
    BY <1>2, StepIs, StepSizes DEF RoundInv
  <2>2. piece = [i \in 1..StepInput |-> FedNow + i]
    BY <1>1, <2>1
  <2>3. Step = <<Taking(FedNow, MadeNow, StepInput, StepRoom), Making(FedNow, MadeNow, StepInput, StepRoom)>>
    BY <1>2 DEF Step
  <2> HIDE DEF b, piece
  <2>4. Processed(b, piece, StepRoom) =
          [backend |-> Backend(FedNow + Taking(FedNow, MadeNow, StepInput, StepRoom),
                               MadeNow + Making(FedNow, MadeNow, StepInput, StepRoom), b.drained),
           consumed |-> Taking(FedNow, MadeNow, StepInput, StepRoom),
           produced |-> Making(FedNow, MadeNow, StepInput, StepRoom)]
    BY <1>1, <2>1, <2>2, ProcessedIs
  <2>5. Processed(b, piece, StepRoom) =
          [backend |-> Backend(FedNow + Step[1], MadeNow + Step[2], b.drained),
           consumed |-> Step[1], produced |-> Step[2]]
    BY <2>3, <2>4
  <2> QED BY <1>2, <2>5 DEF b, piece
<1>3. CASE round.op = "finish"
  <2>1. MadeNow <= RoundedDuration(FedNow)
    BY <1>3 DEF StreamInv, RoundInv, RoundType, Limit
  <2>2. Step = <<0, Draining(FedNow, MadeNow, StepRoom)>>
    BY <1>3 DEF Step
  <2>3. DrainedBy(b, StepRoom) =
          [backend |-> Backend(FedNow, MadeNow + Draining(FedNow, MadeNow, StepRoom), TRUE),
           consumed |-> 0, produced |-> Draining(FedNow, MadeNow, StepRoom)]
    <3> DEFINE d == b.drained
    <3>1. b = Backend(FedNow, MadeNow, d)
      BY <1>1
    <3> HIDE DEF b, d
    <3>2. DrainedBy(Backend(FedNow, MadeNow, d), StepRoom) =
            [backend |-> Backend(FedNow, MadeNow + Draining(FedNow, MadeNow, StepRoom), TRUE),
             consumed |-> 0, produced |-> Draining(FedNow, MadeNow, StepRoom)]
      BY <1>1, <2>1, DrainedIs
    <3> QED BY <3>1, <3>2
  <2>4. DrainedBy(b, StepRoom) =
          [backend |-> Backend(FedNow + Step[1], MadeNow + Step[2], TRUE),
           consumed |-> Step[1], produced |-> Step[2]]
    <3>1. /\ Step[1] = 0 /\ Step[2] = Draining(FedNow, MadeNow, StepRoom)
          /\ FedNow + Step[1] = FedNow
      BY <1>1, <2>2
    <3> QED BY <2>3, <3>1
  <2> QED BY <1>3, <2>4
<1>4. round.op \in {"process", "finish"}
  BY DEF RoundInv, RoundType
<1> QED BY <1>2, <1>3, <1>4

\* After a turn the channel is a step ahead, and everything else is where it was.
LEMMA TurnMade ==
  ASSUME ResamplerInv, ~broken, conversion = NoConversion, UNCHANGED conversion, ChannelTurn, ~broken'
  PROVE  /\ ~SameRate /\ RoundInv /\ round.channel \in 1..Count /\ StreamInv
         /\ UNCHANGED <<resampler, broken, returned, delivered, taken>>
         /\ round' = NextTurn(round, round.channel + 1, Step)
         /\ \E drained :
              backends' = [backends EXCEPT ![round.channel] = Backend(FedNow + Step[1], MadeNow + Step[2], drained)]
         /\ outputs' = [outputs EXCEPT ![round.channel] = [i \in 1..Step[2] |-> Right(MadeNow + i, FedNow + Step[1])]]
<1> DEFINE k == round.channel
           b == backends[k]
           piece == [i \in 1..StepInput |-> round.first + i - 1]
           done == IF round.op = "process" THEN Processed(b, piece, StepRoom) ELSE DrainedBy(b, StepRoom)
           more == [i \in 1..done.produced |-> FrameOfBackend(done.backend, b.made + i)]
           progress == <<done.consumed, done.produced>>
<1>1. TypedInv /\ StreamInv /\ round.op # "none" /\ k \in Backends
  BY DEF ResamplerInv, ChannelTurn
<1>2. ~SameRate /\ RoundInv /\ k \in 1..Count /\ Rates
  BY <1>1, LayoutIs DEF StreamInv
<1>3. PICK drained : done = [backend |-> Backend(FedNow + Step[1], MadeNow + Step[2], drained),
                             consumed |-> Step[1], produced |-> Step[2]]
  BY <1>1, <1>2, TurnIs
<1>4. /\ FedNow \in Nat /\ MadeNow \in Nat /\ Step[1] \in Nat /\ Step[2] \in Nat /\ Step = <<Step[1], Step[2]>>
  <2>1. StepRoom \in Nat
    BY <1>1, <1>2, StepSizes
  <2>2. Step = <<Step[1], Step[2]>>
    BY DEF Step
  <2> QED BY <1>1, <1>2, <2>1, <2>2, StepIs
<1>5. b.made = MadeNow
  <2>1. ~Ahead(k)
    BY <1>2 DEF Ahead, RoundInv, RoundType
  <2>2. b = Backend(FedNow, MadeNow, b.drained)
    BY <1>1, <1>2, <2>1 DEF StreamInv, BackendInv
  <2>3. Backend(FedNow, MadeNow, b.drained).made = MadeNow
    BY DEF Backend
  <2> HIDE DEF b
  <2> QED BY <2>2, <2>3
<1>6. progress = Step /\ (k > 1 => round.progress = Step)
  <2>1. done.consumed = Step[1] /\ done.produced = Step[2]
    <3> HIDE DEF done
    <3> QED BY <1>3
  <2> HIDE DEF done
  <2> QED BY <1>2, <1>4, <2>1 DEF RoundInv
<1>7. more = [i \in 1..Step[2] |-> Right(MadeNow + i, FedNow + Step[1])]
  <2>1. done.produced = Step[2] /\ done.backend = Backend(FedNow + Step[1], MadeNow + Step[2], drained)
    <3> HIDE DEF done
    <3> QED BY <1>3
  <2> HIDE DEF done, b
  <2>2. ASSUME NEW i \in 1..Step[2]
        PROVE  FrameOfBackend(done.backend, b.made + i) = Right(MadeNow + i, FedNow + Step[1])
    <3> DEFINE n == MadeNow + i
               f == FedNow + Step[1]
               m == MadeNow + Step[2]
    <3>1. n \in Nat \ {0} /\ f \in Nat
      BY <1>4
    <3> HIDE DEF n, f, m
    <3>2. FrameOfBackend(Backend(f, m, drained), n) = Right(n, f)
      BY <1>2, <3>1, FrameIs
    <3> QED BY <1>5, <2>1, <3>2 DEF n, f, m
  <2> QED BY <2>1, <2>2
<1>8. /\ backends' = [backends EXCEPT ![k] = done.backend]
      /\ IF k > 1 /\ progress # round.progress
         THEN FailCall /\ UNCHANGED <<outputs, broken>>
         ELSE /\ outputs' = [outputs EXCEPT ![k] = EmptyBuffer \o more]
              /\ round' = [round EXCEPT !.channel = round.channel + 1, !.progress = progress]
              /\ UNCHANGED <<broken, returned, delivered, taken>>
      /\ UNCHANGED resampler
  BY DEF ChannelTurn
<1>9. EmptyBuffer \o more = more
  <2>1. \A i \in 1..Step[2] : Right(MadeNow + i, FedNow + Step[1]) \in Nat
    <3> TAKE i \in 1..Step[2]
    <3>1. MadeNow + i \in Nat \ {0}
      BY <1>4
    <3>2. SourceOf(MadeNow + i) \in Nat
      <4> DEFINE n == MadeNow + i
      <4> HIDE DEF n
      <4>1. n \in Nat \ {0}
        BY <3>1 DEF n
      <4>2. SourceOf(n) \in Nat
        BY <1>2, <4>1, SourceIs
      <4> QED BY <4>2 DEF n
    <3> QED BY <3>2 DEF Right
  <2> HIDE DEF more
  <2>2. more \in Seq(Nat)
    BY <1>4, <1>7, <2>1
  <2> QED BY <2>2 DEF EmptyBuffer
<1>10. /\ outputs' = [outputs EXCEPT ![k] = more] /\ UNCHANGED <<broken, returned, delivered, taken>>
       /\ round' = [round EXCEPT !.channel = round.channel + 1, !.progress = progress]
  <2> HIDE DEF more, progress, done
  <2> QED BY <1>6, <1>8, <1>9
<1>11. backends' = [backends EXCEPT ![k] = Backend(FedNow + Step[1], MadeNow + Step[2], drained)]
  <2> HIDE DEF done
  <2>1. done.backend = Backend(FedNow + Step[1], MadeNow + Step[2], drained)
    BY <1>3
  <2> QED BY <1>8, <2>1
<1>12. round' = NextTurn(round, round.channel + 1, Step)
  <2> HIDE DEF progress
  <2> QED BY <1>6, <1>10 DEF NextTurn
<1> HIDE DEF more, done
<1> QED BY <1>1, <1>2, <1>7, <1>8, <1>10, <1>11, <1>12

\* One channel's turn.
LEMMA TurnTaken ==
  ASSUME ResamplerInv, conversion = NoConversion, UNCHANGED conversion, ChannelTurn
  PROVE  ResamplerInv'
<1>1. /\ TypedInv /\ round.channel \in Backends /\ UNCHANGED resampler
      /\ \/ UNCHANGED backends
         \/ \E x : backends' = [backends EXCEPT ![round.channel] = x]
      /\ \/ UNCHANGED outputs
         \/ \E x : outputs' = [outputs EXCEPT ![round.channel] = x]
      /\ broken => broken'
  BY DEF ResamplerInv, ChannelTurn, FailCall
<1>2. /\ TypedInv' /\ Layout' = Layout /\ Backends' = Backends /\ resampler'.layout = resampler.layout
      /\ Backends = 1..Count
  <2>1. /\ DOMAIN backends = 1..Count /\ DOMAIN outputs = 1..Count
        /\ backends' = [b \in 1..Count |-> backends'[b]]
        /\ outputs' = [b \in 1..Count |-> outputs'[b]]
    BY <1>1 DEF TypedInv
  <2> QED BY <1>1, <2>1, LayoutIs DEF TypedInv, Layout, Count, Backends
<1>3. ConversionInv'
  BY NothingConverted
<1>4. ASSUME ~broken' PROVE StreamInv'
  <2>1. ~broken
    BY <1>1, <1>4
  <2>2. /\ ~SameRate /\ RoundInv /\ round.channel \in 1..Count /\ StreamInv
        /\ UNCHANGED <<resampler, broken, returned, delivered, taken>>
        /\ round' = NextTurn(round, round.channel + 1, Step)
        /\ outputs' = [outputs EXCEPT ![round.channel] = [i \in 1..Step[2] |-> Right(MadeNow + i, FedNow + Step[1])]]
    BY <1>4, <2>1, TurnMade
  <2>3. PICK drained :
          backends' = [backends EXCEPT ![round.channel] = Backend(FedNow + Step[1], MadeNow + Step[2], drained)]
    BY <1>4, <2>1, TurnMade
  <2>4. /\ Rates /\ (SameRate' <=> SameRate) /\ Count' = Count /\ Count \in Nat \ {0}
        /\ \A f : RoundedDuration(f)' = RoundedDuration(f)
        /\ \A f : ReadyOf(f)' = ReadyOf(f)
        /\ \A n, f : Right(n, f)' = Right(n, f)
        /\ \A m, p, f : More(m, p, f)' = More(m, p, f)
        /\ \A f, m, n, room : Taking(f, m, n, room)' = Taking(f, m, n, room)
        /\ \A f, m, n, room : Making(f, m, n, room)' = Making(f, m, n, room)
        /\ \A f, m, room : Draining(f, m, room)' = Draining(f, m, room)
    BY <1>1, <1>2, LayoutIs, SameLayout
  <2>5. /\ round' = ARound(round.op, round.first, round.left, round.room, round.channel + 1,
                           round.consumed, round.produced, Step)
        /\ RoundType'
    <3>1. round = ARound(round.op, round.first, round.left, round.room, round.channel,
                         round.consumed, round.produced, round.progress)
      BY <2>2 DEF RoundInv, RoundType, ARound
    <3>2. round' = ARound(round.op, round.first, round.left, round.room, round.channel + 1,
                          round.consumed, round.produced, Step)
      BY <2>2, <3>1, NextTurnIs
    <3> DEFINE next == ARound(round.op, round.first, round.left, round.room, round.channel + 1,
                              round.consumed, round.produced, Step)
    <3>3. /\ next = [op |-> next.op, first |-> next.first, left |-> next.left, room |-> next.room,
                     channel |-> next.channel, consumed |-> next.consumed,
                     produced |-> next.produced, progress |-> next.progress]
          /\ next.op = round.op /\ next.room = round.room /\ next.consumed = round.consumed
          /\ next.produced = round.produced /\ next.channel = round.channel + 1
      BY DEF ARound
    <3>4. /\ round.op \in {"process", "finish"} /\ round.channel + 1 \in 1..Count + 1
          /\ round.room \in Nat \ {0} /\ round.consumed \in Nat /\ Len(round.produced) \in Nat
      BY <2>2, <2>4 DEF RoundInv, RoundType
    <3> HIDE DEF next
    <3>5. RoundType'
      BY <2>4, <3>2, <3>3, <3>4 DEF RoundType, next
    <3> QED BY <3>2, <3>5
  <2>6. /\ round'.op = round.op /\ round'.first = round.first /\ round'.left = round.left
        /\ round'.room = round.room /\ round'.consumed = round.consumed
        /\ round'.produced = round.produced /\ round'.progress = Step
        /\ round'.channel = round.channel + 1 /\ round.op \in {"process", "finish"}
    BY <2>2, <2>5 DEF ARound, RoundInv, RoundType
  <2>7. FedNow' = FedNow /\ MadeNow' = MadeNow /\ StepInput' = StepInput /\ StepRoom' = StepRoom
    BY <1>2, <2>2, <2>6 DEF FedNow, MadeNow, StepInput, StepRoom, Ceiling, FewerOf
  <2>8. Step' = Step
    BY <2>4, <2>6, <2>7 DEF Step
  <2>9. RoundInv'
    <3>1. round'.produced = More(Len(delivered), Len(round.produced), FedNow)'
      BY <2>2, <2>4, <2>6, <2>7 DEF RoundInv
    <3> QED BY <2>2, <2>5, <2>6, <2>7, <2>8, <3>1 DEF RoundInv
  <2>10. ASSUME NEW b \in 1..Count PROVE BackendInv(b)'
    <3>1. BackendInv(b) /\ round.channel \in 1..Count
      BY <2>2 DEF StreamInv
    <3>2. CASE b = round.channel
      <4>1. backends'[b] = Backend(FedNow + Step[1], MadeNow + Step[2], drained)
        BY <1>1, <1>2, <2>3, <3>2 DEF TypedInv
      <4>2. backends'[b].drained = drained
        BY <4>1 DEF Backend
      <4>3. outputs'[b] = [i \in 1..Step[2] |-> Right(MadeNow + i, FedNow + Step[1])]
        BY <1>1, <1>2, <2>2, <3>2 DEF TypedInv
      <4>4. [i \in 1..Step[2] |-> Right(MadeNow + i, FedNow + Step[1])]' =
              [i \in 1..Step[2] |-> Right(MadeNow + i, FedNow + Step[1])]
        BY <2>4, <2>7, <2>8
      <4>5. Ahead(b)'
        BY <2>6, <3>1, <3>2 DEF Ahead
      <4>6. backends'[b] = Backend(FedNow' + Step'[1], MadeNow' + Step'[2], backends'[b].drained)
        BY <2>7, <2>8, <4>1, <4>2
      <4> QED BY <4>3, <4>4, <4>5, <4>6 DEF BackendInv, Backend, Numbered
    <3>3. CASE b # round.channel
      <4>1. backends'[b] = backends[b] /\ outputs'[b] = outputs[b]
        BY <1>1, <1>2, <2>2, <2>3, <3>3 DEF TypedInv
      <4>2. Ahead(b)' <=> Ahead(b)
        BY <2>6, <3>1, <3>3 DEF Ahead
      <4>3. [i \in 1..Step[2] |-> Right(MadeNow + i, FedNow + Step[1])]' =
              [i \in 1..Step[2] |-> Right(MadeNow + i, FedNow + Step[1])]
        BY <2>4, <2>7, <2>8
      <4>4. CASE Ahead(b)
        <5>1. backends'[b] = Backend(FedNow' + Step'[1], MadeNow' + Step'[2], backends'[b].drained)
          BY <2>7, <2>8, <3>1, <4>1, <4>4 DEF BackendInv
        <5>2. outputs'[b] = [i \in 1..Step[2] |-> Right(MadeNow + i, FedNow + Step[1])]'
          BY <3>1, <4>1, <4>3, <4>4 DEF BackendInv
        <5> QED BY <4>2, <4>4, <5>1, <5>2 DEF BackendInv, Backend, Numbered
      <4>5. CASE ~Ahead(b)
        BY <2>7, <3>1, <4>1, <4>2, <4>5 DEF BackendInv, Backend, Numbered
      <4> QED BY <4>4, <4>5
    <3> QED BY <3>2, <3>3
  <2>11. /\ Limit(taken)' = Limit(taken) /\ Limit(FedNow)' = Limit(FedNow)
         /\ More(0, Len(delivered), taken)' = More(0, Len(delivered), taken)
    BY <2>2, <2>4, <2>7 DEF Limit
  <2> QED BY <2>2, <2>4, <2>6, <2>7, <2>9, <2>10, <2>11 DEF StreamInv
<1> QED BY <1>2, <1>3, <1>4 DEF ResamplerInv

\* When every channel had its turn, the frames they made are interleaved.
LEMMA TurnsMade ==
  ASSUME TypedInv, StreamInv, ~SameRate, RoundInv, round.channel \notin Backends
  PROVE  /\ round.progress = Step
         /\ Interleaved = More(MadeNow, Step[2], FedNow + Step[1]) /\ Len(Interleaved) = Step[2]
         /\ \A b \in 1..Count :
              backends[b] = Backend(FedNow + Step[1], MadeNow + Step[2], backends[b].drained)
<1>1. /\ Rates /\ Count \in Nat \ {0} /\ Backends = 1..Count /\ round.channel \in 1..Count + 1
      /\ round.op # "none"
  BY LayoutIs DEF RoundInv, RoundType
<1>2. round.channel = Count + 1
  BY <1>1
<1>3. round.progress = Step
  BY <1>1, <1>2 DEF RoundInv
<1>4. ASSUME NEW b \in 1..Count
      PROVE  /\ backends[b] = Backend(FedNow + Step[1], MadeNow + Step[2], backends[b].drained)
             /\ outputs[b] = [i \in 1..Step[2] |-> Right(MadeNow + i, FedNow + Step[1])]
  <2>1. Ahead(b)
    BY <1>1, <1>2 DEF Ahead
  <2> QED BY <2>1 DEF StreamInv, BackendInv
<1>5. FedNow \in Nat /\ MadeNow \in Nat /\ Step[1] \in Nat /\ Step[2] \in Nat
  <2>1. StepRoom \in Nat
    BY StepSizes
  <2> QED BY <2>1, StepIs
<1> DEFINE p == Step[2]
           m == MadeNow
           f == FedNow + Step[1]
<1>6. p \in Nat /\ m \in Nat /\ f \in Nat
  BY <1>5
<1> HIDE DEF p, m, f
<1>7. \A b \in 1..Count : outputs[b] = [i \in 1..p |-> Right(m + i, f)]
  BY <1>4 DEF p, m, f
<1>8. \A b \in 1..Count : Len(outputs[b]) = p /\ \A i \in 1..p : outputs[b][i] = Right(m + i, f)
  <2> TAKE b \in 1..Count
  <2> DEFINE channelOutput == outputs[b]
  <2>1. channelOutput = [i \in 1..p |-> Right(m + i, f)]
    BY <1>7
  <2> HIDE DEF channelOutput
  <2> QED BY <1>6, <2>1 DEF channelOutput
<1>9. Interleaved = More(m, p, f)
  <2>1. Len(outputs[1]) = p
    BY <1>1, <1>8
  <2>2. ASSUME NEW i \in 1..p
        PROVE  [b \in Backends |-> IF i <= Len(outputs[b]) THEN outputs[b][i] ELSE 0] = AllAlike(Right(m + i, f))
    <3>1. \A b \in Backends : (IF i <= Len(outputs[b]) THEN outputs[b][i] ELSE 0) = Right(m + i, f)
      BY <1>1, <1>6, <1>8
    <3> QED BY <3>1 DEF AllAlike
  <2> QED BY <2>1, <2>2 DEF Interleaved, More
<1>10. Len(Interleaved) = p
  BY <1>1, <1>6, <1>9, MoreLength
<1> QED BY <1>3, <1>4, <1>9, <1>10 DEF p, m, f

\* They continue what the call made before, and that continues the stream.
LEMMA RoundJoined ==
  ASSUME TypedInv, StreamInv, ~SameRate, RoundInv, round.channel \notin Backends
  PROVE  LET produced == round.produced \o Interleaved
         IN /\ produced = More(Len(delivered), Len(round.produced) + Step[2], FedNow + Step[1])
            /\ Len(produced) = Len(round.produced) + Step[2]
            /\ delivered = More(0, Len(delivered), FedNow + Step[1])
            /\ delivered \o produced = More(0, MadeNow + Step[2], FedNow + Step[1])
            /\ Len(delivered \o produced) = MadeNow + Step[2]
            /\ MadeNow + Step[2] <= Limit(FedNow + Step[1])
<1> DEFINE g == FedNow + Step[1]
           d == Len(delivered)
           p == Len(round.produced)
           q == Step[2]
<1>1. /\ Rates /\ d \in Nat /\ p \in Nat /\ taken \in Nat /\ FedNow \in Nat /\ Step[1] \in Nat /\ q \in Nat
      /\ taken <= FedNow /\ round.op \in {"process", "finish"} /\ MadeNow = d + p
  <2>1. StepRoom \in Nat
    BY StepSizes
  <2>2. round.op \in {"process", "finish"} /\ p \in Nat /\ d \in Nat
    BY DEF RoundInv, RoundType, StreamInv
  <2>3. MadeNow = d + p
    BY <2>2 DEF MadeNow
  <2> QED BY <2>1, <2>2, <2>3, LayoutIs, StepIs
<1>2. /\ delivered = More(0, d, taken) /\ round.produced = More(d, p, FedNow)
      /\ Interleaved = More(d + p, q, g)
  BY <1>1, TurnsMade DEF StreamInv, RoundInv
<1>3. /\ More(0, d, taken) = More(0, d, g) /\ More(d, p, FedNow) = More(d, p, g)
      /\ d + p + q <= Limit(g)
  <2>1. CASE round.op = "process"
    <3>1. /\ ~resampler.finishing /\ d <= ReadyOf(taken) /\ d + p <= ReadyOf(FedNow) /\ d + p + q <= ReadyOf(g)
      <4>1. ~resampler.finishing
        BY <2>1 DEF RoundInv
      <4>2. MadeNow <= ReadyOf(FedNow) /\ MadeNow + q <= ReadyOf(g)
        BY <2>1, StepIs
      <4>3. d <= Limit(taken)
        BY DEF StreamInv
      <4> QED BY <1>1, <4>1, <4>2, <4>3 DEF Limit
    <3>2. 0 \in Nat /\ g \in Nat /\ taken <= g /\ FedNow <= g
      BY <1>1
    <3> HIDE DEF d, p, q, g
    <3>3. 0 + d <= ReadyOf(taken)
      BY <1>1, <3>1
    <3>4. More(0, d, taken) = More(0, d, g)
      BY <1>1, <3>2, <3>3, MoreStays
    <3>5. More(d, p, FedNow) = More(d, p, g)
      BY <1>1, <3>1, <3>2, MoreStays
    <3> QED BY <3>1, <3>4, <3>5 DEF Limit
  <2>2. CASE round.op = "finish"
    <3>1. Step[1] = 0 /\ FedNow = taken /\ MadeNow + q <= RoundedDuration(FedNow) /\ resampler.finishing
      BY <2>2, StepIs DEF RoundInv
    <3>2. g = taken
      BY <1>1, <3>1
    <3> HIDE DEF g, d, p, q
    <3> QED BY <1>1, <3>1, <3>2 DEF Limit
  <2> QED BY <1>1, <2>1, <2>2
<1>4. g \in Nat /\ d + p \in Nat /\ p + q \in Nat /\ 0 \in Nat
  BY <1>1
<1> DEFINE produced == round.produced \o Interleaved
<1>5. /\ More(d, p, g) \o More(d + p, q, g) = More(d, p + q, g)
      /\ Len(More(d, p + q, g)) = p + q
  <2> HIDE DEF d, p, q, g
  <2>1. More(d, p, g) \o More(d + p, q, g) = More(d, p + q, g)
    <3>1. Rates /\ d \in Nat /\ p \in Nat /\ q \in Nat /\ g \in Nat
      BY <1>1, <1>4
    <3>2. OneRun(d, p, q, g)
      BY <3>1, MoreJoined
    <3> QED BY <3>2 DEF OneRun
  <2>2. Len(More(d, p + q, g)) = p + q
    BY <1>1, <1>4, MoreLength
  <2> QED BY <2>1, <2>2
<1>6. produced = More(d, p + q, g) /\ Len(produced) = p + q
  <2> HIDE DEF d, p, q, g
  <2> QED BY <1>2, <1>3, <1>5
<1>7. /\ More(0, d, g) \o More(0 + d, p + q, g) = More(0, d + (p + q), g)
      /\ Len(More(0, d + (p + q), g)) = d + (p + q)
  <2> HIDE DEF d, p, q, g
  <2>1. d + (p + q) \in Nat
    BY <1>1
  <2>2. More(0, d, g) \o More(0 + d, p + q, g) = More(0, d + (p + q), g)
    <3> DEFINE r == p + q
               z == 0
    <3>1. Rates /\ z \in Nat /\ d \in Nat /\ r \in Nat /\ g \in Nat
      BY <1>1, <1>4
    <3> HIDE DEF r, z
    <3>2. OneRun(z, d, r, g)
      BY <3>1, MoreJoined
    <3> QED BY <3>2 DEF OneRun, r, z
  <2>3. Len(More(0, d + (p + q), g)) = d + (p + q)
    BY <1>1, <1>4, <2>1, MoreLength
  <2> QED BY <2>2, <2>3
<1>8. 0 + d = d /\ d + (p + q) = MadeNow + q
  BY <1>1
<1>9. delivered \o produced = More(0, MadeNow + q, g) /\ Len(delivered \o produced) = MadeNow + q
  <2> HIDE DEF d, p, q, g, produced
  <2> QED BY <1>2, <1>3, <1>6, <1>7, <1>8
<1> HIDE DEF produced
<1> QED BY <1>1, <1>2, <1>3, <1>6, <1>9 DEF produced

\* After a round, at the end of the call or where the next round begins.
LEMMA RoundEnds ==
  ASSUME TypedInv, StreamInv, ~SameRate, RoundInv, round.channel \notin Backends,
         Layout' = Layout, Backends' = Backends, resampler'.layout = resampler.layout,
         resampler'.finishing = resampler.finishing, UNCHANGED backends,
         FedNow' = FedNow + Step[1], MadeNow' = MadeNow + Step[2], round'.op = "none" \/ round'.channel = 1
  PROVE  MadeNow' <= Limit(FedNow)' /\ \A b \in 1..Count : BackendInv(b)'
<1>1. /\ Rates /\ \A f : RoundedDuration(f)' = RoundedDuration(f)
      /\ \A f : ReadyOf(f)' = ReadyOf(f)
  BY LayoutIs, SameLayout
<1>2. MadeNow' <= Limit(FedNow)'
  <2>1. MadeNow + Step[2] <= Limit(FedNow + Step[1])
    BY RoundJoined
  <2>2. Limit(FedNow)' = Limit(FedNow + Step[1])
    BY <1>1 DEF Limit
  <2> QED BY <2>1, <2>2
<1>3. ASSUME NEW b \in 1..Count PROVE BackendInv(b)'
  <2>1. ~Ahead(b)'
    BY DEF Ahead
  <2>2. backends[b] = Backend(FedNow + Step[1], MadeNow + Step[2], backends[b].drained)
    BY TurnsMade
  <2> QED BY <2>1, <2>2 DEF BackendInv, Backend
<1> QED BY <1>2, <1>3

\* A round that hands its frames on.
LEMMA RoundDelivers ==
  ASSUME TypedInv, StreamInv, ~SameRate, RoundInv, round.channel \notin Backends,
         Layout' = Layout, Backends' = Backends, resampler'.layout = resampler.layout,
         resampler'.finishing = resampler.finishing, UNCHANGED backends,
         NEW consumed, taken + consumed = FedNow + Step[1], NEW answer, answer # "error",
         Deliver(round.produced \o Interleaved, consumed, answer),
         resampler'.finished => resampler.finishing,
         resampler'.finished \/ answer = "finished" => MadeNow + Step[2] = RoundedDuration(FedNow + Step[1])
  PROVE  StreamInv'
<1> DEFINE g == FedNow + Step[1]
           m == MadeNow + Step[2]
<1>1. /\ Rates /\ (SameRate' <=> SameRate) /\ Count' = Count
      /\ \A f : RoundedDuration(f)' = RoundedDuration(f)
      /\ \A n, p, f : More(n, p, f)' = More(n, p, f)
  BY LayoutIs, SameLayout
<1>2. g \in Nat /\ m \in Nat
  <2>1. StepRoom \in Nat
    BY StepSizes
  <2> QED BY <2>1, StepIs
<1>3. delivered' = More(0, m, g) /\ Len(delivered') = m /\ taken' = g /\ round'.op = "none" /\ returned' = answer
  BY RoundJoined DEF Deliver, NoRound
<1>4. FedNow' = g /\ MadeNow' = m
  BY <1>3 DEF FedNow, MadeNow
<1>5. MadeNow' <= Limit(FedNow)' /\ \A b \in 1..Count : BackendInv(b)'
  BY <1>3, <1>4, RoundEnds
<1>6. Limit(taken)' = Limit(FedNow)'
  BY <1>3, <1>4 DEF Limit
<1>7. delivered' = More(0, Len(delivered), taken)'
  BY <1>1, <1>3
<1> HIDE DEF g, m
<1> QED BY <1>1, <1>2, <1>3, <1>4, <1>5, <1>6, <1>7 DEF StreamInv, g, m

\* A round that is followed by the next one.
LEMMA RoundContinues ==
  ASSUME TypedInv, StreamInv, ~SameRate, RoundInv, round.channel \notin Backends,
         Layout' = Layout, Backends' = Backends, resampler'.layout = resampler.layout,
         UNCHANGED <<resampler, backends, delivered, taken, returned>>,
         NEW first, NEW left, NEW room \in Nat \ {0}, NEW consumed \in Nat,
         taken + consumed = FedNow + Step[1],
         round' = ARound(round.op, first, left, room, 1, consumed, round.produced \o Interleaved, round.progress),
         round.op = "process" => left \in Nat \ {0} /\ first = FedNow + Step[1] + 1,
         round.op = "finish" => consumed = 0
  PROVE  StreamInv'
<1> DEFINE g == FedNow + Step[1]
           m == MadeNow + Step[2]
           produced == round.produced \o Interleaved
<1>1. /\ Rates /\ (SameRate' <=> SameRate) /\ Count' = Count /\ Count \in Nat \ {0}
      /\ \A f : RoundedDuration(f)' = RoundedDuration(f)
      /\ \A f : ReadyOf(f)' = ReadyOf(f)
      /\ \A n, p, f : More(n, p, f)' = More(n, p, f)
  BY LayoutIs, SameLayout
<1>2. g \in Nat /\ MadeNow \in Nat /\ Step[2] \in Nat /\ taken \in Nat /\ Len(delivered) \in Nat
  <2>1. StepRoom \in Nat
    BY StepSizes
  <2> QED BY <2>1, StepIs DEF StreamInv
<1>3. /\ produced = More(Len(delivered), Len(round.produced) + Step[2], g)
      /\ Len(produced) = Len(round.produced) + Step[2]
  BY RoundJoined
<1>4. Len(round.produced) \in Nat /\ MadeNow = Len(delivered) + Len(round.produced)
      /\ round.op \in {"process", "finish"}
  BY DEF MadeNow, RoundInv, RoundType
<1> DEFINE next == ARound(round.op, first, left, room, 1, consumed, produced, round.progress)
<1>5. /\ next = [op |-> next.op, first |-> next.first, left |-> next.left, room |-> next.room,
                 channel |-> next.channel, consumed |-> next.consumed,
                 produced |-> next.produced, progress |-> next.progress]
      /\ next.op = round.op /\ next.first = first /\ next.left = left /\ next.room = room
      /\ next.channel = 1 /\ next.consumed = consumed /\ next.produced = produced
  BY DEF ARound
<1> HIDE DEF next, produced
<1>6. round' = next
  BY DEF next, produced
<1>7. FedNow' = g /\ MadeNow' = m
  <2>1. FedNow' = taken + consumed
    BY <1>4, <1>5, <1>6 DEF FedNow
  <2>2. MadeNow' = Len(delivered) + Len(produced)
    BY <1>4, <1>5, <1>6 DEF MadeNow
  <2> QED BY <1>2, <1>3, <1>4, <2>1, <2>2
<1>8. MadeNow' <= Limit(FedNow)' /\ \A b \in 1..Count : BackendInv(b)'
  BY <1>5, <1>6, <1>7, RoundEnds
<1>9. RoundInv'
  <2>1. RoundType'
    <3>1. Count' = Count /\ 1 \in 1..Count + 1
      BY <1>1
    <3>2. Len(next.produced) \in Nat
      <4> DEFINE a == Len(round.produced)
                 b == Step[2]
      <4>1. a \in Nat /\ b \in Nat /\ Len(produced) = a + b
        BY <1>2, <1>3, <1>4
      <4> HIDE DEF a, b
      <4>2. Len(produced) \in Nat
        BY <4>1
      <4> QED BY <1>5, <4>2
    <3>3. /\ next.op \in {"process", "finish"} /\ next.channel \in 1..Count' + 1
          /\ next.room \in Nat \ {0} /\ next.consumed \in Nat
      BY <1>4, <1>5, <3>1
    <3> QED BY <1>5, <1>6, <3>2, <3>3 DEF RoundType
  <2>2. round'.produced = More(Len(delivered), Len(round.produced), FedNow)'
    BY <1>1, <1>3, <1>5, <1>6, <1>7
  <2>3. /\ round'.op = round.op /\ round'.first = first /\ round'.left = left /\ round'.channel = 1
        /\ round'.consumed = consumed
    BY <1>5, <1>6
  <2>4. round'.op = "process" =>
          ~resampler'.finishing /\ round'.left \in Nat \ {0} /\ round'.first = FedNow' + 1
    BY <1>7, <2>3 DEF RoundInv
  <2>5. round'.op = "finish" =>
          resampler'.finishing /\ ~resampler'.finished /\ round'.consumed = 0
    BY <2>3 DEF RoundInv
  <2>6. ~(round'.channel > 1) /\ returned' = "none"
    BY <2>3 DEF RoundInv
  <2> QED BY <2>1, <2>2, <2>4, <2>5, <2>6 DEF RoundInv
<1>10. /\ Limit(taken)' = Limit(taken)
       /\ More(0, Len(delivered), taken)' = More(0, Len(delivered), taken)
  BY <1>1 DEF Limit
<1>11. round.op # "none" /\ round'.op # "none"
  BY <1>4, <1>5, <1>6
<1> QED BY <1>1, <1>8, <1>9, <1>10, <1>11 DEF StreamInv

\* The end of a round of `process`: it always got somewhere.
LEMMA ProcessRoundEnded ==
  ASSUME ResamplerInv, conversion = NoConversion, UNCHANGED conversion, ProcessRound
  PROVE  ResamplerInv'
<1> DEFINE consumed == round.consumed + round.progress[1]
           produced == round.produced \o Interleaved
           left == round.left - round.progress[1]
           room == round.room - round.progress[2]
<1>1. /\ round.op = "process" /\ round.channel \notin Backends
      /\ UNCHANGED <<resampler, backends, outputs, broken>>
      /\ IF round.progress = <<0, 0>> \/ Len(Interleaved) # round.progress[2] THEN FailCall
         ELSE IF left = 0 THEN Deliver(produced, consumed, "need_input")
         ELSE IF room = 0 THEN Deliver(produced, consumed, "need_output")
         ELSE /\ round' = [round EXCEPT !.channel = 1, !.first = round.first + round.progress[1], !.left = left,
                                        !.room = room, !.consumed = consumed, !.produced = produced]
              /\ UNCHANGED <<delivered, taken, returned>>
  BY DEF ProcessRound
<1>2. TypedInv
  BY DEF ResamplerInv
<1>3. /\ TypedInv' /\ Layout' = Layout /\ Backends' = Backends /\ resampler'.layout = resampler.layout
  BY <1>1, <1>2 DEF TypedInv, Layout, Count, Backends
<1>4. ConversionInv'
  BY NothingConverted
<1>5. ASSUME ~broken PROVE StreamInv'
  <2>1. StreamInv /\ ~SameRate /\ RoundInv
    BY <1>1, <1>5 DEF ResamplerInv, StreamInv
  <2>2. /\ round.progress = Step /\ Len(Interleaved) = Step[2] /\ Step # <<0, 0>>
    BY <1>1, <1>2, <2>1, TurnsMade, StepIs
  <2>3. /\ left \in Nat /\ room \in Nat /\ consumed \in Nat /\ taken + consumed = FedNow + Step[1]
        /\ round.first + round.progress[1] = FedNow + Step[1] + 1
    <3>1. /\ Step[1] \in 0..StepInput /\ Step[2] \in 0..StepRoom
          /\ StepInput \in 1..round.left /\ StepRoom \in 1..round.room
      BY <1>1, <1>2, <2>1, StepIs, StepSizes
    <3>2. /\ round.left \in Nat /\ round.room \in Nat /\ round.consumed \in Nat /\ taken \in Nat
          /\ round.first = FedNow + 1 /\ FedNow = taken + round.consumed
      BY <1>1, <2>1 DEF RoundInv, RoundType, StreamInv, FedNow
    <3> DEFINE c == Step[1]
               p == Step[2]
               f == FedNow
    <3>3. /\ c \in 0..StepInput /\ p \in 0..StepRoom
          /\ round.first = f + 1 /\ f = taken + round.consumed
      BY <3>1, <3>2
    <3>4. round.progress[1] = c /\ round.progress[2] = p
      BY <2>2
    <3>5. /\ left = round.left - c /\ room = round.room - p /\ consumed = round.consumed + c
          /\ round.first + round.progress[1] = round.first + c
      BY <3>4
    <3> HIDE DEF c, p, f, left, room, consumed
    <3>6. /\ left \in Nat /\ room \in Nat
      BY <3>1, <3>2, <3>3, <3>5
    <3>7. /\ consumed \in Nat /\ taken + consumed = f + c
          /\ round.first + round.progress[1] = f + c + 1
      BY <3>1, <3>2, <3>3, <3>5
    <3> QED BY <3>6, <3>7 DEF c, f
  <2>4. ~resampler.finishing /\ ~resampler.finished
    BY <1>1, <2>1 DEF RoundInv, StreamInv
  <2>5. CASE left = 0 \/ room = 0
    <3>1. PICK answer \in {"need_input", "need_output"} : Deliver(produced, consumed, answer)
      <4> HIDE DEF produced, left, room
      <4> QED BY <1>1, <2>2, <2>5
    <3> HIDE DEF consumed, left, room
    <3> QED BY <1>1, <1>2, <1>3, <2>1, <2>3, <2>4, <3>1, RoundDelivers
  <2>6. CASE ~(left = 0 \/ room = 0)
    <3>1. /\ round' = NextRound(round, round.first + round.progress[1], left, room, consumed, produced)
          /\ UNCHANGED <<delivered, taken, returned>>
      BY <1>1, <2>2, <2>6 DEF NextRound
    <3>2. round = ARound(round.op, round.first, round.left, round.room, round.channel,
                         round.consumed, round.produced, round.progress)
      BY <2>1 DEF RoundInv, RoundType, ARound
    <3> DEFINE first == round.first + round.progress[1]
    <3> HIDE DEF first, left, room, consumed, produced
    <3>3. round' = ARound(round.op, first, left, room, 1, consumed, produced, round.progress)
      BY <3>1, <3>2, NextRoundIs DEF first
    <3>4. first = FedNow + Step[1] + 1 /\ left \in Nat \ {0} /\ room \in Nat \ {0}
      BY <2>3, <2>6 DEF first
    <3> QED BY <1>1, <1>2, <1>3, <2>1, <2>3, <3>1, <3>3, <3>4, RoundContinues DEF produced
  <2> QED BY <2>5, <2>6
<1> QED BY <1>1, <1>3, <1>4, <1>5 DEF ResamplerInv

\* The end of a round of `finish`.
LEMMA FinishRoundEnded ==
  ASSUME ResamplerInv, conversion = NoConversion, UNCHANGED conversion, FinishRound
  PROVE  ResamplerInv'
<1> DEFINE produced == round.produced \o Interleaved
           room == round.room - round.progress[2]
           last == IF Layout.interleaved THEN room > 0 ELSE round.progress[2] = 0
           done == [resampler EXCEPT !.finished = TRUE]
<1>1. /\ round.op = "finish" /\ round.channel \notin Backends
      /\ UNCHANGED <<backends, outputs, broken>>
      /\ IF Len(Interleaved) # round.progress[2] THEN FailCall /\ UNCHANGED resampler
         ELSE IF last THEN resampler' = done /\ Deliver(produced, 0, "finished")
         ELSE IF room = 0 THEN Deliver(produced, 0, "need_output") /\ UNCHANGED resampler
         ELSE /\ round' = [round EXCEPT !.channel = 1, !.room = room, !.produced = produced]
              /\ UNCHANGED <<resampler, delivered, taken, returned>>
  BY DEF FinishRound
<1>2. /\ TypedInv /\ Layout \in Layouts /\ resampler.finishing \in BOOLEAN /\ resampler.finished \in BOOLEAN
      /\ resampler = [layout |-> Layout, finishing |-> resampler.finishing, finished |-> resampler.finished]
  BY DEF ResamplerInv, TypedInv
<1>3. done = [layout |-> Layout, finishing |-> resampler.finishing, finished |-> TRUE]
  <2> DEFINE yes == TRUE
             f == resampler.finishing
             e == resampler.finished
             r == Layout
  <2>1. resampler = [layout |-> r, finishing |-> f, finished |-> e]
    BY <1>2
  <2> HIDE DEF yes, f, e, r
  <2>2. [resampler EXCEPT !.finished = yes] = [layout |-> r, finishing |-> f, finished |-> yes]
    BY <2>1
  <2> QED BY <2>2 DEF yes, f, r
<1>4. PICK h \in BOOLEAN :
        /\ resampler' = [layout |-> Layout, finishing |-> resampler.finishing, finished |-> h]
        /\ (resampler' = resampler /\ h = resampler.finished) \/ resampler' = done
  <2> HIDE DEF done, produced, room, last
  <2>1. resampler' = resampler \/ resampler' = done
    BY <1>1
  <2>2. TRUE \in BOOLEAN
    OBVIOUS
  <2> QED BY <1>2, <1>3, <2>1, <2>2
<1>5. /\ TypedInv' /\ Layout' = Layout /\ Backends' = Backends /\ resampler'.layout = resampler.layout
      /\ resampler'.finishing = resampler.finishing /\ resampler'.finished = h
  <2>1. backends' = [b \in 1..Count |-> backends[b]] /\ outputs' = [b \in 1..Count |-> outputs[b]]
    BY <1>1, <1>2 DEF TypedInv
  <2> DEFINE f == resampler.finishing
  <2>2. f \in BOOLEAN /\ resampler' = [layout |-> Layout, finishing |-> f, finished |-> h]
    BY <1>2, <1>4
  <2> HIDE DEF f
  <2>3. /\ TypedInv' /\ Layout' = Layout /\ Backends' = Backends /\ resampler'.layout = resampler.layout
        /\ resampler'.finishing = f /\ resampler'.finished = h
    BY <1>2, <2>1, <2>2, LayoutStands
  <2> QED BY <2>3 DEF f
<1>6. ConversionInv'
  BY NothingConverted
<1>7. ASSUME ~broken PROVE StreamInv'
  <2>1. StreamInv /\ ~SameRate /\ RoundInv
    BY <1>1, <1>7 DEF ResamplerInv, StreamInv
  <2>2. /\ round.progress = Step /\ Len(Interleaved) = Step[2] /\ Step[1] = 0 /\ FedNow = taken
        /\ Step[2] \in 0..StepRoom /\ (Step[2] < StepRoom => MadeNow + Step[2] = RoundedDuration(FedNow))
        /\ StepRoom \in 1..round.room
    BY <1>1, <1>2, <2>1, TurnsMade, StepIs, StepSizes
  <2>3. /\ room \in Nat /\ taken \in Nat /\ taken + 0 = FedNow + Step[1] /\ FedNow + Step[1] = FedNow
        /\ ~resampler.finished /\ resampler.finishing /\ round.consumed = 0
    BY <1>1, <2>1, <2>2 DEF RoundInv, RoundType, StreamInv
  <2>4. CASE last
    <3>1. resampler' = done /\ Deliver(produced, 0, "finished")
      <4> HIDE DEF done, produced, last
      <4> QED BY <1>1, <2>2, <2>4
    <3>2. Step[2] < StepRoom
      <4>1. CASE Layout.interleaved
        BY <2>2, <2>3, <2>4, <4>1 DEF StepRoom
      <4>2. CASE ~Layout.interleaved
        BY <2>2, <2>4, <4>2
      <4> QED BY <4>1, <4>2
    <3>3. MadeNow + Step[2] = RoundedDuration(FedNow + Step[1])
      BY <2>2, <2>3, <3>2
    <3> QED BY <1>1, <1>2, <1>5, <2>1, <2>3, <3>1, <3>3, RoundDelivers
  <2>5. CASE ~last
    <3>1. UNCHANGED resampler
      <4> HIDE DEF done, produced, last, room
      <4> QED BY <1>1, <2>2, <2>5
    <3>2. CASE room = 0
      <4>1. Deliver(produced, 0, "need_output")
        <5> HIDE DEF produced, last
        <5> QED BY <1>1, <2>2, <2>5, <3>2
      <4> QED BY <1>1, <1>2, <1>5, <2>1, <2>3, <3>1, <4>1, RoundDelivers
    <3>3. CASE room # 0
      <4>1. round' = NextDrain(round, room, produced) /\ UNCHANGED <<delivered, taken, returned>>
        <5> HIDE DEF last
        <5> QED BY <1>1, <2>2, <2>5, <3>3 DEF NextDrain
      <4>2. round = ARound(round.op, round.first, round.left, round.room, round.channel,
                           round.consumed, round.produced, round.progress)
        BY <2>1 DEF RoundInv, RoundType, ARound
      <4> HIDE DEF room, produced
      <4>3. round' = ARound(round.op, round.first, round.left, room, 1, round.consumed, produced, round.progress)
        BY <4>1, <4>2, NextDrainIs
      <4>4. room \in Nat \ {0} /\ round.consumed \in Nat /\ taken + round.consumed = FedNow + Step[1]
        BY <2>3, <3>3
      <4> QED BY <1>1, <1>2, <1>5, <2>1, <2>3, <3>1, <4>1, <4>3, <4>4, RoundContinues DEF produced
    <3> QED BY <3>2, <3>3
  <2> QED BY <2>4, <2>5
<1> QED BY <1>1, <1>5, <1>6, <1>7 DEF ResamplerInv

\* A stream that was not fed yet.
LEMMA FreshStream ==
  ASSUME TypedInv, round.op = "none", delivered = <<>>, taken = 0, returned = "none",
         ~resampler.finishing, ~resampler.finished, \A b \in 1..Count : backends[b] = NewBackend
  PROVE  StreamInv
<1>1. Rates
  BY LayoutIs
<1>2. FedNow = 0 /\ MadeNow = 0 /\ Len(delivered) = 0
  BY DEF FedNow, MadeNow
<1>3. \A b \in 1..Count : BackendInv(b)
  <2> TAKE b \in 1..Count
  <2>1. backends[b] = Backend(0, 0, FALSE)
    BY <1>1, NothingYet
  <2>2. backends[b].drained = FALSE
    BY <2>1 DEF Backend
  <2> QED BY <1>2, <2>1, <2>2 DEF BackendInv, Ahead
<1>4. ReadyOf(0) \in Nat /\ Limit(0) = ReadyOf(0)
  BY <1>1, NothingYet DEF Limit
<1>5. delivered = More(0, Len(delivered), taken)
  BY <1>1, <1>2, NothingYet
<1> QED BY <1>2, <1>3, <1>4, <1>5 DEF StreamInv

\* At the start.
LEMMA ResamplerStarts == ResamplerInit => ResamplerInv
<1> SUFFICES ASSUME ResamplerInit PROVE ResamplerInv
  OBVIOUS
<1>1. PICK layout \in Layouts :
        /\ resampler = [layout |-> layout, finishing |-> FALSE, finished |-> FALSE]
        /\ backends = [b \in 1..(IF layout.interleaved THEN 1 ELSE layout.channels) |-> NewBackend]
  BY DEF ResamplerInit
<1>2. Layout = layout /\ ~resampler.finishing /\ ~resampler.finished
  BY <1>1 DEF Layout
<1>3. backends = [b \in 1..Count |-> NewBackend] /\ Backends = 1..Count
  BY <1>1, <1>2 DEF Count, Backends
<1>4. outputs = [b \in 1..Count |-> <<>>]
  BY <1>3 DEF ResamplerInit
<1>5. TypedInv
  <2> DEFINE no == FALSE
  <2>1. resampler = [layout |-> Layout, finishing |-> no, finished |-> no]
    BY <1>1, <1>2
  <2>2. resampler.finishing = no /\ resampler.finished = no
    BY <1>1
  <2>3. {no, no} \subseteq BOOLEAN
    OBVIOUS
  <2> HIDE DEF no
  <2>4. \A b \in 1..Count : backends[b] = NewBackend /\ outputs[b] = <<>>
    BY <1>3, <1>4
  <2>5. backends = [b \in 1..Count |-> backends[b]] /\ outputs = [b \in 1..Count |-> outputs[b]]
    BY <1>3, <1>4, <2>4
  <2> QED BY <1>2, <2>1, <2>2, <2>3, <2>5, Zenon DEF TypedInv
<1>6. ConversionInv
  BY DEF ResamplerInit, ConversionInv
<1>7. StreamInv
  <2>1. round.op = "none" /\ delivered = <<>> /\ taken = 0 /\ returned = "none"
    BY DEF ResamplerInit, NoRound
  <2>2. \A b \in 1..Count : backends[b] = NewBackend
    BY <1>3
  <2> QED BY <1>2, <1>5, <2>1, <2>2, FreshStream
<1> QED BY <1>5, <1>6, <1>7 DEF ResamplerInv

\* A reset: what a backend that cannot be cleared keeps is remembered by `broken`.
LEMMA ResetDone ==
  ASSUME ResamplerInv, conversion = NoConversion, UNCHANGED conversion, ResamplerReset
  PROVE  ResamplerInv'
<1>1. /\ round.op = "none" /\ UNCHANGED round /\ delivered' = <<>> /\ taken' = 0
      /\ outputs' = [b \in Backends |-> <<>>]
      /\ resampler' = [resampler EXCEPT !.finishing = FALSE, !.finished = FALSE]
  BY DEF ResamplerReset
<1>2. PICK stuck \in {{}} \cup {{b} : b \in Backends} :
        /\ backends' = [b \in Backends |-> IF b \in stuck THEN backends[b] ELSE NewBackend]
        /\ broken' = (stuck # {})
        /\ returned' = IF stuck = {} THEN "none" ELSE "error"
  BY DEF ResamplerReset
<1>3. /\ TypedInv /\ Layout \in Layouts /\ Backends = 1..Count
      /\ resampler = [layout |-> Layout, finishing |-> resampler.finishing, finished |-> resampler.finished]
  BY LayoutIs DEF ResamplerInv, TypedInv
<1>4. resampler' = [layout |-> Layout, finishing |-> FALSE, finished |-> FALSE]
  <2> DEFINE no == FALSE
             f == resampler.finishing
             e == resampler.finished
             r == Layout
  <2>1. resampler = [layout |-> r, finishing |-> f, finished |-> e]
    BY <1>3
  <2> HIDE DEF no, f, e, r
  <2>2. [resampler EXCEPT !.finishing = no] = [layout |-> r, finishing |-> no, finished |-> e]
    BY <2>1
  <2>3. [[layout |-> r, finishing |-> no, finished |-> e] EXCEPT !.finished = no] =
          [layout |-> r, finishing |-> no, finished |-> no]
    OBVIOUS
  <2>4. [[resampler EXCEPT !.finishing = no] EXCEPT !.finished = no] =
          [layout |-> r, finishing |-> no, finished |-> no]
    BY <2>2, <2>3
  <2> QED BY <1>1, <2>4 DEF no, r
<1>5. /\ TypedInv' /\ Layout' = Layout /\ Count' = Count /\ ~resampler'.finishing /\ ~resampler'.finished
  <2> DEFINE now == [b \in 1..Count |-> IF b \in stuck THEN backends[b] ELSE NewBackend]
             outs == [b \in 1..Count |-> <<>>]
             no == FALSE
  <2>1. backends' = [b \in 1..Count |-> now[b]] /\ outputs' = [b \in 1..Count |-> outs[b]]
    BY <1>1, <1>2, <1>3
  <2>2. no \in BOOLEAN /\ resampler' = [layout |-> Layout, finishing |-> no, finished |-> no]
    BY <1>4
  <2> HIDE DEF now, outs, no
  <2>3. TypedInv' /\ Layout' = Layout /\ resampler'.finishing = no /\ resampler'.finished = no
    BY <1>3, <2>1, <2>2, LayoutStands
  <2> QED BY <2>3 DEF Count, no
<1>6. ConversionInv'
  BY NothingConverted
<1>7. ASSUME ~broken' PROVE StreamInv'
  <2>1. stuck = {}
    BY <1>2, <1>7
  <2>2. \A b \in 1..Count : backends'[b] = NewBackend
    BY <1>2, <1>3, <2>1
  <2>3. /\ round'.op = "none" /\ delivered' = <<>> /\ taken' = 0 /\ returned' = "none"
        /\ \A b \in 1..Count' : backends'[b] = NewBackend
    BY <1>1, <1>2, <1>5, <2>1, <2>2
  <2>4. /\ Rates /\ \A f : ReadyOf(f)' = ReadyOf(f)
        /\ \A m, p, f : More(m, p, f)' = More(m, p, f)
    BY <1>3, <1>4, <1>5, LayoutIs, SameLayout DEF Backends, TypedInv
  <2>5. FedNow' = 0 /\ MadeNow' = 0 /\ Len(delivered') = 0
    BY <2>3 DEF FedNow, MadeNow
  <2>6. \A b \in 1..Count' : BackendInv(b)'
    <3> TAKE b \in 1..Count'
    <3>1. backends'[b] = Backend(0, 0, FALSE)
      BY <2>3, <2>4, NothingYet
    <3>2. backends'[b].drained = FALSE
      BY <3>1 DEF Backend
    <3> QED BY <2>3, <2>5, <3>1, <3>2 DEF BackendInv, Ahead
  <2>7. ReadyOf(0) \in Nat /\ Limit(0)' = ReadyOf(0)
    BY <1>5, <2>4, NothingYet DEF Limit
  <2>8. delivered' = More(0, Len(delivered), taken)'
    BY <2>3, <2>4, <2>5, NothingYet
  <2> QED BY <1>5, <2>3, <2>5, <2>6, <2>7, <2>8 DEF StreamInv
<1> QED BY <1>5, <1>6, <1>7 DEF ResamplerInv

-----------------------------------------------------------------------------
(* A one-shot conversion.                                                  *)

AConversion(threads, frames, answer, result) ==
  [threads |-> threads, frames |-> frames, answer |-> answer, made |-> result]
AThread(backend, offset, output, at) ==
  [backend |-> backend, offset |-> offset, output |-> output, at |-> at]

Copying(frames, answer, result) == [NoConversion EXCEPT !.frames = frames, !.answer = answer, !.made = result]
Starting(frames, answer, threads) ==
  [NoConversion EXCEPT !.frames = frames, !.answer = answer, !.threads = threads]
WithThread(threads, ch, thread) == [threads EXCEPT ![ch] = thread]
ThreadAt(thread, at) == [thread EXCEPT !.at = at]
Stepping(c, ch, thread) == [c EXCEPT !.threads[ch] = thread]
Failing(c, ch, at) == [c EXCEPT !.threads[ch].at = at]
Answering(c, answer) == [c EXCEPT !.answer = answer]
Joining(c, answer, result) == [c EXCEPT !.answer = answer, !.made = result]

\* What the steps of a conversion make of its record.
LEMMA CopyingIs ==
  ASSUME NEW n, NEW a, NEW m
  PROVE  /\ Copying(n, a, m) = AConversion(<<>>, n, a, m)
         /\ Starting(n, a, m) = AConversion(m, n, a, <<>>)
<1> DEFINE none == "none"
           empty == <<>>
<1>1. NoConversion = AConversion(empty, 0, none, empty)
  BY DEF NoConversion, AConversion
<1> HIDE DEF none, empty
<1>2. [NoConversion EXCEPT !.frames = n] = AConversion(empty, n, none, empty)
  BY <1>1 DEF AConversion
<1>3. [AConversion(empty, n, none, empty) EXCEPT !.answer = a] = AConversion(empty, n, a, empty)
  BY DEF AConversion
<1>4. /\ [AConversion(empty, n, a, empty) EXCEPT !.made = m] = AConversion(empty, n, a, m)
      /\ [AConversion(empty, n, a, empty) EXCEPT !.threads = m] = AConversion(m, n, a, empty)
  BY DEF AConversion
<1>5. [[[NoConversion EXCEPT !.frames = n] EXCEPT !.answer = a] EXCEPT !.made = m] = AConversion(empty, n, a, m)
  BY <1>2, <1>3, <1>4
<1>6. [[[NoConversion EXCEPT !.frames = n] EXCEPT !.answer = a] EXCEPT !.threads = m] = AConversion(m, n, a, empty)
  BY <1>2, <1>3, <1>4
<1> QED BY <1>5, <1>6 DEF Copying, Starting, empty

\* The fields of a conversion that was answered.
LEMMA JoiningIs ==
  ASSUME NEW t, NEW n, NEW a, NEW m, NEW c, c = AConversion(t, n, a, m), NEW A
  PROVE  /\ Answering(c, A) = AConversion(t, n, A, m)
         /\ \A M : Joining(c, A, M) = AConversion(t, n, A, M)
<1>1. [c EXCEPT !.answer = A] = AConversion(t, n, A, m)
  BY DEF AConversion
<1>2. ASSUME NEW M PROVE Joining(c, A, M) = AConversion(t, n, A, M)
  <2>1. [AConversion(t, n, A, m) EXCEPT !.made = M] = AConversion(t, n, A, M)
    BY DEF AConversion
  <2>2. [[c EXCEPT !.answer = A] EXCEPT !.made = M] = AConversion(t, n, A, M)
    BY <1>1, <2>1
  <2> QED BY <2>2 DEF Joining
<1> QED BY <1>1, <1>2 DEF Answering

\* The fields of a conversion one of whose threads took a step.
LEMMA SteppingIs ==
  ASSUME NEW t, NEW n, NEW a, NEW m, NEW c, c = AConversion(t, n, a, m), NEW ch, NEW T
  PROVE  /\ Stepping(c, ch, T) = AConversion(WithThread(t, ch, T), n, a, m)
         /\ Failing(c, ch, T) = AConversion(WithThread(t, ch, ThreadAt(t[ch], T)), n, a, m)
<1>1. \A s : [c EXCEPT !.threads = s] = AConversion(s, n, a, m)
  BY DEF AConversion
<1>2. c.threads = t
  BY DEF AConversion
<1>3. Stepping(c, ch, T) = [c EXCEPT !.threads = [c.threads EXCEPT ![ch] = T]]
  BY DEF Stepping
<1>4. Failing(c, ch, T) = [c EXCEPT !.threads = [c.threads EXCEPT ![ch] = [c.threads[ch] EXCEPT !.at = T]]]
  BY DEF Failing
<1> QED BY <1>1, <1>2, <1>3, <1>4 DEF WithThread, ThreadAt

\* A conversion leaves the stream alone.
LEMMA StreamRests ==
  ASSUME ResamplerInv, broken => broken',
         UNCHANGED <<resampler, backends, outputs, round, delivered, taken, returned>>
  PROVE  /\ TypedInv' /\ Layout' = Layout /\ Backends' = Backends /\ resampler'.layout = resampler.layout
         /\ ~broken' => StreamInv'
<1>1. TypedInv
  BY DEF ResamplerInv
<1>2. /\ TypedInv' /\ Layout' = Layout /\ Backends' = Backends /\ resampler'.layout = resampler.layout
  BY <1>1 DEF TypedInv, Layout, Count, Backends
<1>3. ASSUME ~broken' PROVE StreamInv'
  <2>1. StreamInv
    BY <1>3 DEF ResamplerInv
  <2>2. /\ (SameRate' <=> SameRate) /\ Count' = Count
        /\ \A f : RoundedDuration(f)' = RoundedDuration(f)
        /\ \A f : ReadyOf(f)' = ReadyOf(f)
        /\ \A n, f : Right(n, f)' = Right(n, f)
        /\ \A m, p, f : More(m, p, f)' = More(m, p, f)
        /\ \A f, m, n, room : Taking(f, m, n, room)' = Taking(f, m, n, room)
        /\ \A f, m, n, room : Making(f, m, n, room)' = Making(f, m, n, room)
        /\ \A f, m, room : Draining(f, m, room)' = Draining(f, m, room)
    BY <1>2, SameLayout
  <2>3. FedNow' = FedNow /\ MadeNow' = MadeNow /\ StepInput' = StepInput /\ StepRoom' = StepRoom
    BY <1>2 DEF FedNow, MadeNow, StepInput, StepRoom, Ceiling, FewerOf
  <2>4. Step' = Step
    BY <2>2, <2>3 DEF Step
  <2>5. /\ Limit(taken)' = Limit(taken) /\ Limit(FedNow)' = Limit(FedNow)
        /\ More(0, Len(delivered), taken)' = More(0, Len(delivered), taken)
    BY <2>2, <2>3 DEF Limit
  <2>6. RoundInv' <=> RoundInv
    <3>1. RoundType' <=> RoundType
      BY <2>2 DEF RoundType
    <3>2. More(Len(delivered), Len(round.produced), FedNow)' = More(Len(delivered), Len(round.produced), FedNow)
      BY <2>2, <2>3
    <3> QED BY <2>3, <2>4, <3>1, <3>2 DEF RoundInv
  <2>7. \A b \in 1..Count : BackendInv(b)' <=> BackendInv(b)
    <3> TAKE b \in 1..Count
    <3>1. Ahead(b)' <=> Ahead(b)
      BY DEF Ahead
    <3>2. [i \in 1..Step[2] |-> Right(MadeNow + i, FedNow + Step[1])]' =
            [i \in 1..Step[2] |-> Right(MadeNow + i, FedNow + Step[1])]
      BY <2>2, <2>3, <2>4
    <3> QED BY <2>3, <2>4, <3>1, <3>2 DEF BackendInv, Backend, Numbered
  <2> QED BY <2>1, <2>2, <2>3, <2>5, <2>6, <2>7 DEF StreamInv
<1> QED BY <1>2, <1>3

\* A conversion begins.
LEMMA ConversionBegins ==
  ASSUME TypedInv, ResampleParallel, Layout' = Layout, Backends' = Backends,
         resampler'.layout = resampler.layout
  PROVE  ConversionInv'
<1>1. /\ Rates /\ \A f : RoundedDuration(f)' = RoundedDuration(f)
      /\ \A f : ReadyOf(f)' = ReadyOf(f)
      /\ \A n, f : Right(n, f)' = Right(n, f)
  BY LayoutIs, SameLayout
<1>2. PICK n \in InputSizes :
        conversion' =
          IF SameRate THEN [NoConversion EXCEPT !.frames = n, !.answer = "ok",
                              !.made = [i \in 1..n |-> [ch \in 1..Layout.channels |-> i]]]
          ELSE [NoConversion EXCEPT !.frames = n, !.answer = "running",
                  !.threads = [ch \in 1..Layout.channels |-> NewThread(n)]]
  BY DEF ResampleParallel
<1>3. n \in Nat
  BY ResamplerAssumption
<1>4. CASE SameRate
  <2> DEFINE result == [i \in 1..n |-> [ch \in 1..Layout.channels |-> i]]
  <2>1. result = Whole(n)'
    <3>1. Whole(n)' = [i \in 1..RoundedDuration(n) |-> [ch \in 1..Layout.channels |-> Right(i, n)]]
      BY <1>1 DEF Whole
    <3>2. RoundedDuration(n) = n
      BY <1>1, <1>3, <1>4, Unconverted
    <3>3. \A i \in 1..n : Right(i, n) = i
      <4> TAKE i \in 1..n
      <4>1. SourceOf(i) = i
        BY <1>1, <1>3, <1>4, Unconverted
      <4> QED BY <1>3, <4>1 DEF Right
    <3> QED BY <3>1, <3>2, <3>3
  <2> HIDE DEF result
  <2>2. conversion' = Copying(n, "ok", result)
    BY <1>2, <1>4 DEF Copying, result
  <2>3. conversion' = AConversion(<<>>, n, "ok", result)
    BY <2>2, CopyingIs
  <2>4. /\ conversion' = [threads |-> conversion'.threads, frames |-> conversion'.frames,
                          answer |-> conversion'.answer, made |-> conversion'.made]
        /\ conversion'.frames = n /\ conversion'.answer = "ok" /\ conversion'.made = result
    BY <2>3 DEF AConversion
  <2> QED BY <1>3, <2>1, <2>4 DEF ConversionInv, Whole
<1>5. CASE ~SameRate
  <2> DEFINE threads == [ch \in 1..Layout.channels |-> NewThread(n)]
             t == NewThread(n)
  <2> HIDE DEF threads
  <2>1. conversion' = Starting(n, "running", threads)
    BY <1>2, <1>5 DEF Starting, threads
  <2>2. conversion' = AConversion(threads, n, "running", <<>>)
    BY <2>1, CopyingIs
  <2>3. /\ conversion' = [threads |-> conversion'.threads, frames |-> conversion'.frames,
                          answer |-> conversion'.answer, made |-> conversion'.made]
        /\ conversion'.frames = n /\ conversion'.answer = "running" /\ conversion'.threads = threads
    BY <2>2 DEF AConversion
  <2>4. /\ t = [backend |-> t.backend, offset |-> t.offset, output |-> t.output, at |-> t.at]
        /\ t.backend = NewBackend /\ t.offset = 0 /\ t.output = <<>>
        /\ t.at = IF n = 0 THEN "drain" ELSE "process"
    BY DEF NewThread
  <2> HIDE DEF t
  <2>5. t.backend = Backend(0, 0, t.backend.drained) /\ ReadyOf(0) \in Nat /\ RoundedDuration(0) \in Nat
    <3>1. t.backend = Backend(0, 0, FALSE) /\ ReadyOf(0) \in Nat /\ RoundedDuration(0) \in Nat
      BY <1>1, <2>4, NothingYet
    <3>2. t.backend.drained = FALSE
      BY <3>1 DEF Backend
    <3> QED BY <3>1, <3>2
  <2>6. ThreadInv(t)'
    <3>1. t.output = [i \in 1..Len(t.output) |-> Right(i, t.offset)']
      <4>1. Len(t.output) = 0 /\ 1..0 = {}
        BY <2>4
      <4> QED BY <2>4, <4>1
    <3>2. Len(t.output) = 0 /\ ReadyOf(0)' = ReadyOf(0) /\ RoundedDuration(0)' = RoundedDuration(0)
      BY <1>1, <2>4
    <3>3. t.offset \in 0..n /\ t.backend = Backend(t.offset, Len(t.output), t.backend.drained)
      BY <1>3, <2>4, <2>5, <3>2
    <3>4. \/ t.at = "process" /\ t.offset < n /\ Len(t.output) <= ReadyOf(t.offset)'
          \/ /\ t.at = "drain" /\ t.offset = n /\ Len(t.output) <= RoundedDuration(t.offset)'
      BY <1>1, <1>3, <2>4, <2>5, <3>2
    <3> QED BY <2>3, <2>4, <3>1, <3>2, <3>3, <3>4 DEF ThreadInv, Backend, Numbered
  <2>7. /\ threads = [ch \in 1..Layout.channels |-> threads[ch]]
        /\ \A ch \in 1..Layout.channels : threads[ch] = t
    BY DEF threads, t
  <2> QED BY <1>3, <2>3, <2>6, <2>7 DEF ConversionInv
<1> QED BY <1>4, <1>5

\* What is left of a chunk is something.
LEMMA ChunkIs ==
  ASSUME NEW t, conversion.frames \in Nat, t.offset \in Nat, t.offset < conversion.frames
  PROVE  \E n \in 1..conversion.frames - t.offset : ChunkLeft(t) = [i \in 1..n |-> t.offset + i]
<1> DEFINE o == t.offset
           q == o \div OneShotChunk
           next == (q + 1) * OneShotChunk
           end == FewerOf(next, conversion.frames)
<1>1. OneShotChunk \in Nat \ {0} /\ o \in Nat
  BY ResamplerAssumption
<1>2. q \in Nat /\ OneShotChunk * q <= o /\ o < OneShotChunk * q + OneShotChunk
  <2> HIDE DEF o
  <2> QED BY <1>1, Quotient
<1>3. next \in Nat /\ o < next
  <2> HIDE DEF q, o
  <2>1. next = OneShotChunk * q + OneShotChunk
    BY <1>1, <1>2
  <2> QED BY <1>1, <1>2, <2>1
<1>4. end - o \in 1..conversion.frames - o
  <2> HIDE DEF next
  <2> QED BY <1>3 DEF FewerOf
<1>5. ChunkLeft(t) = [i \in 1..end - o |-> o + i]
  BY DEF ChunkLeft
<1> HIDE DEF end
<1> QED BY <1>4, <1>5

\* The scratch buffer of a thread has room.
LEMMA ScratchIs ==
  ASSUME Rates
  PROVE  ScratchFrames \in Nat \ {0}
<1>1. Slack \in Nat /\ OneShotChunk \in Nat \ {0}
  BY ResamplerAssumption
<1> DEFINE a == OneShotChunk * Layout.to + Layout.from - 1
<1>2. a \in Nat /\ a >= Layout.from
  <2>1. OneShotChunk * Layout.to \in Nat \ {0}
    BY <1>1 DEF Rates
  <2> QED BY <1>1, <2>1 DEF Rates
<1> HIDE DEF a
<1>3. a \div Layout.from \in Nat /\ a < Layout.from * (a \div Layout.from) + Layout.from
  BY <1>2, Quotient DEF Rates
<1>4. a \div Layout.from # 0
  BY <1>2, <1>3 DEF Rates
<1> QED BY <1>1, <1>3, <1>4 DEF ScratchFrames, Ceiling, a

\* What a thread's call makes goes on from what it made before.
FirstFrames(m, f) == [i \in 1..m |-> Right(i, f)]
NextFrames(m, p, f) == [i \in 1..p |-> Right(m + i, f)]

\* Two runs of one thread's output are one, when the first was ready.
LEMMA OutputJoined ==
  ASSUME Rates, NEW m \in Nat, NEW p \in Nat, NEW f \in Nat, NEW g \in Nat, f <= g,
         f = g \/ m <= ReadyOf(f)
  PROVE  /\ FirstFrames(m, f) \o NextFrames(m, p, g) = FirstFrames(m + p, g)
         /\ Len(FirstFrames(m + p, g)) = m + p
<1> DEFINE s == [i \in 1..m |-> Right(i, f)]
           t == [i \in 1..p |-> Right(m + i, g)]
           u == [i \in 1..m + p |-> Right(i, g)]
           w == s \o t
<1>1. \A n \in Nat \ {0}, x \in Nat : Right(n, x) \in Int
  BY SourceIs DEF Right
<1>2. ASSUME NEW i \in 1..m PROVE Right(i, f) = Right(i, g)
  <2>1. CASE f = g
    BY <2>1
  <2>2. CASE m <= ReadyOf(f)
    <3>1. i \in Nat \ {0} /\ i <= ReadyOf(f)
      <4>1. ReadyOf(f) \in Nat
        BY ReadyAre
      <4> QED BY <2>2, <4>1
    <3> QED BY <3>1, ReadyGrows
  <2> QED BY <2>1, <2>2
<1>3. s \in Seq(Int) /\ Len(s) = m /\ \A i \in 1..m : s[i] = Right(i, g)
  BY <1>1, <1>2
<1>4. t \in Seq(Int) /\ Len(t) = p /\ \A i \in 1..p : t[i] = Right(m + i, g)
  BY <1>1
<1>5. u \in Seq(Int) /\ Len(u) = m + p /\ \A i \in 1..m + p : u[i] = Right(i, g)
  BY <1>1
<1> HIDE DEF s, t, u
<1>6. /\ w \in Seq(Int) /\ Len(w) = m + p
      /\ \A i \in 1..m + p : w[i] = IF i <= m THEN s[i] ELSE t[i - m]
  <2>1. s \in Seq(Int) /\ t \in Seq(Int) /\ Len(s) = m /\ Len(t) = p
    BY <1>3, <1>4
  <2> QED BY <2>1, JoinedOf
<1> HIDE DEF w
<1>7. ASSUME NEW i \in 1..m + p PROVE w[i] = u[i]
  <2>1. CASE i <= m
    BY <1>3, <1>5, <1>6, <2>1
  <2>2. CASE i > m
    <3> DEFINE j == i - m
    <3>1. j \in 1..p /\ i = m + j /\ ~(i <= m)
      BY <2>2
    <3>2. w[i] = t[j]
      BY <1>6, <3>1
    <3>3. t[j] = Right(m + j, g)
      BY <1>4, <3>1
    <3> QED BY <1>5, <3>1, <3>2, <3>3
  <2> QED BY <2>1, <2>2
<1>8. w = u
  BY <1>5, <1>6, <1>7
<1> QED BY <1>5, <1>8 DEF s, t, u, w, FirstFrames, NextFrames

\* A call of a thread on its backend: it gets somewhere, or everything is drained.
LEMMA CallIs ==
  ASSUME Rates, NEW t, ThreadInv(t), t.at \in {"process", "drain"}, conversion.frames \in Nat
  PROVE  LET done == IF t.at = "process" THEN Processed(t.backend, ChunkLeft(t), ScratchFrames)
                     ELSE DrainedBy(t.backend, ScratchFrames)
             m == Len(t.output)
         IN \E c \in Nat, p \in Nat : \E drained :
              /\ done = [backend |-> Backend(t.offset + c, m + p, drained), consumed |-> c, produced |-> p]
              /\ t.offset + c <= conversion.frames
              /\ IF t.at = "process"
                 THEN c + p > 0 /\ m <= ReadyOf(t.offset) /\ m + p <= ReadyOf(t.offset + c)
                 ELSE /\ c = 0 /\ m + p <= RoundedDuration(t.offset)
                      /\ p = 0 => m = RoundedDuration(t.offset)
<1> DEFINE f == t.offset
           m == Len(t.output)
           d == t.backend.drained
           room == ScratchFrames
<1>1. /\ f \in 0..conversion.frames /\ m \in Nat /\ t.backend = Backend(f, m, d)
      /\ t.at = "process" => f < conversion.frames /\ m <= ReadyOf(f)
      /\ t.at = "drain" => f = conversion.frames /\ m <= RoundedDuration(f)
  BY DEF ThreadInv
<1>2. room \in Nat \ {0}
  BY ScratchIs
<1>3. CASE t.at = "process"
  <2>1. PICK n \in 1..conversion.frames - t.offset : ChunkLeft(t) = [i \in 1..n |-> t.offset + i]
    BY <1>1, <1>3, ChunkIs
  <2> DEFINE c == Taking(f, m, n, room)
             p == Making(f, m, n, room)
             piece == ChunkLeft(t)
  <2> HIDE DEF f, m, d, room, piece
  <2>2. piece = [i \in 1..n |-> f + i] /\ n \in Nat /\ n > 0 /\ f + n <= conversion.frames /\ f \in Nat
    BY <1>1, <2>1 DEF f, piece
  <2>3. c \in 0..n /\ p \in 0..room /\ m + p <= ReadyOf(f + c) /\ c + p > 0
    <3>1. m \in Nat /\ m <= ReadyOf(f) /\ room \in Nat /\ room > 0
      BY <1>1, <1>2, <1>3
    <3>2. /\ c \in 0..n /\ p \in 0..room /\ m + p <= ReadyOf(f + c)
          /\ n > 0 /\ room > 0 => c + p > 0
      BY <2>2, <3>1, TakingIs
    <3> HIDE DEF c, p
    <3> QED BY <2>2, <3>1, <3>2
  <2>4. Processed(Backend(f, m, d), piece, room) =
          [backend |-> Backend(f + c, m + p, d), consumed |-> c, produced |-> p]
    <3>1. m \in Nat /\ m <= ReadyOf(f) /\ room \in Nat
      BY <1>1, <1>2, <1>3
    <3> QED BY <2>2, <3>1, ProcessedIs
  <2> HIDE DEF c, p
  <2>5. c \in Nat /\ p \in Nat /\ f + c <= conversion.frames
    BY <1>1, <1>2, <2>2, <2>3
  <2> QED BY <1>1, <1>3, <2>3, <2>4, <2>5 DEF f, m, d, room, piece
<1>4. CASE t.at = "drain"
  <2> DEFINE p == Draining(f, m, room)
  <2> HIDE DEF f, m, d, room
  <2>1. f \in Nat /\ m \in Nat /\ room \in Nat /\ m <= RoundedDuration(f)
    BY <1>1, <1>2, <1>4
  <2>2. DrainedBy(Backend(f, m, d), room) = [backend |-> Backend(f, m + p, TRUE), consumed |-> 0, produced |-> p]
    BY <2>1, DrainedIs
  <2>3. p \in 0..room /\ m + p <= RoundedDuration(f) /\ (p < room => m + p = RoundedDuration(f))
    BY <2>1, DrainedIs
  <2> HIDE DEF p
  <2>4. p \in Nat /\ (p = 0 => m = RoundedDuration(f)) /\ f + 0 = f /\ f <= conversion.frames
    BY <1>1, <1>2, <1>4, <2>1, <2>3
  <2>5. DrainedBy(Backend(f, m, d), room) =
          [backend |-> Backend(f + 0, m + p, TRUE), consumed |-> 0, produced |-> p]
    BY <2>2, <2>4
  <2> DEFINE c == 0
             yes == TRUE
  <2>6. c \in Nat /\ c = 0
    OBVIOUS
  <2> HIDE DEF c
  <2>7. DrainedBy(Backend(f, m, d), room) =
          [backend |-> Backend(f + c, m + p, yes), consumed |-> c, produced |-> p]
    BY <2>5, <2>6
  <2> HIDE DEF yes
  <2>8. f + c <= conversion.frames
    BY <2>4, <2>6
  <2> QED BY <1>1, <1>4, <2>3, <2>4, <2>6, <2>7, <2>8 DEF f, m, d, room
<1> QED BY <1>3, <1>4

\* What is true of a thread stays true while other threads run.
LEMMA ThreadStays ==
  ASSUME Rates, NEW t, ThreadInv(t), broken => broken', conversion'.frames = conversion.frames,
         \A f : RoundedDuration(f)' = RoundedDuration(f), \A f : ReadyOf(f)' = ReadyOf(f),
         \A n, f : Right(n, f)' = Right(n, f)
  PROVE  ThreadInv(t)'
<1>1. [i \in 1..Len(t.output) |-> Right(i, t.offset)'] = [i \in 1..Len(t.output) |-> Right(i, t.offset)]
  OBVIOUS
<1> QED BY <1>1 DEF ThreadInv, Backend, Numbered

\* A call of a thread leaves it as it should be.
LEMMA ThreadGoesOn ==
  ASSUME Rates, NEW t, ThreadInv(t), t.at \in {"process", "drain"}, conversion.frames \in Nat
  PROVE  LET done == IF t.at = "process" THEN Processed(t.backend, ChunkLeft(t), ScratchFrames)
                     ELSE DrainedBy(t.backend, ScratchFrames)
             more == [i \in 1..done.produced |-> FrameOfBackend(done.backend, t.backend.made + i)]
             offset == t.offset + done.consumed
             stalled == t.at = "process" /\ done.consumed = 0 /\ done.produced = 0
             at == CASE stalled -> "failed"
                     [] t.at = "process" -> IF offset = conversion.frames THEN "drain" ELSE "process"
                     [] OTHER -> IF done.produced = 0 THEN "done" ELSE "drain"
         IN ThreadInv(AThread(done.backend, offset, t.output \o more, at))
<1> DEFINE done == IF t.at = "process" THEN Processed(t.backend, ChunkLeft(t), ScratchFrames)
                   ELSE DrainedBy(t.backend, ScratchFrames)
           more == [i \in 1..done.produced |-> FrameOfBackend(done.backend, t.backend.made + i)]
           offset == t.offset + done.consumed
           stalled == t.at = "process" /\ done.consumed = 0 /\ done.produced = 0
           at == CASE stalled -> "failed"
                   [] t.at = "process" -> IF offset = conversion.frames THEN "drain" ELSE "process"
                   [] OTHER -> IF done.produced = 0 THEN "done" ELSE "drain"
           f == t.offset
           m == Len(t.output)
           next == AThread(done.backend, offset, t.output \o more, at)
<1>1. PICK c \in Nat, p \in Nat : \E drained :
        /\ done = [backend |-> Backend(f + c, m + p, drained), consumed |-> c, produced |-> p]
        /\ f + c <= conversion.frames
        /\ IF t.at = "process"
           THEN c + p > 0 /\ m <= ReadyOf(f) /\ m + p <= ReadyOf(f + c)
           ELSE /\ c = 0 /\ m + p <= RoundedDuration(f)
                /\ p = 0 => m = RoundedDuration(f)
  BY CallIs
<1>2. PICK drained :
        /\ done = [backend |-> Backend(f + c, m + p, drained), consumed |-> c, produced |-> p]
        /\ f + c <= conversion.frames
        /\ IF t.at = "process"
           THEN c + p > 0 /\ m <= ReadyOf(f) /\ m + p <= ReadyOf(f + c)
           ELSE /\ c = 0 /\ m + p <= RoundedDuration(f)
                /\ p = 0 => m = RoundedDuration(f)
  BY <1>1
<1>3. /\ f \in Nat /\ m \in Nat /\ t.backend.made = m
      /\ t.output = [i \in 1..m |-> Right(i, f)]
      /\ t.at = "drain" => f = conversion.frames
  <2>1. /\ f \in 0..conversion.frames /\ m \in Nat /\ t.backend = Backend(f, m, t.backend.drained)
        /\ t.output = [i \in 1..m |-> Right(i, f)]
        /\ t.at = "drain" => f = conversion.frames
    BY DEF ThreadInv
  <2>2. Backend(f, m, t.backend.drained).made = m
    BY DEF Backend
  <2> QED BY <2>1, <2>2
<1> HIDE DEF done
<1>4. /\ done.consumed = c /\ done.produced = p
      /\ done.backend = Backend(f + c, m + p, drained) /\ done.backend.drained = drained
  <2>1. done.consumed = c /\ done.produced = p /\ done.backend = Backend(f + c, m + p, drained)
    BY <1>2
  <2>2. Backend(f + c, m + p, drained).drained = drained
    BY DEF Backend
  <2> QED BY <2>1, <2>2
<1>5. more = [i \in 1..p |-> Right(m + i, f + c)]
  <2>1. ASSUME NEW i \in 1..p
        PROVE  FrameOfBackend(done.backend, t.backend.made + i) = Right(m + i, f + c)
    <3> DEFINE n == m + i
               g == f + c
               k == m + p
    <3>1. n \in Nat \ {0} /\ g \in Nat
      BY <1>3
    <3> HIDE DEF n, g, k
    <3>2. FrameOfBackend(Backend(g, k, drained), n) = Right(n, g)
      BY <3>1, FrameIs
    <3> QED BY <1>3, <1>4, <3>2 DEF n, g, k
  <2> QED BY <1>4, <2>1
<1> HIDE DEF more, f, m
<1>6. /\ t.output \o more = [i \in 1..m + p |-> Right(i, f + c)]
      /\ Len(t.output \o more) = m + p
  <2> DEFINE g == f + c
  <2>1. g \in Nat /\ f <= g /\ (f = g \/ m <= ReadyOf(f))
    BY <1>2, <1>3
  <2> HIDE DEF g
  <2>2. /\ FirstFrames(m, f) \o NextFrames(m, p, g) = FirstFrames(m + p, g)
        /\ Len(FirstFrames(m + p, g)) = m + p
    <3>1. m \in Nat /\ f \in Nat
      BY <1>3
    <3> QED BY <2>1, <3>1, OutputJoined
  <2>3. t.output = FirstFrames(m, f) /\ more = NextFrames(m, p, g)
    BY <1>3, <1>5 DEF g, FirstFrames, NextFrames
  <2> QED BY <2>2, <2>3 DEF g, FirstFrames
<1>7. offset = f + c
  BY <1>4 DEF f
<1>8. /\ t.at = "process" => /\ c + p > 0
                            /\ at = IF f + c = conversion.frames THEN "drain" ELSE "process"
      /\ t.at = "drain" => at = IF p = 0 THEN "done" ELSE "drain"
  <2>1. ~stalled
    BY <1>2, <1>4
  <2> HIDE DEF stalled, offset
  <2> QED BY <1>2, <1>4, <1>7, <2>1
<1> DEFINE channelOutput == t.output \o more
<1>9. /\ next.backend = done.backend /\ next.offset = offset /\ next.output = channelOutput /\ next.at = at
      /\ next = [backend |-> next.backend, offset |-> next.offset, output |-> next.output, at |-> next.at]
  <2> HIDE DEF at, offset, channelOutput
  <2> QED BY DEF AThread, channelOutput
<1> HIDE DEF next, at, offset, channelOutput
<1>10. /\ next.offset = f + c /\ Len(next.output) = m + p
       /\ next.output = [i \in 1..Len(next.output) |-> Right(i, next.offset)]
       /\ next.backend = Backend(next.offset, Len(next.output), next.backend.drained)
       /\ next.offset \in 0..conversion.frames /\ Len(next.output) \in Nat
  BY <1>2, <1>3, <1>4, <1>6, <1>7, <1>9 DEF channelOutput
<1>11. \/ next.at = "process" /\ next.offset < conversion.frames /\ Len(next.output) <= ReadyOf(next.offset)
       \/ /\ next.at \in {"drain", "done"} /\ next.offset = conversion.frames
          /\ Len(next.output) <= RoundedDuration(next.offset)
          /\ next.at = "done" => Len(next.output) = RoundedDuration(next.offset)
  <2>1. CASE t.at = "process"
    <3> DEFINE g == f + c
    <3>1. g \in Nat /\ g <= conversion.frames /\ m + p <= ReadyOf(g)
      BY <1>2, <1>3, <2>1
    <3>2. ReadyOf(g) <= RoundedDuration(g) /\ ReadyOf(g) \in Nat /\ RoundedDuration(g) \in Nat
      <4> HIDE DEF g
      <4> QED BY <3>1, ReadyAre, DurationIs
    <3> QED BY <1>3, <1>8, <1>9, <1>10, <2>1, <3>1, <3>2
  <2>2. CASE t.at = "drain"
    <3>1. f + c = f /\ f = conversion.frames /\ m + p <= RoundedDuration(f) /\ (p = 0 => m + p = RoundedDuration(f))
      BY <1>2, <1>3, <2>2
    <3> QED BY <1>8, <1>9, <1>10, <2>2, <3>1
  <2> QED BY <2>1, <2>2
<1>12. ThreadInv(next)
  BY <1>9, <1>10, <1>11 DEF ThreadInv
<1> QED BY <1>12 DEF next, at, stalled, offset, more, done, f, m

\* A thread's step, or its failure.
LEMMA ThreadStepped ==
  ASSUME TypedInv, ConversionInv, NEW ch \in DOMAIN conversion.threads, ThreadStep(ch),
         Layout' = Layout, Backends' = Backends, resampler'.layout = resampler.layout
  PROVE  ConversionInv' /\ (broken => broken')
<1> DEFINE t == conversion.threads[ch]
           done == IF t.at = "process" THEN Processed(t.backend, ChunkLeft(t), ScratchFrames)
                   ELSE DrainedBy(t.backend, ScratchFrames)
           more == [i \in 1..done.produced |-> FrameOfBackend(done.backend, t.backend.made + i)]
           offset == t.offset + done.consumed
           stalled == t.at = "process" /\ done.consumed = 0 /\ done.produced = 0
           at == CASE stalled -> "failed"
                   [] t.at = "process" -> IF offset = conversion.frames THEN "drain" ELSE "process"
                   [] OTHER -> IF done.produced = 0 THEN "done" ELSE "drain"
           next == [backend |-> done.backend, offset |-> offset, output |-> t.output \o more, at |-> at]
<1>1. /\ conversion.answer = "running" /\ t.at \in {"process", "drain"}
      /\ \/ conversion' = [conversion EXCEPT !.threads[ch] = next] /\ UNCHANGED broken
         \/ conversion' = [conversion EXCEPT !.threads[ch].at = "failed"] /\ broken' = TRUE
  BY DEF ThreadStep
<1>2. /\ Rates /\ \A f : RoundedDuration(f)' = RoundedDuration(f)
      /\ \A f : ReadyOf(f)' = ReadyOf(f)
      /\ \A n, f : Right(n, f)' = Right(n, f)
  BY LayoutIs, SameLayout
<1>3. /\ conversion = AConversion(conversion.threads, conversion.frames, conversion.answer, conversion.made)
      /\ conversion.frames \in Nat
      /\ conversion.threads = [c \in 1..Layout.channels |-> conversion.threads[c]]
      /\ \A c \in 1..Layout.channels : ThreadInv(conversion.threads[c])
  <2>1. conversion.answer = "running"
    BY <1>1
  <2>2. conversion # NoConversion /\ conversion.answer # "ok" /\ conversion.answer # "error"
    BY <2>1 DEF NoConversion
  <2> QED BY <2>2 DEF ConversionInv, AConversion
<1>4. ch \in 1..Layout.channels /\ ThreadInv(t)
  BY <1>3
<1> HIDE DEF t
<1>5. ThreadInv(next)
  BY <1>1, <1>2, <1>3, <1>4, ThreadGoesOn DEF AThread
<1>6. PICK x :
        /\ conversion' = AConversion([conversion.threads EXCEPT ![ch] = x], conversion.frames, "running",
                                     conversion.made)
        /\ ThreadInv(x) \/ (x = [t EXCEPT !.at = "failed"] /\ broken')
        /\ broken => broken'
  <2> HIDE DEF next
  <2> DEFINE threads == conversion.threads
             frames == conversion.frames
             answer == conversion.answer
             joined == conversion.made
  <2>0. conversion = AConversion(threads, frames, answer, joined) /\ answer = "running" /\ t = threads[ch]
    BY <1>1, <1>3 DEF t
  <2> HIDE DEF threads, frames, answer, joined
  <2>1. CASE conversion' = [conversion EXCEPT !.threads[ch] = next] /\ UNCHANGED broken
    <3>1. conversion' = Stepping(conversion, ch, next)
      BY <2>1 DEF Stepping
    <3>2. Stepping(conversion, ch, next) = AConversion(WithThread(threads, ch, next), frames, answer, joined)
      BY <2>0, SteppingIs
    <3>3. /\ conversion' = AConversion([threads EXCEPT ![ch] = next], frames, "running", joined)
          /\ ThreadInv(next) /\ (broken => broken')
      BY <1>5, <2>0, <2>1, <3>1, <3>2 DEF WithThread
    <3> QED BY <3>3 DEF threads, frames, joined
  <2>2. CASE conversion' = [conversion EXCEPT !.threads[ch].at = "failed"] /\ broken' = TRUE
    <3>1. conversion' = Failing(conversion, ch, "failed")
      BY <2>2 DEF Failing
    <3> DEFINE x == ThreadAt(threads[ch], "failed")
    <3>2. Failing(conversion, ch, "failed") = AConversion(WithThread(threads, ch, x), frames, answer, joined)
      BY <2>0, SteppingIs
    <3>3. x = [t EXCEPT !.at = "failed"]
      BY <2>0 DEF ThreadAt
    <3> HIDE DEF x
    <3>4. conversion' = AConversion([threads EXCEPT ![ch] = x], frames, "running", joined) /\ broken'
      BY <2>0, <2>2, <3>1, <3>2 DEF WithThread
    <3> QED BY <3>3, <3>4 DEF threads, frames, joined
  <2> QED BY <1>1, <2>1, <2>2
<1>7. /\ conversion' = [threads |-> conversion'.threads, frames |-> conversion'.frames,
                        answer |-> conversion'.answer, made |-> conversion'.made]
      /\ conversion'.frames = conversion.frames /\ conversion'.answer = "running"
      /\ conversion'.threads = [conversion.threads EXCEPT ![ch] = x]
  BY <1>6 DEF AConversion
<1>8. ThreadInv(x)'
  <2>1. CASE ThreadInv(x)
    BY <1>2, <1>6, <1>7, <2>1, ThreadStays
  <2>2. CASE x = [t EXCEPT !.at = "failed"] /\ broken'
    <3>1. t = AThread(t.backend, t.offset, t.output, t.at)
      BY <1>4 DEF ThreadInv, AThread
    <3> DEFINE b == t.backend
               o == t.offset
               u == t.output
               a == t.at
               failed == "failed"
    <3>2. t = AThread(b, o, u, a)
      BY <3>1
    <3> HIDE DEF b, o, u, a, failed
    <3>3. [t EXCEPT !.at = failed] = AThread(b, o, u, failed)
      BY <3>2 DEF AThread
    <3>4. x = AThread(b, o, u, failed)
      BY <2>2, <3>3 DEF failed
    <3>5. x.at = failed /\ x = [backend |-> x.backend, offset |-> x.offset, output |-> x.output, at |-> x.at]
      BY <3>4 DEF AThread
    <3> QED BY <2>2, <3>5 DEF ThreadInv, failed
  <2> QED BY <1>6, <2>1, <2>2
<1>9. /\ conversion'.threads = [c \in 1..Layout.channels |-> conversion'.threads[c]]
      /\ \A c \in 1..Layout.channels : ThreadInv(conversion.threads[c])'
  <2>1. ASSUME NEW c \in 1..Layout.channels
        PROVE  conversion'.threads[c] = IF c = ch THEN x ELSE conversion.threads[c]
    BY <1>3, <1>4, <1>7
  <2>2. DOMAIN conversion.threads = 1..Layout.channels
    BY <1>3
  <2>3. conversion'.threads = [c \in 1..Layout.channels |-> conversion'.threads[c]]
    BY <1>7, <2>2
  <2>4. ASSUME NEW c \in 1..Layout.channels PROVE ThreadInv(conversion.threads[c])'
    <3>1. CASE c = ch
      BY <1>8, <2>1, <3>1
    <3>2. CASE c # ch
      <4>1. PICK s : s = conversion.threads[c]
        OBVIOUS
      <4>2. ThreadInv(s)
        BY <1>3, <4>1
      <4>3. broken => broken'
        BY <1>6
      <4>4. ThreadInv(s)'
        BY <1>2, <1>7, <4>2, <4>3, ThreadStays
      <4> QED BY <2>1, <3>2, <4>1, <4>4
    <3> QED BY <3>1, <3>2
  <2> QED BY <2>3, <2>4
<1> QED BY <1>3, <1>6, <1>7, <1>9 DEF ConversionInv

\* All threads are joined.
LEMMA ThreadsJoined ==
  ASSUME TypedInv, ConversionInv, JoinThreads, UNCHANGED broken,
         Layout' = Layout, Backends' = Backends, resampler'.layout = resampler.layout
  PROVE  ConversionInv'
<1> DEFINE threads == conversion.threads
           frames == conversion.frames
           answer == conversion.answer
           joined == conversion.made
           outs == [ch \in DOMAIN threads |-> threads[ch].output]
           result == [i \in 1..Len(outs[1]) |->
                      [ch \in DOMAIN outs |-> IF i <= Len(outs[ch]) THEN outs[ch][i] ELSE 0]]
<1>1. /\ answer = "running"
      /\ \A ch \in DOMAIN threads : threads[ch].at \in {"done", "failed"}
      /\ conversion' = IF \E ch \in DOMAIN threads : threads[ch].at = "failed"
                       THEN [conversion EXCEPT !.answer = "error"]
                       ELSE [conversion EXCEPT !.answer = "ok", !.made = result]
  BY DEF JoinThreads
<1>2. /\ Rates /\ Layout.channels \in Nat \ {0}
      /\ \A f : RoundedDuration(f)' = RoundedDuration(f)
      /\ \A n, f : Right(n, f)' = Right(n, f)
  BY LayoutIs, SameLayout
<1>3. /\ conversion = AConversion(threads, frames, answer, joined)
      /\ frames \in Nat /\ threads = [c \in 1..Layout.channels |-> threads[c]]
      /\ \A c \in 1..Layout.channels : ThreadInv(threads[c])
  <2>1. conversion.answer = "running"
    BY <1>1
  <2>2. conversion # NoConversion /\ conversion.answer # "ok" /\ conversion.answer # "error"
    BY <2>1 DEF NoConversion
  <2> QED BY <2>2 DEF ConversionInv, AConversion
<1>4. DOMAIN threads = 1..Layout.channels
  BY <1>3
<1>5. CASE \E ch \in DOMAIN threads : threads[ch].at = "failed"
  <2>1. broken
    <3>1. PICK ch \in 1..Layout.channels : threads[ch].at = "failed"
      BY <1>4, <1>5
    <3>2. ThreadInv(threads[ch])
      BY <1>3
    <3> HIDE DEF threads
    <3> QED BY <3>1, <3>2 DEF ThreadInv
  <2>2. conversion' = Answering(conversion, "error")
    BY <1>1, <1>5 DEF Answering
  <2>3. conversion' = AConversion(threads, frames, "error", joined)
    <3> HIDE DEF threads, frames, answer, joined
    <3>1. conversion = AConversion(threads, frames, answer, joined)
      BY <1>3
    <3>2. Answering(conversion, "error") = AConversion(threads, frames, "error", joined)
      BY <3>1, JoiningIs
    <3> QED BY <2>2, <3>2
  <2>4. /\ conversion' = [threads |-> conversion'.threads, frames |-> conversion'.frames,
                          answer |-> conversion'.answer, made |-> conversion'.made]
        /\ conversion'.frames = frames /\ conversion'.answer = "error"
    <3> HIDE DEF threads, frames, joined
    <3> QED BY <2>3 DEF AConversion
  <2> HIDE DEF frames
  <2> QED BY <1>3, <2>1, <2>4 DEF ConversionInv
<1>6. CASE ~\E ch \in DOMAIN threads : threads[ch].at = "failed"
  <2>1. ASSUME NEW ch \in 1..Layout.channels
        PROVE  /\ outs[ch] = [i \in 1..RoundedDuration(frames) |-> Right(i, frames)]
               /\ Len(outs[ch]) = RoundedDuration(frames)
    <3>1. threads[ch].at = "done"
      BY <1>1, <1>4, <1>6
    <3>2. ThreadInv(threads[ch])
      BY <1>3
    <3>3. /\ threads[ch].output = [i \in 1..RoundedDuration(frames) |-> Right(i, frames)]
          /\ Len(threads[ch].output) = RoundedDuration(frames)
      <4> DEFINE t == threads[ch]
      <4>1. t.at = "done" /\ ThreadInv(t)
        BY <3>1, <3>2
      <4> HIDE DEF t
      <4>2. /\ t.output = [i \in 1..Len(t.output) |-> Right(i, t.offset)]
            /\ t.offset = frames /\ Len(t.output) = RoundedDuration(t.offset)
        BY <4>1 DEF ThreadInv
      <4>3. /\ t.output = [i \in 1..RoundedDuration(frames) |-> Right(i, frames)]
            /\ Len(t.output) = RoundedDuration(frames)
        <5> HIDE DEF frames
        <5> QED BY <4>2
      <4> QED BY <4>3 DEF t
    <3> QED BY <1>4, <3>3
  <2>2. DOMAIN outs = 1..Layout.channels
    BY <1>4
  <2>3. result = Whole(frames)
    <3> HIDE DEF outs, frames
    <3>1. RoundedDuration(frames) \in Nat /\ 1 \in 1..Layout.channels
      BY <1>2, <1>3, DurationIs
    <3>2. ASSUME NEW i \in 1..RoundedDuration(frames)
          PROVE  [ch \in DOMAIN outs |-> IF i <= Len(outs[ch]) THEN outs[ch][i] ELSE 0] =
                   [ch \in 1..Layout.channels |-> Right(i, frames)]
      <4>1. \A ch \in 1..Layout.channels : (IF i <= Len(outs[ch]) THEN outs[ch][i] ELSE 0) = Right(i, frames)
        <5> TAKE ch \in 1..Layout.channels
        <5> DEFINE one == outs[ch]
        <5>1. one = [k \in 1..RoundedDuration(frames) |-> Right(k, frames)] /\ Len(one) = RoundedDuration(frames)
          BY <2>1
        <5> HIDE DEF one
        <5>2. i <= Len(one) /\ one[i] = Right(i, frames)
          BY <3>1, <5>1
        <5> QED BY <5>2 DEF one
      <4> QED BY <2>2, <4>1
    <3>3. Len(outs[1]) = RoundedDuration(frames)
      BY <2>1, <3>1
    <3> QED BY <3>2, <3>3 DEF Whole
  <2>4. conversion' = Joining(conversion, "ok", result)
    <3> HIDE DEF result
    <3> QED BY <1>1, <1>6 DEF Joining
  <2>5. conversion' = AConversion(threads, frames, "ok", Whole(frames))
    <3> HIDE DEF threads, frames, answer, joined, result
    <3>1. Joining(conversion, "ok", result) = AConversion(threads, frames, "ok", result)
      <4>1. conversion = AConversion(threads, frames, answer, joined)
        BY <1>3
      <4> QED BY <4>1, JoiningIs
    <3> QED BY <2>3, <2>4, <3>1
  <2>6. /\ conversion' = [threads |-> conversion'.threads, frames |-> conversion'.frames,
                          answer |-> conversion'.answer, made |-> conversion'.made]
        /\ conversion'.frames = frames /\ conversion'.answer = "ok" /\ conversion'.made = Whole(frames)
    <3> HIDE DEF threads, frames
    <3> QED BY <2>5 DEF AConversion
  <2>7. Whole(frames) = [n \in 1..RoundedDuration(conversion'.frames) |->
                           [ch \in 1..Layout.channels |-> Right(n, conversion'.frames)]]
    <3> HIDE DEF frames
    <3> QED BY <2>6 DEF Whole
  <2>8. Whole(conversion.frames)' = [n \in 1..RoundedDuration(conversion'.frames) |->
                           [ch \in 1..Layout.channels |-> Right(n, conversion'.frames)]]
    <3>1. \A n : Right(n, conversion.frames)' = Right(n, conversion'.frames)
      BY <1>2
    <3>2. RoundedDuration(conversion.frames)' = RoundedDuration(conversion'.frames)
      BY <1>2
    <3> QED BY <3>1, <3>2 DEF Whole
  <2> HIDE DEF frames
  <2> QED BY <1>3, <2>6, <2>7, <2>8 DEF ConversionInv
<1> QED BY <1>5, <1>6

\* A step of a conversion.
LEMMA ConversionStepped ==
  ASSUME ResamplerInv, ConversionNext
  PROVE  ResamplerInv'
<1>1. TypedInv /\ ConversionInv
  BY DEF ResamplerInv
<1>2. /\ UNCHANGED <<resampler, backends, outputs, round, delivered, taken, returned>>
      /\ \/ (ResampleParallel \/ JoinThreads) /\ UNCHANGED broken
         \/ \E ch \in DOMAIN conversion.threads : ThreadStep(ch)
  BY DEF ConversionNext
<1>3. Layout' = Layout /\ Backends' = Backends /\ resampler'.layout = resampler.layout
  BY <1>2 DEF Layout, Backends
<1>4. ConversionInv' /\ (broken => broken')
  <2>1. CASE ResampleParallel /\ UNCHANGED broken
    BY <1>1, <1>3, <2>1, ConversionBegins
  <2>2. CASE JoinThreads /\ UNCHANGED broken
    BY <1>1, <1>3, <2>2, ThreadsJoined
  <2>3. CASE \E ch \in DOMAIN conversion.threads : ThreadStep(ch)
    BY <1>1, <1>3, <2>3, ThreadStepped
  <2> QED BY <1>2, <2>1, <2>2, <2>3
<1>5. TypedInv' /\ (~broken' => StreamInv')
  BY <1>2, <1>4, StreamRests
<1> QED BY <1>4, <1>5 DEF ResamplerInv

\* Nothing happens.
LEMMA ResamplerRests ==
  ASSUME ResamplerInv, UNCHANGED resamplerVars
  PROVE  ResamplerInv'
<1>1. /\ UNCHANGED <<resampler, backends, outputs, round, delivered, taken, returned>>
      /\ UNCHANGED <<broken, conversion>>
  BY DEF resamplerVars
<1>2. /\ TypedInv' /\ Layout' = Layout /\ Backends' = Backends /\ resampler'.layout = resampler.layout
      /\ (~broken' => StreamInv')
  BY <1>1, StreamRests
<1>3. /\ \A f : RoundedDuration(f)' = RoundedDuration(f)
      /\ \A f : ReadyOf(f)' = ReadyOf(f)
      /\ \A n, f : Right(n, f)' = Right(n, f)
      /\ TypedInv /\ ConversionInv
  BY <1>2, SameLayout DEF ResamplerInv
<1>4. ConversionInv'
  <2>1. Rates
    BY <1>3, LayoutIs
  <2>2. Whole(conversion.frames)' = Whole(conversion.frames)
    BY <1>1, <1>2, <1>3 DEF Whole
  <2>3. ASSUME NEW ch \in 1..Layout.channels, ThreadInv(conversion.threads[ch])
        PROVE  ThreadInv(conversion.threads[ch])'
    <3>1. PICK s : s = conversion.threads[ch]
      OBVIOUS
    <3>2. ThreadInv(s)
      BY <2>3, <3>1
    <3>3. (broken => broken') /\ conversion'.frames = conversion.frames
      BY <1>1
    <3>4. ThreadInv(s)'
      BY <1>3, <2>1, <3>2, <3>3, ThreadStays
    <3>5. conversion'.threads[ch] = s
      BY <1>1, <3>1
    <3> QED BY <3>4, <3>5
  <2> QED BY <1>1, <1>2, <1>3, <2>2, <2>3 DEF ConversionInv
<1> QED BY <1>2, <1>4 DEF ResamplerInv

\* As long as no backend has failed since the last reset, however calls and rounds cut
\* a stream and however the threads of a conversion run, the frames that come out are
\* the same in all channels, each made of the one input frame at its time, and no call
\* fails.  A reset after a failure starts clean; before it nothing is claimed.
THEOREM ChannelsInStep == ResamplerSpec => []ChannelsStayTogether
<1>1. ResamplerInit => ResamplerInv
  BY ResamplerStarts
<1>2. ResamplerInv /\ [ResamplerNext]_resamplerVars => ResamplerInv'
  <2> SUFFICES ASSUME ResamplerInv, [ResamplerNext]_resamplerVars PROVE ResamplerInv'
    OBVIOUS
  <2>1. ASSUME conversion = NoConversion, UNCHANGED conversion,
               \/ ResamplerProcess \/ ResamplerFinish \/ ChannelTurn \/ ProcessRound \/ FinishRound
               \/ ResamplerReset
        PROVE  ResamplerInv'
    BY <2>1, ProcessCalled, FinishCalled, TurnTaken, ProcessRoundEnded, FinishRoundEnded, ResetDone
  <2>2. CASE ConversionNext
    BY <2>2, ConversionStepped
  <2>3. CASE UNCHANGED resamplerVars
    BY <2>3, ResamplerRests
  <2> QED BY <2>1, <2>2, <2>3 DEF ResamplerNext
<1>3. ResamplerInv => ChannelsStayTogether
  <2> SUFFICES ASSUME ResamplerInv PROVE ChannelsStayTogether
    OBVIOUS
  <2>1. TypedInv /\ ConversionInv /\ Backends = 1..Count /\ Rates
    BY LayoutIs DEF ResamplerInv
  <2>2. conversion.answer = "error" => broken
    <3>1. NoConversion.answer = "none"
      BY DEF NoConversion
    <3> QED BY <2>1, <3>1 DEF ConversionInv
  <2>3. conversion.answer = "ok" =>
          conversion.made = [n \in 1..RoundedDuration(conversion.frames) |->
                               [ch \in 1..Layout.channels |->
                                  IF SourceOf(n) <= conversion.frames THEN SourceOf(n) ELSE 0]]
    <3>1. NoConversion.answer = "none"
      BY DEF NoConversion
    <3>2. conversion.answer = "ok" => conversion.made = Whole(conversion.frames)
      BY <2>1, <3>1 DEF ConversionInv
    <3> QED BY <3>2 DEF Whole, Right
  <2>4. ASSUME ~broken
        PROVE  /\ \A n \in 1..Len(delivered) :
                    delivered[n] = AllAlike(IF SourceOf(n) <= taken THEN SourceOf(n) ELSE 0)
               /\ returned # "error"
               /\ returned = "finished" => Len(delivered) = RoundedDuration(taken)
               /\ \A b \in Backends : round.op = "none" => Len(backends[b].fed) = taken \/ SameRate
    <3>1. StreamInv
      BY <2>4 DEF ResamplerInv
    <3>2. ASSUME NEW n \in 1..Len(delivered)
          PROVE  delivered[n] = AllAlike(IF SourceOf(n) <= taken THEN SourceOf(n) ELSE 0)
      <4>1. delivered = More(0, Len(delivered), taken) /\ Len(delivered) \in Nat
        BY <3>1 DEF StreamInv
      <4> DEFINE d == Len(delivered)
      <4>2. d \in Nat /\ n \in 1..d /\ 0 + n = n
        BY <4>1
      <4> HIDE DEF d
      <4>3. More(0, d, taken)[n] = AllAlike(Right(0 + n, taken))
        BY <4>2 DEF More
      <4>4. delivered[n] = AllAlike(Right(n, taken))
        BY <4>1, <4>2, <4>3 DEF d
      <4> QED BY <4>4 DEF Right
    <3>3. ASSUME NEW b \in Backends, round.op = "none", ~SameRate
          PROVE  Len(backends[b].fed) = taken
      <4>1. backends[b] = Backend(FedNow, MadeNow, backends[b].drained) /\ FedNow = taken /\ taken \in Nat
        BY <2>1, <3>1, <3>3 DEF StreamInv, BackendInv, Ahead, FedNow
      <4>2. Backend(FedNow, MadeNow, backends[b].drained).fed = Numbered(FedNow)
        BY DEF Backend
      <4>3. Len(Numbered(taken)) = taken
        BY <4>1 DEF Numbered
      <4> QED BY <4>1, <4>2, <4>3
    <3> QED BY <3>1, <3>2, <3>3 DEF StreamInv
  <2> QED BY <2>2, <2>3, <2>4 DEF ChannelsStayTogether
<1> QED BY <1>1, <1>2, <1>3, PTL DEF ResamplerSpec

-----------------------------------------------------------------------------
(* The sinc interpolator.                                                  *)

\* The place of output frame n on the grid of filter rows, the window of its j-th point
\* and its row; the input frame at a position when a frames were accepted.
PlaceIn(c, n) == c.to * 2 * c.length - (c.length - 1) * c.to + (Skip(c) + n + 1) * c.from
CellIn(c, n) == (PlaceIn(c, n) * c.phases) \div c.to
FirstIn(c, n) == IF c.points = 4 THEN CellIn(c, n) - 1 ELSE CellIn(c, n)
Due(c, n, j) == (FirstIn(c, n) + j - 1) \div c.phases
RowIn(c, n, j) == (FirstIn(c, n) + j - 1) % c.phases
FrameIn(c, a, p) == IF p - 2 * c.length + 1 \in 1..a THEN p - 2 * c.length + 1 ELSE 0

\* A clock that stands at output frame n: only the sum of its two parts counts.
Productive(c) == (SincBlock - (c.length + 1)) * c.to
ClockAt(c, clock, n) ==
  /\ clock = [index |-> clock.index, base |-> clock.base, remaining |-> clock.remaining]
  /\ clock.index \in Int /\ clock.base \in Int
  /\ clock.index + clock.base * c.to = ClockStart(c) + (Skip(c) + n) * c.from
  /\ clock.index <= Productive(c) /\ clock.remaining = CountFrom(c, clock.index)

\* A ring of that size, written up to a position: what it holds of the last Size positions.
Holds(c, history, written, accepted) ==
  /\ history \in [0..2 * Capacity(c) - 1 -> Nat]
  /\ \A p \in written - Capacity(c)..written - 1 :
       /\ history[p % Capacity(c)] = FrameIn(c, accepted, p)
       /\ history[(p % Capacity(c)) + Capacity(c)] = FrameIn(c, accepted, p)

StreamParts ==
  {"config", "history", "written", "accepted", "emitted", "clock", "ending", "failed"}

StreamIs(s) ==
  LET c == s.config
  IN /\ c \in SincConfigs
     /\ DOMAIN s = StreamParts /\ s.failed = FALSE
     /\ {s.written, s.accepted, s.emitted} \subseteq Nat /\ s.ending \in BOOLEAN
     /\ ClockAt(c, s.clock, s.emitted)
     /\ Holds(c, s.history, s.written, s.accepted)
     /\ s.written >= 2 * c.length + s.accepted
     /\ ~s.ending => s.written = 2 * c.length + s.accepted
     /\ s.written <= Due(c, s.emitted, 1) + Capacity(c)
     /\ s.emitted <= SincOutputFrames(c, s.accepted)

SincCallState ==
  /\ sincCall = [op |-> sincCall.op, left |-> sincCall.left, room |-> sincCall.room]
  /\ sincCall.op \in {"none", "process", "finish"} /\ {sincCall.left, sincCall.room} \subseteq Nat
  /\ sincCall.op = "process" => ~sinc.ending
  /\ sincCall.op = "finish" => sinc.ending
  /\ sinc.ending /\ sincCall.op = "none" /\ sincCall.room > 0 =>
       sinc.emitted = SincOutputFrames(sinc.config, sinc.accepted)

ShownState ==
  LET c == sinc.config
      n == shown.number
  IN n # -1 =>
       /\ n \in Nat
       /\ \A j \in 1..c.points :
            /\ shown.points[j] = RowIn(c, n, j)
            /\ \A i \in 1..c.length :
                 shown.windows[j][i] = FrameIn(c, sinc.accepted, Due(c, n, j) + i - 1)
       /\ ~sinc.ending => Due(c, n, c.points) + c.length <= sinc.written

SincInv == StreamIs(sinc) /\ SincCallState /\ ShownState

SincSpec == SincInit /\ [][SincNext]_sincVars

\* Of two multiples the greater has the greater factor.
LEMMA FactorLess ==
  ASSUME NEW d \in Nat \ {0}, NEW x \in Int, NEW y \in Int, d * x < d * y
  PROVE  x < y
<1> SUFFICES ASSUME y <= x PROVE d * y <= d * x
  <2>1. d * x \in Int /\ d * y \in Int
    OBVIOUS
  <2> QED BY <2>1
<1>1. x - y \in Nat /\ d * (x - y) \in Nat
  OBVIOUS
<1>2. d * x = d * y + d * (x - y)
  OBVIOUS
<1>3. d * x \in Int /\ d * y \in Int
  OBVIOUS
<1> QED BY <1>1, <1>2, <1>3

\* The quotient of an integer, rounded down, and its remainder.
LEMMA Floor ==
  ASSUME NEW a \in Int, NEW d \in Nat \ {0}
  PROVE  /\ a \div d \in Int /\ a % d \in 0..d - 1
         /\ a = d * (a \div d) + (a % d)
OBVIOUS

LEMMA FloorIs ==
  ASSUME NEW d \in Nat \ {0}, NEW q \in Int, NEW r \in 0..d - 1, NEW a \in Int, a = d * q + r
  PROVE  a \div d = q /\ a % d = r
<1> DEFINE k == a \div d
           m == a % d
<1>1. k \in Int /\ m \in 0..d - 1 /\ a = d * k + m
  BY Floor
<1> HIDE DEF k, m
<1>2. d * k \in Int /\ d * q \in Int /\ d * (k + 1) = d * k + d /\ d * (q + 1) = d * q + d
  BY <1>1
<1>3. d * k < d * (q + 1) /\ d * q < d * (k + 1)
  BY <1>1, <1>2
<1>4. k < q + 1
  BY <1>1, <1>3, FactorLess
<1>5. q < k + 1
  BY <1>1, <1>3, FactorLess
<1>6. k = q
  BY <1>1, <1>4, <1>5
<1>7. m = r
  BY <1>1, <1>2, <1>6
<1> QED BY <1>6, <1>7 DEF k, m

\* What is known of a configuration.
LEMMA ConfigIs ==
  ASSUME NEW c \in SincConfigs
  PROVE  /\ c.from \in Nat \ {0} /\ c.to \in Nat \ {0} /\ c.length \in Nat \ {0}
         /\ c.phases \in Nat \ {0} /\ c.phases >= 2 /\ c.points \in {2, 4}
         /\ SincBlock \in Nat /\ SincBlock > 2 * c.length /\ Skip(c) \in Nat
         /\ Capacity(c) \in Nat \ {0} /\ Capacity(c) >= 2 * c.length + 8
<1>1. /\ c.from \in Nat \ {0} /\ c.to \in Nat \ {0} /\ c.length \in Nat \ {0}
      /\ c.phases \in Nat \ {0} /\ c.phases >= 2 /\ c.points \in {2, 4} /\ c.length <= 256
      /\ SincBlock \in Nat /\ SincBlock > 2 * c.length
  BY SincAssumption
<1>2. Skip(c) \in Nat
  <2> DEFINE a == c.length * c.to
             d == 2 * c.from
  <2>1. a \in Nat /\ d \in Nat \ {0}
    BY <1>1
  <2> HIDE DEF a, d
  <2>2. a \div d \in Nat
    BY <2>1, Quotient
  <2> QED BY <2>2 DEF Skip, a, d
<1>3. Capacity(c) \in Nat \ {0} /\ Capacity(c) >= 2 * c.length + 8
  <2> DEFINE n == 2 * c.length + 8
             S == {16, 32, 64, 128, 256, 512, 1024}
  <2>1. n \in 10..520
    BY <1>1
  <2> HIDE DEF n
  <2>2. \E p \in S : p >= n /\ p < 2 * n
    BY <2>1
  <2>3. PowerAtLeast(n) \in S /\ PowerAtLeast(n) >= n
    <3> HIDE DEF S
    <3>1. PowerAtLeast(n) = CHOOSE p \in S : p >= n /\ p < 2 * n
      BY DEF PowerAtLeast, S
    <3> QED BY <2>2, <3>1
  <2>4. PowerAtLeast(n) \in Nat \ {0}
    BY <2>3
  <2>5. Capacity(c) = PowerAtLeast(n)
    BY DEF Capacity, n
  <2> QED BY <2>3, <2>4, <2>5 DEF n
<1> QED BY <1>1, <1>2, <1>3

\* The place of a frame: after the silence and its predecessors.
LEMMA PlaceIs ==
  ASSUME NEW c \in SincConfigs, NEW n \in Nat
  PROVE  /\ PlaceIn(c, n) \in Nat /\ PlaceIn(c, n) >= (c.length + 1) * c.to + (n + 1) * c.from
         /\ PlaceIn(c, n + 1) = PlaceIn(c, n) + c.from
         /\ PlaceIn(c, n) = ClockStart(c) + (Skip(c) + n) * c.from + c.from + 2 * c.length * c.to
<1> DEFINE l == c.length * c.to
           s == Skip(c) * c.from
           m == n * c.from
<1>1. /\ c.from \in Nat \ {0} /\ c.to \in Nat \ {0} /\ c.length \in Nat \ {0} /\ Skip(c) \in Nat
  BY ConfigIs
<1>2. l \in Nat /\ s \in Nat /\ m \in Nat
  BY <1>1
<1>3. /\ c.to * 2 * c.length = 2 * l /\ 2 * c.length * c.to = 2 * l /\ (c.length - 1) * c.to = l - c.to
      /\ (c.length + 1) * c.to = l + c.to
  BY <1>1
<1>4. /\ (n + 1) * c.from = m + c.from
      /\ (Skip(c) + n) * c.from = s + m /\ (Skip(c) + n + 1) * c.from = s + m + c.from
      /\ (Skip(c) + (n + 1) + 1) * c.from = s + m + c.from + c.from
  <2> DEFINE k == Skip(c)
             f == c.from
  <2>1. k \in Nat /\ f \in Nat
    BY <1>1
  <2> HIDE DEF k, f
  <2>2. (n + 1) * f = n * f + f
    BY <2>1
  <2>3. (k + n) * f = k * f + n * f /\ (k + n + 1) * f = k * f + n * f + f
    BY <2>1
  <2>4. (k + (n + 1) + 1) * f = k * f + n * f + f + f
    BY <2>1
  <2> QED BY <2>2, <2>3, <2>4 DEF k, f
<1> HIDE DEF l, s, m
<1>5. PlaceIn(c, n) = l + c.to + s + m + c.from
  BY <1>1, <1>2, <1>3, <1>4 DEF PlaceIn
<1>6. PlaceIn(c, n + 1) = l + c.to + s + m + c.from + c.from
  BY <1>1, <1>2, <1>3, <1>4 DEF PlaceIn
<1>7. ClockStart(c) = c.to - l
  BY <1>1, <1>2, <1>3 DEF ClockStart
<1> QED BY <1>1, <1>2, <1>3, <1>4, <1>5, <1>6, <1>7

\* A frame whose place is m input frames on has its windows no earlier than the frame before.
LEMMA DueFrom ==
  ASSUME NEW c \in SincConfigs, NEW n \in Nat, NEW m \in Nat, m * c.to <= PlaceIn(c, n)
  PROVE  m * c.phases <= CellIn(c, n) /\ m - 1 <= Due(c, n, 1)
<1> DEFINE t == PlaceIn(c, n)
           k == c.phases
           to == c.to
           cell == CellIn(c, n)
<1>1. t \in Nat /\ k \in Nat \ {0} /\ to \in Nat \ {0} /\ m * to <= t /\ k >= 2
  BY ConfigIs, PlaceIs
<1>2. cell = (t * k) \div to
  BY DEF CellIn
<1> HIDE DEF t, k, to, cell
<1>3. t * k \in Nat /\ (m * to) * k <= t * k /\ (m * to) * k = to * (m * k) /\ m * k \in Nat
  <2>1. t * k \in Nat /\ m * to \in Nat /\ m * k \in Nat /\ (m * to) * k = to * (m * k)
    BY <1>1
  <2>2. (m * to) * k <= t * k
    <3> DEFINE a == m * to
               b == t - a
    <3>1. a \in Nat /\ b \in Nat /\ t = a + b
      BY <1>1, <2>1
    <3> HIDE DEF a, b
    <3>2. t * k = a * k + b * k /\ a * k \in Nat /\ b * k \in Nat
      BY <1>1, <3>1
    <3>3. a * k <= t * k
      BY <3>2
    <3> QED BY <3>3 DEF a
  <2> QED BY <2>1, <2>2
<1>4. cell \in Nat /\ to * cell <= t * k /\ t * k < to * cell + to
  BY <1>1, <1>2, <1>3, Quotient
<1>5. m * k <= cell
  <2> DEFINE x == m * k
  <2>1. x \in Nat /\ to * x <= t * k
    BY <1>3
  <2> HIDE DEF x
  <2>2. to * (cell + 1) = to * cell + to /\ to * x \in Nat /\ to * cell \in Nat /\ t * k \in Nat
    BY <1>1, <1>3, <1>4, <2>1
  <2>3. to * x < to * (cell + 1)
    BY <1>1, <1>4, <2>1, <2>2
  <2>4. x < cell + 1
    BY <1>1, <1>4, <2>1, <2>3, FactorLess
  <2>5. x <= cell
    BY <1>4, <2>1, <2>4
  <2> QED BY <2>5 DEF x
<1> DEFINE f == FirstIn(c, n)
           d == Due(c, n, 1)
<1>6. f \in Int /\ f >= cell - 1
  BY <1>4 DEF FirstIn, cell
<1>7. d = f \div k
  BY <1>6 DEF Due, k
<1> HIDE DEF f, d
<1>8. d \in Int /\ f = k * d + (f % k) /\ f % k \in 0..k - 1
  BY <1>1, <1>6, <1>7, Floor
<1>9. m - 1 <= d
  <2> DEFINE r == f % k
             x == m * k
  <2>1. x \in Nat /\ x - 1 <= f /\ k * d \in Int /\ k * (d + 1) = k * d + k /\ k * (m - 1) = x - k
    BY <1>1, <1>3, <1>4, <1>5, <1>6, <1>8
  <2> HIDE DEF r, x
  <2>2. k * (m - 1) < k * (d + 1)
    BY <1>1, <1>6, <1>8, <2>1
  <2>3. m - 1 < d + 1
    BY <1>1, <1>8, <2>2, FactorLess
  <2> QED BY <1>8, <2>3
<1> QED BY <1>5, <1>9 DEF k, cell, d

\* Rounded down, quotients grow with the dividend.
LEMMA FloorGrows ==
  ASSUME NEW d \in Nat \ {0}, NEW a \in Int, NEW b \in Int, a <= b
  PROVE  a \div d <= b \div d
<1> DEFINE x == a \div d
           y == b \div d
           r == a % d
           s == b % d
<1>1. /\ x \in Int /\ y \in Int /\ r \in 0..d - 1 /\ s \in 0..d - 1
      /\ a = d * x + r /\ b = d * y + s
  BY Floor
<1> HIDE DEF x, y, r, s
<1>2. d * x \in Int /\ d * y \in Int /\ d * (y + 1) = d * y + d
  BY <1>1
<1>3. d * x < d * (y + 1)
  BY <1>1, <1>2
<1>4. x < y + 1
  BY <1>1, <1>3, FactorLess
<1>5. x <= y
  BY <1>1, <1>4
<1> QED BY <1>5 DEF x, y

\* The windows of a frame's points: at most two frames apart, in order, after the start.
LEMMA DueIs ==
  ASSUME NEW c \in SincConfigs, NEW n \in Nat, NEW j \in 1..c.points
  PROVE  /\ FirstIn(c, n) \in Nat /\ Due(c, n, 1) \in Nat /\ Due(c, n, j) \in Nat
         /\ Due(c, n, 1) <= Due(c, n, j) /\ Due(c, n, j) <= Due(c, n, c.points)
         /\ Due(c, n, c.points) \in Nat /\ Due(c, n, c.points) <= Due(c, n, 1) + 2
         /\ c.length <= Due(c, n, 1)
<1> DEFINE f == FirstIn(c, n)
           k == c.phases
           p == c.points
           m == c.length + 1
<1>1. /\ k \in Nat \ {0} /\ k >= 2 /\ p \in {2, 4} /\ j \in 1..p /\ m \in Nat /\ m >= 2
      /\ c.length \in Nat /\ m - 1 = c.length
  BY ConfigIs
<1>2. m * c.to <= PlaceIn(c, n)
  <2> DEFINE a == m * c.to
             b == (n + 1) * c.from
  <2>1. a \in Nat /\ b \in Nat
    BY ConfigIs
  <2>2. PlaceIn(c, n) >= a + b /\ PlaceIn(c, n) \in Nat
    BY PlaceIs
  <2> HIDE DEF a, b
  <2>3. a <= PlaceIn(c, n)
    BY <2>1, <2>2
  <2> QED BY <2>3 DEF a
<1>3. m * k <= CellIn(c, n) /\ c.length <= Due(c, n, 1)
  <2> HIDE DEF m
  <2> QED BY <1>1, <1>2, DueFrom DEF k
<1>4. CellIn(c, n) \in Nat
  <2> DEFINE a == PlaceIn(c, n) * c.phases
             d == c.to
  <2>1. a \in Nat /\ d \in Nat \ {0}
    <3>1. PlaceIn(c, n) \in Nat /\ c.phases \in Nat /\ c.to \in Nat \ {0}
      BY PlaceIs, ConfigIs
    <3> QED BY <3>1
  <2>2. CellIn(c, n) = a \div d
    BY DEF CellIn
  <2> HIDE DEF a, d
  <2> QED BY <2>1, <2>2, Quotient
<1>5. f \in Nat
  <2> DEFINE x == m * k
  <2>1. x \in Nat /\ x >= 1
    <3> HIDE DEF m, k
    <3> QED BY <1>1
  <2>2. x <= CellIn(c, n)
    BY <1>3
  <2> HIDE DEF x
  <2> QED BY <1>4, <2>1, <2>2 DEF FirstIn
<1> DEFINE D(i) == Due(c, n, i)
<1> HIDE DEF f, k, m
<1>6. \A i \in 1..p : D(i) = (f + i - 1) \div k
  BY DEF Due, f, k
<1> HIDE DEF D, p
<1>7. p \in Int /\ 1 \in 1..p /\ p \in 1..p /\ j \in Int
  BY <1>1
<1>8. \A i \in 1..p : D(i) \in Nat
  <2> TAKE i \in 1..p
  <2> DEFINE a == f + i - 1
  <2>1. a \in Nat
    BY <1>5
  <2>2. D(i) = a \div k
    BY <1>6
  <2> HIDE DEF a
  <2> QED BY <1>1, <2>1, <2>2, Quotient
<1>9. \A i \in 1..p : \A l \in 1..p : i <= l => D(i) <= D(l)
  <2> SUFFICES ASSUME NEW i \in 1..p, NEW l \in 1..p, i <= l PROVE D(i) <= D(l)
    OBVIOUS
  <2> DEFINE a == f + i - 1
             b == f + l - 1
  <2>1. a \in Int /\ b \in Int /\ a <= b
    BY <1>1, <1>5
  <2>2. D(i) = a \div k /\ D(l) = b \div k
    BY <1>6
  <2> HIDE DEF a, b
  <2> QED BY <1>1, <2>1, <2>2, FloorGrows
<1>10. D(p) <= D(1) + 2
  <2> DEFINE a == f + p - 1
             b == f + 2 * k
             q == f \div k
             r == f % k
  <2>1. a \in Int /\ b \in Int /\ a <= b
    BY <1>1, <1>5
  <2>2. D(p) = a \div k /\ D(1) = q
    <3>1. D(1) = (f + 1 - 1) \div k /\ f + 1 - 1 = f
      BY <1>5, <1>6, <1>7
    <3> QED BY <1>6, <1>7, <3>1
  <2>3. q \in Int /\ r \in 0..k - 1 /\ f = k * q + r
    <3>1. f \in Int /\ k \in Nat \ {0}
      BY <1>1, <1>5
    <3> QED BY <3>1, Floor
  <2> HIDE DEF q, r
  <2>4. b = k * (q + 2) + r
    BY <1>1, <1>5, <2>3
  <2> HIDE DEF a, b
  <2>5. b \div k = q + 2
    <3> DEFINE e == q + 2
    <3>1. k \in Nat \ {0} /\ e \in Int /\ r \in 0..k - 1 /\ b \in Int /\ b = k * e + r
      BY <1>1, <2>1, <2>3, <2>4
    <3> HIDE DEF e
    <3>2. b \div k = e
      BY <3>1, FloorIs
    <3> QED BY <3>2 DEF e
  <2>6. a \div k <= b \div k
    BY <1>1, <2>1, FloorGrows
  <2> QED BY <2>2, <2>5, <2>6
<1>11. D(1) \in Nat /\ D(j) \in Nat /\ D(p) \in Nat /\ D(1) <= D(j) /\ D(j) <= D(p)
  <2>1. 1 <= j /\ j <= p
    BY <1>1
  <2> QED BY <1>1, <1>7, <1>8, <1>9, <2>1
<1> QED BY <1>3, <1>5, <1>10, <1>11 DEF D, f, p

\* The windows of the next frame are no earlier.
LEMMA DueGrows ==
  ASSUME NEW c \in SincConfigs, NEW n \in Nat
  PROVE  Due(c, n, 1) <= Due(c, n + 1, 1)
<1> DEFINE a == PlaceIn(c, n) * c.phases
           b == PlaceIn(c, n + 1) * c.phases
           d == c.to
<1>1. a \in Int /\ b \in Int /\ a <= b /\ d \in Nat \ {0}
  <2> DEFINE x == PlaceIn(c, n)
             y == c.from
             k == c.phases
  <2>1. x \in Nat /\ y \in Nat /\ k \in Nat /\ PlaceIn(c, n + 1) = x + y /\ c.to \in Nat \ {0}
    BY PlaceIs, ConfigIs
  <2> HIDE DEF x, y, k
  <2>2. x * k \in Nat /\ y * k \in Nat /\ (x + y) * k = x * k + y * k
    BY <2>1
  <2>3. x * k <= (x + y) * k /\ (x + y) * k \in Nat
    BY <2>2
  <2> QED BY <2>1, <2>2, <2>3 DEF x, k
<1>2. CellIn(c, n) = a \div d /\ CellIn(c, n + 1) = b \div d
  BY DEF CellIn
<1> HIDE DEF a, b, d
<1>3. CellIn(c, n) <= CellIn(c, n + 1) /\ CellIn(c, n) \in Int /\ CellIn(c, n + 1) \in Int
  BY <1>1, <1>2, Floor, FloorGrows
<1> DEFINE f == FirstIn(c, n)
           g == FirstIn(c, n + 1)
<1>4. f \in Int /\ g \in Int /\ f <= g
  BY <1>3 DEF FirstIn
<1>5. Due(c, n, 1) = f \div c.phases /\ Due(c, n + 1, 1) = g \div c.phases
  <2> HIDE DEF f, g
  <2>1. f + 1 - 1 = f /\ g + 1 - 1 = g
    BY <1>4
  <2> QED BY <2>1 DEF Due, f, g
<1>6. c.phases \in Nat \ {0}
  BY ConfigIs
<1> HIDE DEF f, g
<1> QED BY <1>4, <1>5, <1>6, FloorGrows

\* A row next to the bank's is one of a window next to it.
Shifting(k, r) == IF r < 0 THEN -1 ELSE IF r >= k THEN 1 ELSE 0

LEMMA RowShifts ==
  ASSUME NEW k \in Nat \ {0}, NEW o \in Int, NEW r \in -k..2 * k - 1, NEW a \in Int, a = k * o + r
  PROVE  a \div k = o + Shifting(k, r) /\ a % k = (r + k) % k
<1> DEFINE s == Shifting(k, r)
           t == IF r < 0 THEN r + k ELSE IF r >= k THEN r - k ELSE r
           q == o + s
           u == 1 + s
           b == r + k
<1>1. s \in Int /\ t \in 0..k - 1 /\ r = k * s + t
  BY DEF Shifting
<1> HIDE DEF s, t
<1>2. q \in Int /\ a = k * q + t
  <2>1. k * (o + s) = k * o + k * s
    BY <1>1
  <2> QED BY <1>1, <2>1
<1>3. u \in Int /\ b \in Int /\ b = k * u + t
  <2>1. k * (1 + s) = k + k * s
    BY <1>1
  <2> QED BY <1>1, <2>1
<1> HIDE DEF q, u, b
<1>4. a \div k = q /\ a % k = t
  BY <1>1, <1>2, FloorIs
<1>5. b % k = t
  BY <1>1, <1>3, FloorIs
<1> QED BY <1>4, <1>5 DEF q, b, s

\* A frame is in the same cell whichever virtual block its clock counts in.
LEMMA CellIs ==
  ASSUME NEW c \in SincConfigs, NEW n \in Nat, NEW clock, ClockAt(c, clock, n)
  PROVE  LET next == clock.index + c.from
             origin == clock.base + 2 * c.length + (next \div c.to)
             cell == ((next % c.to) * c.phases) \div c.to
         IN /\ origin \in Int /\ cell \in 0..c.phases - 1
            /\ CellIn(c, n) = c.phases * origin + cell
<1> DEFINE next == clock.index + c.from
           to == c.to
           k == c.phases
           base == clock.base + 2 * c.length
           q == next \div to
           e == next % to
           origin == base + q
           f == e * k
           cell == f \div to
           rest == f % to
           place == PlaceIn(c, n)
<1>1. /\ to \in Nat \ {0} /\ k \in Nat \ {0} /\ next \in Int /\ base \in Int /\ place \in Nat
  BY ConfigIs, PlaceIs DEF ClockAt
<1>2. place = next + base * to
  <2> DEFINE x == clock.index
             y == clock.base
             z == c.length
             w == (Skip(c) + n) * c.from
  <2>1. x \in Int /\ y \in Int /\ z \in Int /\ c.from \in Int /\ w \in Int /\ ClockStart(c) \in Int
    <3>1. Skip(c) \in Nat /\ c.from \in Nat /\ c.length \in Nat /\ c.to \in Nat
      BY ConfigIs
    <3>2. ClockStart(c) \in Int
      BY <3>1 DEF ClockStart
    <3> QED BY <3>1, <3>2 DEF ClockAt
  <2>2. x + y * to = ClockStart(c) + w
    BY DEF ClockAt
  <2>3. place = ClockStart(c) + w + c.from + 2 * z * to
    BY PlaceIs
  <2> HIDE DEF x, y, z, w, place, to
  <2>4. y * to \in Int /\ 2 * z * to \in Int /\ (y + 2 * z) * to = y * to + 2 * z * to
    BY <1>1, <2>1
  <2>5. place = x + c.from + (y + 2 * z) * to
    BY <2>1, <2>2, <2>3, <2>4
  <2> QED BY <2>5 DEF x, y, z
<1> HIDE DEF next, to, k, base, place
<1>3. q \in Int /\ e \in 0..to - 1 /\ next = to * q + e
  BY <1>1, Floor
<1> HIDE DEF q, e
<1>4. origin \in Int /\ place = to * origin + e
  <2>1. (base + q) * to = base * to + q * to /\ base * to \in Int /\ to * q = q * to
        /\ to * (base + q) = (base + q) * to /\ to * q \in Int
    BY <1>1, <1>3
  <2> QED BY <1>1, <1>2, <1>3, <2>1
<1> HIDE DEF origin
<1>5. f \in Nat /\ f <= (to - 1) * k /\ (to - 1) * k = to * k - k /\ to * k \in Nat
  <2>1. e \in Nat /\ to - 1 - e \in Nat
    BY <1>1, <1>3
  <2>2. e * k \in Nat /\ (to - 1 - e) * k \in Nat
    BY <1>1, <2>1
  <2>3. (to - 1) * k = e * k + (to - 1 - e) * k /\ (to - 1) * k = to * k - k /\ to * k \in Nat
    BY <1>1, <2>1
  <2>4. e * k <= (to - 1) * k
    BY <2>2, <2>3
  <2> QED BY <2>2, <2>3, <2>4
<1> HIDE DEF f
<1>6. cell \in Nat /\ rest \in 0..to - 1 /\ f = to * cell + rest
  <2>1. f \in Int
    BY <1>5
  <2>2. cell \in Nat
    BY <1>1, <1>5, Quotient
  <2> QED BY <1>1, <2>1, <2>2, Floor
<1> HIDE DEF cell, rest
<1>7. cell \in 0..k - 1
  <2>1. to * cell \in Nat /\ to * cell < to * k
    BY <1>1, <1>5, <1>6
  <2>2. cell < k
    BY <1>1, <1>6, <2>1, FactorLess
  <2> QED BY <1>1, <1>6, <2>2
<1>8. CellIn(c, n) = k * origin + cell
  <2> DEFINE a == place * k
             d == k * origin + cell
  <2>1. a \in Int /\ d \in Int /\ a = to * d + rest
    <3>1. place * k = (to * origin) * k + e * k /\ (to * origin) * k = to * (k * origin)
      BY <1>1, <1>3, <1>4
    <3>2. to * (k * origin + cell) = to * (k * origin) + to * cell
      BY <1>1, <1>4, <1>6
    <3>3. k * origin \in Int /\ to * (k * origin) \in Int /\ to * cell \in Int /\ place * k \in Int
      BY <1>1, <1>4, <1>6
    <3> QED BY <1>6, <3>1, <3>2, <3>3 DEF f
  <2>2. CellIn(c, n) = a \div to
    BY DEF CellIn, place, k, to
  <2> HIDE DEF a, d
  <2>3. a \div to = d
    BY <1>1, <1>6, <2>1, FloorIs
  <2> QED BY <2>2, <2>3 DEF d
<1> QED BY <1>4, <1>7, <1>8 DEF next, to, k, base, q, e, origin, f, cell

\* A clock at frame n names the frame's windows and rows.
LEMMA PointsAre ==
  ASSUME NEW c \in SincConfigs, NEW n \in Nat, NEW clock, ClockAt(c, clock, n)
  PROVE  PointsOf(c, clock) = [j \in 1..c.points |-> [start |-> Due(c, n, j), row |-> RowIn(c, n, j)]]
<1> DEFINE next == clock.index + c.from
           k == c.phases
           origin == clock.base + 2 * c.length + (next \div c.to)
           cell == ((next % c.to) * k) \div c.to
           first == IF c.points = 4 THEN cell - 1 ELSE cell
<1>1. /\ origin \in Int /\ cell \in 0..k - 1 /\ CellIn(c, n) = k * origin + cell
      /\ k \in Nat \ {0} /\ k >= 2 /\ c.points \in {2, 4}
  BY CellIs, ConfigIs
<1>2. PointsOf(c, clock) =
        [j \in 1..c.points |-> [start |-> origin + Shifting(k, first + j - 1),
                                row |-> (first + j - 1 + k) % k]]
  BY DEF PointsOf, Shifting
<1> HIDE DEF origin, cell, k
<1>3. ASSUME NEW j \in 1..c.points
      PROVE  /\ Due(c, n, j) = origin + Shifting(k, first + j - 1)
             /\ RowIn(c, n, j) = (first + j - 1 + k) % k
  <2> DEFINE r == first + j - 1
             a == FirstIn(c, n) + j - 1
  <2>1. r \in -k..2 * k - 1
    BY <1>1
  <2>2. a \in Int /\ a = k * origin + r
    <3>1. k * origin \in Int
      BY <1>1
    <3> QED BY <1>1, <3>1 DEF FirstIn
  <2>3. Due(c, n, j) = a \div k /\ RowIn(c, n, j) = a % k
    BY DEF Due, RowIn, k
  <2> HIDE DEF r, a
  <2>4. a \div k = origin + Shifting(k, r) /\ a % k = (r + k) % k
    BY <1>1, <2>1, <2>2, RowShifts
  <2> QED BY <2>3, <2>4 DEF r
<1> HIDE DEF first
<1> QED BY <1>2, <1>3

\* The frames left in a virtual block.
LEMMA CountIs ==
  ASSUME NEW c \in SincConfigs, NEW index \in Int, index <= Productive(c)
  PROVE  /\ Productive(c) \in Int /\ CountFrom(c, index) \in Nat
         /\ CountFrom(c, index) = (Productive(c) - index) \div c.from
<1> DEFINE v == Productive(c) - index
<1>1. c.from \in Nat \ {0} /\ Productive(c) \in Int
  <2>1. c.from \in Nat \ {0} /\ c.to \in Nat /\ c.length \in Nat /\ SincBlock \in Nat
    BY ConfigIs
  <2> QED BY <2>1 DEF Productive
<1>2. v \in Nat
  BY <1>1
<1>3. CountFrom(c, index) = NonNegative(v \div c.from)
  BY DEF CountFrom, Productive
<1> HIDE DEF v
<1>4. v \div c.from \in Nat
  BY <1>1, <1>2, Quotient
<1>5. CountFrom(c, index) = v \div c.from
  BY <1>3, <1>4 DEF NonNegative
<1> QED BY <1>1, <1>4, <1>5 DEF v

\* The next frame has one fewer after it.
LEMMA ClockAdvances ==
  ASSUME NEW c \in SincConfigs, NEW n \in Nat, NEW clock, ClockAt(c, clock, n), clock.remaining > 0
  PROVE  ClockAt(c, [index |-> clock.index + c.from, base |-> clock.base,
                     remaining |-> clock.remaining - 1], n + 1)
<1> DEFINE d == c.from
           index == clock.index
           v == Productive(c) - index
           k == clock.remaining
           r == v % d
<1>1. /\ d \in Nat \ {0} /\ index \in Int /\ index <= Productive(c) /\ Productive(c) \in Int
      /\ k \in Nat /\ k = v \div d
  BY CountIs, ConfigIs DEF ClockAt
<1>2. v \in Int /\ r \in 0..d - 1 /\ v = d * k + r
  <2>1. v \in Int
    BY <1>1
  <2> HIDE DEF v, d, k
  <2> QED BY <1>1, <2>1, Floor
<1>3. k > 0
  OBVIOUS
<1> DEFINE w == v - d
           l == k - 1
<1>4. w \in Nat /\ l \in Nat /\ w = d * l + r
  <2> HIDE DEF v, d, k, r
  <2>1. l \in Nat
    BY <1>1, <1>3
  <2>2. d * (k - 1) = d * k - d /\ d * k \in Int /\ d * l \in Nat
    BY <1>1, <2>1
  <2> QED BY <1>1, <1>2, <2>1, <2>2
<1>5. w \div d = l
  <2> HIDE DEF v, d, k, r, w, l
  <2>1. d \in Nat \ {0} /\ l \in Int /\ r \in 0..d - 1 /\ w \in Int /\ w = d * l + r
    BY <1>1, <1>2, <1>4
  <2> QED BY <2>1, FloorIs
<1> DEFINE next == index + d
<1>6. next \in Int /\ next <= Productive(c) /\ w = Productive(c) - next
  <2> HIDE DEF d, index, k
  <2> QED BY <1>1, <1>4
<1>7. CountFrom(c, next) = l
  <2> HIDE DEF next, w, l
  <2> QED BY <1>5, <1>6, CountIs DEF d
<1>8. next + clock.base * c.to = ClockStart(c) + (Skip(c) + (n + 1)) * c.from
  <2> DEFINE x == clock.base * c.to
             s == Skip(c)
  <2>1. x \in Int /\ s \in Nat /\ ClockStart(c) \in Int
    <3>1. c.to \in Nat /\ c.length \in Nat /\ s \in Nat
      BY ConfigIs
    <3> QED BY <3>1 DEF ClockAt, ClockStart
  <2>2. index + x = ClockStart(c) + (s + n) * d
    BY DEF ClockAt
  <2> HIDE DEF x, s, index, d, v, k, r
  <2>3. (s + (n + 1)) * d = (s + n) * d + d /\ (s + n) * d \in Int
    BY <1>1, <2>1
  <2>4. index + d + x = ClockStart(c) + (s + (n + 1)) * d
    BY <1>1, <2>1, <2>2, <2>3
  <2> QED BY <2>4 DEF x, s, index, d
<1> HIDE DEF next, l, k, d, index
<1> QED BY <1>6, <1>7, <1>8 DEF ClockAt, next, l, k, d, index

\* A clock that is prepared stands at the same frame, with that frame before it.
LEMMA ClockPrepared ==
  ASSUME NEW c \in SincConfigs, NEW n \in Nat, NEW clock, ClockAt(c, clock, n)
  PROVE  ClockAt(c, PreparedClock(c, clock), n) /\ PreparedClock(c, clock).remaining > 0
<1> DEFINE index == clock.index
           d == c.from
           to == c.to
           v == Productive(c) - index
<1>1. /\ d \in Nat \ {0} /\ to \in Nat \ {0} /\ index \in Int /\ clock.base \in Int
      /\ index <= Productive(c) /\ Productive(c) \in Int
      /\ clock.remaining \in Nat /\ SincBlock \in Nat \ {0}
  <2>1. d \in Nat \ {0} /\ to \in Nat \ {0} /\ SincBlock \in Nat /\ SincBlock > 2 * c.length /\ c.length \in Nat
    BY ConfigIs
  <2> QED BY <2>1, CountIs DEF ClockAt
<1>2. CASE clock.remaining # 0
  BY <1>1, <1>2 DEF PreparedClock
<1>3. CASE clock.remaining = 0
  <2> DEFINE At(b) == index - b * SincBlock * to
             good == {b \in 1..d : CountFrom(c, At(b)) > 0}
  <2>1. ASSUME NEW b \in Nat
        PROVE  At(b) \in Int /\ At(b) <= Productive(c) /\ CountFrom(c, At(b)) \in Nat
    <3> DEFINE x == b * SincBlock * to
    <3>1. x \in Nat
      BY <1>1
    <3> HIDE DEF x
    <3>2. index - x \in Int /\ index - x <= Productive(c)
      BY <1>1, <3>1
    <3> DEFINE y == index - x
    <3> HIDE DEF y
    <3>3. CountFrom(c, y) \in Nat
      BY <3>2, CountIs DEF y
    <3> QED BY <3>2, <3>3 DEF x, y
  <2>2. d \in good
    <3> DEFINE y == At(d)
               w == Productive(c) - y
               x == SincBlock * to
    <3>1. y \in Int /\ y <= Productive(c) /\ CountFrom(c, y) \in Nat
      BY <1>1, <2>1
    <3>2. x \in Nat \ {0} /\ y = index - d * x
      <4>1. x \in Nat \ {0}
        BY <1>1
      <4>2. d * SincBlock * to = d * (SincBlock * to)
        BY <1>1
      <4> QED BY <4>1, <4>2
    <3>3. d <= d * x /\ d * x \in Nat
      <4> HIDE DEF x, d
      <4>1. x - 1 \in Nat /\ d * (x - 1) \in Nat
        BY <1>1, <3>2
      <4>2. d * x = d * (x - 1) + d
        BY <1>1, <3>2
      <4> QED BY <1>1, <4>1, <4>2
    <3>4. w \in Nat /\ d <= w
      <4> HIDE DEF x, d, index, y
      <4> QED BY <1>1, <3>1, <3>2, <3>3
    <3>5. CountFrom(c, y) = w \div d
      <4> HIDE DEF y
      <4> QED BY <3>1, CountIs
    <3>6. CountFrom(c, y) > 0
      <4> DEFINE q == w \div d
      <4>1. q \in Nat /\ w < d * q + d
        <5> HIDE DEF w, d
        <5> QED BY <1>1, <3>4, Quotient
      <4> HIDE DEF q, w, d, y
      <4>2. q # 0
        <5> SUFFICES ASSUME q = 0 PROVE FALSE
          OBVIOUS
        <5>1. d * q = 0
          BY <1>1
        <5> QED BY <1>1, <3>4, <4>1, <5>1
      <4> QED BY <3>5, <4>1, <4>2 DEF q
    <3> QED BY <1>1, <3>6
  <2>3. good \subseteq Nat /\ good # {}
    BY <2>2
  <2>4. PICK b \in good : \A m \in good : b <= m
    <3> HIDE DEF good
    <3> QED BY <2>3, LeastNatural
  <2> DEFINE Chosen(m) == /\ CountFrom(c, At(m)) > 0
                          /\ \A l \in 1..m - 1 : CountFrom(c, At(l)) = 0
             blocks == BlocksAhead(c, index)
  <2>5. b \in 1..d /\ Chosen(b)
    <3>1. b \in 1..d /\ CountFrom(c, At(b)) > 0
      OBVIOUS
    <3>2. ASSUME NEW l \in 1..b - 1 PROVE CountFrom(c, At(l)) = 0
      <4>1. l \in 1..d /\ l \in Nat /\ ~(b <= l)
        BY <1>1, <3>1
      <4>2. l \notin good
        BY <2>4, <4>1
      <4>3. ~(CountFrom(c, At(l)) > 0)
        BY <4>1, <4>2
      <4>4. CountFrom(c, At(l)) \in Nat
        BY <2>1, <4>1
      <4> HIDE DEF At
      <4> QED BY <4>3, <4>4
    <3> QED BY <3>1, <3>2
  <2>6. blocks = CHOOSE m \in 1..d : Chosen(m)
    BY DEF BlocksAhead
  <2> HIDE DEF Chosen
  <2>7. blocks \in 1..d /\ Chosen(blocks)
    BY <2>5, <2>6
  <2>8. blocks \in Nat /\ CountFrom(c, At(blocks)) > 0
    BY <1>1, <2>7 DEF Chosen
  <2> HIDE DEF blocks
  <2>9. PreparedClock(c, clock) = [index |-> At(blocks), base |-> clock.base + blocks * SincBlock,
                                   remaining |-> CountFrom(c, At(blocks))]
    BY <1>3 DEF PreparedClock, blocks
  <2>10. At(blocks) + (clock.base + blocks * SincBlock) * to = index + clock.base * to
    <3> DEFINE x == blocks * SincBlock
               y == clock.base
    <3>1. x \in Nat /\ y \in Int
      BY <1>1, <2>8
    <3> HIDE DEF x, y, index, to
    <3>2. (y + x) * to = y * to + x * to /\ x * to \in Int /\ y * to \in Int
      BY <1>1, <3>1
    <3>3. index - x * to + (y + x) * to = index + y * to
      BY <1>1, <3>2
    <3> QED BY <3>3 DEF x, y
  <2>11. clock.base + blocks * SincBlock \in Int
    BY <1>1, <2>8
  <2>12. index + clock.base * to = ClockStart(c) + (Skip(c) + n) * c.from
    BY DEF ClockAt
  <2>13. At(blocks) \in Int /\ At(blocks) <= Productive(c)
    BY <2>1, <2>8
  <2> HIDE DEF At, index, to
  <2> QED BY <2>8, <2>9, <2>10, <2>11, <2>12, <2>13 DEF ClockAt, to
<1> QED BY <1>1, <1>2, <1>3

\* The clock of a new stream.
LEMMA ClockStarts ==
  ASSUME NEW c \in SincConfigs
  PROVE  ClockAt(c, InitialClock(c), 0)
<1> DEFINE s == Skip(c)
           d == c.from
           start == ClockStart(c)
           v == Productive(c) - start
           k == v \div d
           index == start + s * d
           l == c.length * c.to
<1>1. /\ c.from \in Nat \ {0} /\ c.to \in Nat \ {0} /\ c.length \in Nat \ {0} /\ s \in Nat
      /\ SincBlock \in Nat /\ SincBlock > 2 * c.length
  BY ConfigIs
<1>2. l \in Nat /\ start = c.to - l /\ start \in Int
  <2>1. (c.length - 1) * c.to = c.length * c.to - c.to
    BY <1>1
  <2>2. l \in Nat
    BY <1>1
  <2> QED BY <1>1, <2>1, <2>2 DEF ClockStart
<1>3. 2 * (s * d) <= l /\ s * d \in Nat
  <2> DEFINE e == 2 * d
  <2>1. e \in Nat \ {0}
    BY <1>1
  <2>2. s = l \div e
    BY DEF Skip
  <2> HIDE DEF s, l, d, e
  <2>3. e * s <= l
    BY <1>2, <2>1, <2>2, Quotient
  <2>4. e * s = 2 * (s * d) /\ s * d \in Nat
    BY <1>1 DEF e, d
  <2> QED BY <2>3, <2>4
<1>4. Productive(c) \in Int /\ Productive(c) >= l
  <2> DEFINE x == SincBlock - (c.length + 1)
  <2>1. x \in Int /\ x - c.length \in Nat
    BY <1>1
  <2>2. (x - c.length) * c.to \in Nat /\ x * c.to = (x - c.length) * c.to + l /\ x * c.to \in Int
    BY <1>1, <2>1
  <2>3. Productive(c) = x * c.to
    BY DEF Productive
  <2> HIDE DEF x, l
  <2> QED BY <1>2, <2>2, <2>3
<1>5. index \in Int /\ index <= Productive(c) /\ start <= Productive(c)
  <2> DEFINE x == s * d
  <2>1. x \in Nat /\ 2 * x <= l
    BY <1>3
  <2> HIDE DEF x, l, start
  <2>2. c.to <= l
    <3>1. (c.length - 1) * c.to \in Nat /\ l = (c.length - 1) * c.to + c.to
      BY <1>1 DEF l
    <3> QED BY <1>1, <3>1
  <2>3. start <= 0 /\ start + x <= l
    BY <1>1, <1>2, <2>1, <2>2
  <2> QED BY <1>1, <1>2, <1>4, <2>1, <2>3 DEF x
<1>6. CountFrom(c, start) = k /\ k \in Nat
  <2> HIDE DEF start
  <2> QED BY <1>2, <1>5, CountIs
<1> DEFINE w == Productive(c) - index
           r == v % d
           q == k - s
<1>7. w \div d = q
  <2> HIDE DEF s, start
  <2>1. v \in Int /\ d \in Nat \ {0}
    BY <1>1, <1>2, <1>4
  <2> HIDE DEF v
  <2>2. k \in Int /\ r \in 0..d - 1 /\ v = d * k + r
    BY <2>1, Floor
  <2> HIDE DEF k, r
  <2>3. q \in Int /\ w \in Int /\ w = v - s * d
    <3> DEFINE x == s * d
    <3>1. x \in Int /\ s \in Int /\ Productive(c) \in Int /\ start \in Int
      BY <1>1, <1>2, <1>3, <1>4
    <3>2. index = start + x /\ v = Productive(c) - start
      BY DEF v
    <3> HIDE DEF x, index
    <3>3. w \in Int /\ w = v - x
      BY <3>1, <3>2
    <3> QED BY <2>2, <3>1, <3>3 DEF x
  <2>4. d * (k - s) = d * k - s * d /\ d * k \in Int /\ s * d \in Int
    BY <1>1, <2>2
  <2>5. w = d * q + r
    BY <2>1, <2>2, <2>3, <2>4
  <2> HIDE DEF w, q
  <2> QED BY <2>1, <2>2, <2>3, <2>5, FloorIs
<1>8. CountFrom(c, index) = q
  <2> HIDE DEF index, q
  <2> QED BY <1>5, <1>7, CountIs
<1>9. InitialClock(c) = [index |-> index, base |-> 0, remaining |-> q]
  <2> HIDE DEF k
  <2> QED BY <1>6 DEF InitialClock
<1>10. index + 0 * c.to = start + (s + 0) * c.from
  <2> HIDE DEF s, start
  <2> QED BY <1>1, <1>2, <1>3
<1> HIDE DEF index, q
<1> QED BY <1>5, <1>8, <1>9, <1>10 DEF ClockAt

\* Writing the frames that follow keeps what the ring holds.
LEMMA RingWritten ==
  ASSUME NEW c \in SincConfigs, sinc.config = c, NEW w \in Nat, NEW a \in Nat, NEW b \in Nat,
         NEW n \in Nat, NEW frames \in [1..n -> Nat], Len(frames) = n,
         Holds(c, sinc.history, w, a),
         \A p \in w - Capacity(c)..w - 1 : FrameIn(c, b, p) = FrameIn(c, a, p),
         \A i \in 1..n : frames[i] = FrameIn(c, b, w + i - 1)
  PROVE  Holds(c, RingWith(w, frames), w + n, b)
<1> DEFINE s == Capacity(c)
           old == sinc.history
           ring == RingWith(w, frames)
           rest(i) == (w + n - 1 - i) % s
           newest(i) == n - 1 - rest(i)
<1>1. s \in Nat \ {0} /\ old \in [0..2 * s - 1 -> Nat]
  BY ConfigIs DEF Holds
<1>2. ring = [i \in 0..2 * s - 1 |-> IF newest(i) >= 0 THEN frames[newest(i) + 1] ELSE old[i]]
  BY DEF RingWith, Size
<1>3. \A p \in w - s..w - 1 : old[p % s] = FrameIn(c, a, p) /\ old[(p % s) + s] = FrameIn(c, a, p)
  BY DEF Holds
<1> HIDE DEF s, old, ring, rest
<1>4. ASSUME NEW i \in 0..2 * s - 1 PROVE rest(i) \in 0..s - 1
  <2> DEFINE x == w + n - 1 - i
  <2>1. x \in Int
    BY <1>1
  <2>2. rest(i) = x % s
    BY DEF rest
  <2> HIDE DEF x
  <2> QED BY <1>1, <2>1, <2>2, Floor
<1>5. ring \in [0..2 * s - 1 -> Nat]
  <2>1. ASSUME NEW i \in 0..2 * s - 1
        PROVE  (IF newest(i) >= 0 THEN frames[newest(i) + 1] ELSE old[i]) \in Nat
    <3> DEFINE r == rest(i)
    <3>3. r \in 0..s - 1
      BY <1>4
    <3> HIDE DEF r
    <3>4. r \in Nat
      BY <1>1, <3>3
    <3>1. newest(i) \in Int /\ newest(i) <= n - 1
      BY <3>4 DEF r
    <3> HIDE DEF newest
    <3>2. newest(i) >= 0 => newest(i) + 1 \in 1..n
      BY <3>1
    <3> QED BY <1>1, <3>2
  <2> HIDE DEF newest
  <2> QED BY <1>2, <2>1
<1>6. ASSUME NEW p \in w + n - s..w + n - 1, NEW i \in 0..2 * s - 1, NEW k \in Int, p = s * k + i,
             p < w => old[i] = FrameIn(c, a, p)
      PROVE  ring[i] = FrameIn(c, b, p)
  <2> DEFINE x == w + n - 1 - i
             r == w + n - 1 - p
  <2>1. s * k \in Int /\ r \in 0..s - 1 /\ x \in Int /\ x = s * k + r /\ p \in Int
    <3>1. s * k \in Int
      BY <1>1
    <3> DEFINE y == s * k
    <3> HIDE DEF y
    <3>2. y \in Int /\ p = y + i
      BY <1>6, <3>1 DEF y
    <3> QED BY <1>1, <3>2 DEF y
  <2>2. rest(i) = x % s
    BY DEF rest
  <2>3. x % s = r
    <3> HIDE DEF x, r
    <3> QED BY <1>1, <2>1, FloorIs
  <2>4. newest(i) = p - w
    BY <2>1, <2>2, <2>3
  <2> HIDE DEF newest, x, r
  <2>5. ring[i] = IF p - w >= 0 THEN frames[p - w + 1] ELSE old[i]
    BY <1>2, <2>4
  <2>6. CASE p >= w
    <3> DEFINE j == p - w + 1
    <3>1. j \in 1..n /\ w + j - 1 = p /\ p - w >= 0
      BY <1>1, <2>1, <2>6
    <3> HIDE DEF j
    <3>2. frames[j] = FrameIn(c, b, p)
      BY <3>1
    <3> QED BY <2>5, <3>1, <3>2 DEF j
  <2>7. CASE p < w
    <3>1. p \in w - s..w - 1 /\ ~(p - w >= 0)
      BY <1>1, <2>1, <2>7
    <3>2. FrameIn(c, b, p) = FrameIn(c, a, p)
      BY <3>1 DEF s
    <3> QED BY <1>6, <2>5, <2>7, <3>1, <3>2
  <2> QED BY <2>1, <2>6, <2>7
<1>7. ASSUME NEW p \in w + n - s..w + n - 1
      PROVE  ring[p % s] = FrameIn(c, b, p) /\ ring[(p % s) + s] = FrameIn(c, b, p)
  <2> DEFINE i == p % s
             k == p \div s
             j == i + s
             l == k - 1
  <2>1. p \in Int /\ (p < w => p \in w - s..w - 1)
    BY <1>1
  <2>2. k \in Int /\ i \in 0..s - 1 /\ p = s * k + i
    BY <1>1, <2>1, Floor
  <2>3. p < w => old[i] = FrameIn(c, a, p) /\ old[j] = FrameIn(c, a, p)
    BY <1>3, <2>1
  <2> HIDE DEF i, k
  <2>4. i \in 0..2 * s - 1 /\ j \in 0..2 * s - 1 /\ l \in Int
    BY <1>1, <2>2
  <2>5. p = s * l + j
    <3>1. s * (k - 1) = s * k - s /\ s * k \in Int
      BY <1>1, <2>2
    <3> QED BY <1>1, <2>2, <3>1
  <2> HIDE DEF j, l
  <2>6. ring[i] = FrameIn(c, b, p)
    BY <1>6, <2>2, <2>3, <2>4
  <2>7. ring[j] = FrameIn(c, b, p)
    BY <1>6, <2>3, <2>4, <2>5
  <2> QED BY <2>6, <2>7 DEF i, j
<1> DEFINE e == w + n
<1>8. ASSUME NEW p \in e - s..e - 1
      PROVE  ring[p % s] = FrameIn(c, b, p) /\ ring[(p % s) + s] = FrameIn(c, b, p)
  <2>1. p \in w + n - s..w + n - 1
    BY <1>1 DEF e
  <2> QED BY <1>7, <2>1
<1> HIDE DEF e, newest
<1>9. Holds(c, ring, e, b)
  BY <1>5, <1>8 DEF Holds, s
<1> QED BY <1>9 DEF ring, e

\* A ring of silence.
LEMMA RingCleared ==
  ASSUME NEW c \in SincConfigs, NEW w \in Int, NEW a \in Nat,
         \A p \in w - Capacity(c)..w - 1 : FrameIn(c, a, p) = 0
  PROVE  Holds(c, [i \in 0..2 * Capacity(c) - 1 |-> 0], w, a)
<1> DEFINE s == Capacity(c)
           ring == [i \in 0..2 * s - 1 |-> 0]
<1>1. s \in Nat \ {0}
  BY ConfigIs
<1> HIDE DEF s
<1>2. ring \in [0..2 * s - 1 -> Nat]
  OBVIOUS
<1>3. ASSUME NEW p \in w - s..w - 1
      PROVE  ring[p % s] = FrameIn(c, a, p) /\ ring[(p % s) + s] = FrameIn(c, a, p)
  <2> DEFINE i == p % s
  <2>1. i \in 0..s - 1
    <3>1. p \in Int
      BY <1>1
    <3> QED BY <1>1, <3>1, Floor
  <2> HIDE DEF i
  <2>2. i \in 0..2 * s - 1 /\ i + s \in 0..2 * s - 1
    BY <1>1, <2>1
  <2>3. ring[i] = 0 /\ ring[i + s] = 0
    BY <2>2
  <2>4. FrameIn(c, a, p) = 0
    BY DEF s
  <2> QED BY <2>3, <2>4 DEF i
<1> HIDE DEF ring
<1> QED BY <1>2, <1>3 DEF Holds, ring, s

\* A window that the ring holds is read in one piece.
LEMMA WindowRead ==
  ASSUME NEW c \in SincConfigs, NEW h, NEW w \in Int, NEW a \in Nat, Holds(c, h, w, a),
         NEW start \in Nat, w - Capacity(c) <= start, start + c.length <= w, NEW i \in 1..c.length
  PROVE  h[(start % Capacity(c)) + i - 1] = FrameIn(c, a, start + i - 1)
<1> DEFINE s == Capacity(c)
           m == start % s
           q == start \div s
           p == start + i - 1
           x == m + i - 1
           r == p % s
<1>1. s \in Nat \ {0} /\ c.length \in Nat /\ c.length <= s
  BY ConfigIs
<1>2. m \in 0..s - 1 /\ q \in Int /\ start = s * q + m
  <2>1. start \in Int
    OBVIOUS
  <2> HIDE DEF s
  <2> QED BY <1>1, <2>1, Floor DEF m, q
<1>3. p \in w - s..w - 1 /\ p \in Int
  BY <1>1
<1>4. h[r] = FrameIn(c, a, p) /\ h[r + s] = FrameIn(c, a, p)
  BY <1>3 DEF Holds
<1> HIDE DEF s, m, q
<1>5. s * q \in Int /\ x \in Int /\ p = s * q + x
  <2>1. s * q \in Int
    BY <1>1, <1>2
  <2> DEFINE y == s * q
  <2> HIDE DEF y
  <2>2. y \in Int /\ start = y + m
    BY <1>2, <2>1 DEF y
  <2> QED BY <1>1, <1>2, <2>2 DEF y
<1>6. CASE x < s
  <2>1. x \in 0..s - 1
    BY <1>1, <1>2, <1>6
  <2>2. q \in Int /\ p \in Int /\ p = s * q + x /\ s \in Nat \ {0}
    BY <1>1, <1>2, <1>3, <1>5
  <2> HIDE DEF x, p
  <2>3. p % s = x
    BY <2>1, <2>2, FloorIs
  <2> QED BY <1>4, <2>3 DEF x, p, m, s
<1>7. CASE x >= s
  <2> DEFINE y == x - s
             k == q + 1
  <2>1. y \in 0..s - 1 /\ k \in Int
    BY <1>1, <1>2, <1>7
  <2>2. p = s * k + y
    <3>1. s * (q + 1) = s * q + s
      BY <1>1, <1>2
    <3> HIDE DEF x, p
    <3> QED BY <1>1, <1>5, <3>1
  <2>3. y + s = x
    BY <1>1, <1>5
  <2> HIDE DEF x, p, y, k
  <2>4. p % s = y
    BY <1>1, <1>3, <2>1, <2>2, FloorIs
  <2> QED BY <1>4, <2>3, <2>4 DEF x, p, m, s
<1> QED BY <1>1, <1>5, <1>6, <1>7

\* What may be emitted grows with what was accepted; when all of it is out, the next frame's
\* windows lie beyond what was accepted.
LEMMA SincBudgetIs ==
  ASSUME NEW c \in SincConfigs, NEW a \in Nat
  PROVE  /\ SincOutputFrames(c, a) \in Nat
         /\ \A b \in Nat : a <= b => SincOutputFrames(c, a) <= SincOutputFrames(c, b)
         /\ \A n \in Nat : SincOutputFrames(c, a) <= n => c.length + a <= Due(c, n, 1)
<1> DEFINE g == c.from
           t == c.to
           l == c.length
           d == 2 * g
           y(m) == 2 * m * t + g
<1>1. g \in Nat \ {0} /\ t \in Nat \ {0} /\ l \in Nat \ {0} /\ d \in Nat \ {0}
  BY ConfigIs
<1>2. \A m : SincOutputFrames(c, m) = y(m) \div d
  BY DEF SincOutputFrames
<1>3. ASSUME NEW n \in Nat PROVE PlaceIn(c, n) \in Nat /\ PlaceIn(c, n) >= (l + 1) * t + (n + 1) * g
  BY PlaceIs
<1>4. ASSUME NEW m \in Nat, NEW n \in Nat, m * t <= PlaceIn(c, n) PROVE m - 1 <= Due(c, n, 1)
  BY <1>4, DueFrom
<1> DEFINE f == SincOutputFrames(c, a)
           place(n) == PlaceIn(c, n)
<1> HIDE DEF g, t, l
<1>5. ASSUME NEW m \in Nat PROVE y(m) \in Nat
  <2> DEFINE q == 2 * m
  <2>1. q \in Nat
    OBVIOUS
  <2> HIDE DEF q
  <2>2. q * t \in Nat
    BY <1>1, <2>1
  <2> DEFINE z == q * t
  <2> HIDE DEF z
  <2>3. z \in Nat /\ y(m) = z + g
    BY <2>2 DEF z, q
  <2> QED BY <1>1, <2>3
<1>6. f \in Nat /\ d * f <= y(a) /\ y(a) < d * f + d
  <2> DEFINE x == y(a)
  <2>1. x \in Nat /\ f = x \div d
    BY <1>2, <1>5
  <2> HIDE DEF x, d, f
  <2> QED BY <1>1, <2>1, Quotient DEF x
<1>7. ASSUME NEW b \in Nat, a <= b PROVE f <= SincOutputFrames(c, b)
  <2>1. y(a) <= y(b)
    <3> DEFINE e == b - a
               q == 2 * a
               r == 2 * e
    <3>1. e \in Nat /\ 2 * b = q + r /\ q \in Nat /\ r \in Nat
      BY <1>7
    <3> HIDE DEF e, q, r
    <3>2. q * t \in Nat /\ r * t \in Nat /\ (q + r) * t = q * t + r * t
      BY <1>1, <3>1
    <3> DEFINE u == q * t
               v == r * t
    <3> HIDE DEF u, v
    <3>3. u \in Nat /\ v \in Nat /\ y(a) = u + g /\ y(b) = u + v + g
      <4>1. y(a) = q * t + g
        BY DEF q
      <4>2. y(b) = (q + r) * t + g
        BY <3>1
      <4> QED BY <3>2, <4>1, <4>2 DEF u, v
    <3> QED BY <1>1, <3>3
  <2> DEFINE p == y(a)
             q == y(b)
  <2>2. p \in Int /\ q \in Int /\ p <= q /\ f = p \div d /\ SincOutputFrames(c, b) = q \div d
    BY <1>2, <1>5, <2>1
  <2> HIDE DEF p, q, d, f
  <2> QED BY <1>1, <2>2, FloorGrows
<1>8. ASSUME NEW n \in Nat, f <= n PROVE l + a <= Due(c, n, 1)
  <2> DEFINE m == l + 1 + a
             u == a * t
             v == (n + 1) * g
             w == (l + 1) * t
             e == n - f
  <2>1. m \in Nat /\ m - 1 = l + a /\ l + 1 \in Nat /\ n + 1 \in Nat /\ e \in Nat /\ n = f + e
    BY <1>1, <1>6, <1>8
  <2>2. u \in Nat /\ v \in Nat /\ w \in Nat
    BY <1>1, <2>1
  <2>3. u <= v
    <3>1. y(a) = u + u + g
      BY <1>1
    <3> DEFINE z == g * f
               o == g * e
    <3> HIDE DEF f, e
    <3>2. z \in Nat /\ o \in Nat /\ d * f = z + z
      BY <1>1, <1>6, <2>1
    <3>3. v = z + o + g
      BY <1>1, <1>6, <2>1
    <3> HIDE DEF u, v, z, o, y
    <3>4. u + u + g < z + z + d
      BY <1>6, <3>1, <3>2
    <3> QED BY <1>1, <2>2, <3>2, <3>3, <3>4
  <2>4. m * t = w + u
    BY <1>1
  <2>5. place(n) \in Nat /\ place(n) >= w + v
    BY <1>3
  <2> HIDE DEF u, v, w, m, place
  <2>6. m * t <= place(n)
    BY <2>2, <2>3, <2>4, <2>5
  <2>7. m - 1 <= Due(c, n, 1)
    BY <1>4, <2>1, <2>6 DEF place
  <2> QED BY <2>1, <2>7
<1> QED BY <1>6, <1>7, <1>8 DEF l

\* Later input leaves the frames before it alone.
LEMMA FrameStays ==
  ASSUME NEW c \in SincConfigs, NEW a \in Nat, NEW b \in Nat, a <= b, NEW p \in Int,
         p < 2 * c.length + a
  PROVE  FrameIn(c, b, p) = FrameIn(c, a, p)
BY ConfigIs DEF FrameIn

\* After the last of the input is silence.
LEMMA FrameEnds ==
  ASSUME NEW c \in SincConfigs, NEW a \in Nat, NEW p \in Int, p >= 2 * c.length + a
  PROVE  FrameIn(c, a, p) = 0
BY ConfigIs DEF FrameIn

\* The clock and the windows of the pending frame.
LEMMA Standing ==
  ASSUME StreamIs(sinc), NEW c, c = sinc.config, NEW n, n = sinc.emitted
  PROVE  /\ c \in SincConfigs /\ n \in Nat /\ Size = Capacity(c)
         /\ ClockAt(c, Clock, n) /\ Clock.remaining > 0
         /\ DOMAIN Points = 1..c.points /\ Points[1].start = Due(c, n, 1)
         /\ \A j \in 1..c.points : Points[j].start = Due(c, n, j) /\ Points[j].row = RowIn(c, n, j)
         /\ End = Due(c, n, c.points) + c.length
<1>1. /\ c \in SincConfigs /\ n \in Nat /\ Size = Capacity(c) /\ ClockAt(c, sinc.clock, n)
      /\ Clock = PreparedClock(c, sinc.clock)
  BY DEF StreamIs, Size, Clock
<1>2. ClockAt(c, Clock, n) /\ Clock.remaining > 0
  BY <1>1, ClockPrepared
<1>3. Points = [j \in 1..c.points |-> [start |-> Due(c, n, j), row |-> RowIn(c, n, j)]]
  <2>1. Points = PointsOf(c, Clock)
    BY DEF Points
  <2> QED BY <1>1, <1>2, <2>1, PointsAre
<1>4. 1 \in 1..c.points /\ c.points \in 1..c.points
  BY <1>1, ConfigIs
<1>5. End = Points[c.points].start + c.length
  BY DEF End, EndOf
<1> QED BY <1>1, <1>2, <1>3, <1>4, <1>5

\* A new stream.
LEMMA StreamStarts ==
  ASSUME NEW c \in SincConfigs
  PROVE  StreamIs(NewSinc(c))
<1> DEFINE h == [i \in 0..2 * Capacity(c) - 1 |-> 0]
           w == 2 * c.length
           k == InitialClock(c)
           s == NewSinc(c)
<1>1. c.length \in Nat /\ Capacity(c) \in Nat /\ Capacity(c) >= 2 * c.length + 8 /\ w \in Nat
  BY ConfigIs
<1>2. ClockAt(c, k, 0)
  BY ClockStarts
<1>3. Holds(c, h, w, 0)
  <2>1. ASSUME NEW p \in w - Capacity(c)..w - 1 PROVE FrameIn(c, 0, p) = 0
    BY <1>1 DEF FrameIn
  <2> HIDE DEF w
  <2> QED BY <1>1, <2>1, RingCleared
<1>4. w <= Due(c, 0, 1) + Capacity(c) /\ 0 <= SincOutputFrames(c, 0)
  <2>1. 1 \in 1..c.points
    BY ConfigIs
  <2>2. Due(c, 0, 1) \in Nat
    BY <2>1, DueIs
  <2>3. SincOutputFrames(c, 0) \in Nat
    BY SincBudgetIs
  <2> QED BY <1>1, <2>2, <2>3
<1>5. w >= 2 * c.length + 0 /\ w = 2 * c.length + 0
  BY <1>1
<1>6. /\ DOMAIN s = StreamParts /\ s.config = c /\ s.history = h /\ s.written = w
      /\ s.accepted = 0 /\ s.emitted = 0 /\ s.clock = k /\ s.ending = FALSE /\ s.failed = FALSE
  BY DEF NewSinc, StreamParts
<1> HIDE DEF h, w, k, s
<1>7. StreamIs(s)
  <2>1. {s.written, s.accepted, s.emitted} \subseteq Nat
    BY <1>1, <1>6
  <2>4. s.ending \in BOOLEAN
    BY <1>6
  <2>2. ClockAt(s.config, s.clock, s.emitted) /\ Holds(s.config, s.history, s.written, s.accepted)
    BY <1>2, <1>3, <1>6
  <2>3. /\ s.written >= 2 * s.config.length + s.accepted /\ s.written = 2 * s.config.length + s.accepted
        /\ s.written <= Due(s.config, s.emitted, 1) + Capacity(s.config)
        /\ s.emitted <= SincOutputFrames(s.config, s.accepted)
    BY <1>4, <1>5, <1>6
  <2> QED BY <1>6, <2>1, <2>2, <2>3, <2>4 DEF StreamIs
<1> QED BY <1>7 DEF s

\* A frame that is emitted from a ring whose windows are whole.
LEMMA EmittedKeeps ==
  ASSUME StreamIs(sinc), NEW h, NEW w \in Nat, Emitted(h, w),
         Holds(sinc.config, h, w, sinc.accepted), End <= w, sinc.written <= w,
         w <= Points[1].start + Size, ~sinc.ending => w = sinc.written, sinc.emitted < SincBudget
  PROVE  /\ StreamIs(sinc') /\ ShownState' /\ sinc'.ending = sinc.ending
         /\ sincCall' = [sincCall EXCEPT !.room = @ - 1]
<1> DEFINE c == sinc.config
           n == sinc.emitted
           a == sinc.accepted
           s == Capacity(c)
           k == [Clock EXCEPT !.index = @ + c.from, !.remaining = @ - 1]
           points == [j \in DOMAIN Points |-> Points[j].row]
           windows == [j \in DOMAIN Points |->
                         [i \in 1..c.length |-> h[(Points[j].start % Size) + i - 1]]]
<1>1. /\ c \in SincConfigs /\ n \in Nat /\ Size = s
      /\ ClockAt(c, Clock, n) /\ Clock.remaining > 0
      /\ DOMAIN Points = 1..c.points /\ Points[1].start = Due(c, n, 1)
      /\ \A j \in 1..c.points : Points[j].start = Due(c, n, j) /\ Points[j].row = RowIn(c, n, j)
      /\ End = Due(c, n, c.points) + c.length
  BY Standing
<1>2. /\ a \in Nat /\ sinc.written \in Nat /\ sinc.ending \in BOOLEAN
      /\ sinc.written >= 2 * c.length + a /\ (~sinc.ending => sinc.written = 2 * c.length + a)
  BY DEF StreamIs
<1>3. /\ s \in Nat \ {0} /\ c.length \in Nat \ {0} /\ c.points \in {2, 4}
      /\ 1 \in 1..c.points /\ c.points \in 1..c.points
  BY <1>1, ConfigIs
<1>4. /\ Due(c, n, 1) \in Nat /\ Due(c, n, c.points) \in Nat
      /\ \A j \in 1..c.points : /\ Due(c, n, j) \in Nat /\ Due(c, n, 1) <= Due(c, n, j)
                                /\ Due(c, n, j) <= Due(c, n, c.points)
  BY <1>1, <1>3, DueIs
<1>5. ~(End > w \/ Points[1].start < NonNegative(w - Size))
  BY <1>1, <1>3, <1>4 DEF NonNegative
<1>6. /\ sinc' = [sinc EXCEPT !.history = h, !.written = w, !.emitted = n + 1, !.clock = k]
      /\ shown' = [number |-> n, points |-> points, windows |-> windows]
      /\ sincCall' = [sincCall EXCEPT !.room = @ - 1]
  BY <1>5 DEF Emitted
<1>7. ClockAt(c, k, n + 1)
  <2> DEFINE clock == Clock
             on == [index |-> clock.index + c.from, base |-> clock.base,
                    remaining |-> clock.remaining - 1]
  <2>1. clock = [index |-> clock.index, base |-> clock.base, remaining |-> clock.remaining]
    BY <1>1 DEF ClockAt
  <2>2. ClockAt(c, on, n + 1)
    BY <1>1, ClockAdvances
  <2>3. k = on
    <3> HIDE DEF clock
    <3>1. [clock EXCEPT !.index = @ + c.from, !.remaining = @ - 1] = on
      <4> DEFINE x == [clock EXCEPT !.index = @ + c.from]
      <4>1. x = [index |-> clock.index + c.from, base |-> clock.base, remaining |-> clock.remaining]
        BY <2>1
      <4> HIDE DEF x
      <4>2. [x EXCEPT !.remaining = clock.remaining - 1] = on
        BY <4>1
      <4>3. [clock EXCEPT !.index = @ + c.from, !.remaining = @ - 1]
            = [x EXCEPT !.remaining = clock.remaining - 1]
        BY <2>1 DEF x
      <4> QED BY <4>2, <4>3
    <3> QED BY <3>1 DEF clock
  <2> QED BY <2>2, <2>3
<1> HIDE DEF k, points, windows
<1>8. /\ DOMAIN sinc' = StreamParts /\ sinc'.config = c /\ sinc'.history = h /\ sinc'.written = w
      /\ sinc'.accepted = a /\ sinc'.emitted = n + 1 /\ sinc'.clock = k
      /\ sinc'.ending = sinc.ending /\ sinc'.failed = FALSE
  <2> DEFINE e == n + 1
  <2> HIDE DEF e
  <2>1. DOMAIN sinc = StreamParts /\ sinc.failed = FALSE
    BY DEF StreamIs
  <2>2. sinc' = [sinc EXCEPT !.history = h, !.written = w, !.emitted = e, !.clock = k]
    BY <1>6 DEF e
  <2> DEFINE s0 == sinc
             r == sinc'
  <2>3. DOMAIN s0 = StreamParts /\ r = [s0 EXCEPT !.history = h, !.written = w, !.emitted = e, !.clock = k]
    BY <2>1, <2>2
  <2> HIDE DEF s0, r
  <2>4. /\ DOMAIN r = StreamParts /\ r.config = s0.config /\ r.history = h /\ r.written = w
        /\ r.accepted = s0.accepted /\ r.emitted = e /\ r.clock = k /\ r.ending = s0.ending
        /\ r.failed = s0.failed
    BY <2>3 DEF StreamParts
  <2> QED BY <2>1, <2>4 DEF e, s0, r
<1>9. w >= 2 * c.length + a /\ (~sinc.ending => w = 2 * c.length + a)
  BY <1>2, <1>3
<1>10. w <= Due(c, n + 1, 1) + s
  <2>1. Due(c, n, 1) <= Due(c, n + 1, 1)
    BY <1>1, DueGrows
  <2>2. Due(c, n + 1, 1) \in Nat
    <3> DEFINE e == n + 1
    <3>1. e \in Nat
      BY <1>1
    <3> HIDE DEF e
    <3> QED BY <1>1, <1>3, <3>1, DueIs DEF e
  <2> QED BY <1>1, <1>3, <1>4, <2>1, <2>2
<1>11. n + 1 <= SincOutputFrames(c, a) /\ n + 1 \in Nat
  <2>1. SincOutputFrames(c, a) \in Nat
    BY <1>1, <1>2, SincBudgetIs
  <2> QED BY <1>1, <2>1 DEF SincBudget
<1>12. StreamIs(sinc')
  BY <1>1, <1>2, <1>7, <1>8, <1>9, <1>10, <1>11 DEF StreamIs
<1>13. ASSUME NEW j \in 1..c.points
       PROVE  /\ points[j] = RowIn(c, n, j)
              /\ \A i \in 1..c.length : windows[j][i] = FrameIn(c, a, Due(c, n, j) + i - 1)
  <2>1. points[j] = RowIn(c, n, j)
    BY <1>1 DEF points
  <2>2. ASSUME NEW i \in 1..c.length PROVE windows[j][i] = FrameIn(c, a, Due(c, n, j) + i - 1)
    <3> DEFINE start == Due(c, n, j)
    <3>1. windows[j][i] = h[(start % s) + i - 1]
      BY <1>1 DEF windows
    <3>2. start \in Nat /\ w - s <= start /\ start + c.length <= w /\ w \in Int
      BY <1>1, <1>3, <1>4
    <3> HIDE DEF start, s
    <3>3. h[(start % s) + i - 1] = FrameIn(c, a, start + i - 1)
      BY <1>1, <1>2, <3>2, WindowRead DEF s
    <3> QED BY <3>1, <3>3 DEF start
  <2> QED BY <2>1, <2>2
<1>14. ShownState'
  <2>1. sinc'.config = c /\ sinc'.accepted = a /\ sinc'.written = w
    BY <1>8
  <2>2. shown'.number = n /\ shown'.points = points /\ shown'.windows = windows
    BY <1>6
  <2>3. Due(c, n, c.points) + c.length <= w
    BY <1>1
  <2> QED BY <1>1, <1>13, <2>1, <2>2, <2>3 DEF ShownState
<1> QED BY <1>6, <1>8, <1>12, <1>14

\* A prefetch: the windows of the pending frame leave room in the ring, so it never fails.
LEMMA FetchKeeps ==
  ASSUME SincInv, Fetch
  PROVE  SincInv'
<1> DEFINE c == sinc.config
           n == sinc.emitted
           a == sinc.accepted
           w == sinc.written
           s == Capacity(c)
           d == Due(c, n, 1)
           l == Due(c, n, c.points)
           left == sincCall.left
           count == SmallerOf(FreeHistory, left)
           b == a + count
           v == w + count
           frames == [i \in 1..count |-> sinc.accepted + i]
           ring == RingWith(sinc.written, [i \in 1..count |-> sinc.accepted + i])
           k == Clock
<1>1. /\ c \in SincConfigs /\ n \in Nat /\ Size = s /\ ClockAt(c, k, n)
      /\ Points[1].start = d /\ End = l + c.length
  BY Standing DEF SincInv
<1>2. /\ a \in Nat /\ w \in Nat /\ sincCall.op = "process" /\ left \in Nat /\ ~sinc.ending
      /\ w = 2 * c.length + a /\ Holds(c, sinc.history, w, a) /\ w <= d + s
      /\ n <= SincOutputFrames(c, a) /\ DOMAIN sinc = StreamParts /\ sinc.failed = FALSE
      /\ sinc.ending \in BOOLEAN
  BY DEF SincInv, StreamIs, SincCallState, Fetch
<1>3. s \in Nat \ {0} /\ s >= 2 * c.length + 8 /\ c.length \in Nat \ {0} /\ 1 \in 1..c.points
  BY <1>1, ConfigIs
<1>4. d \in Nat /\ l \in Nat /\ d <= l /\ l <= d + 2
  BY <1>1, <1>3, DueIs
<1>5. d + s > w
  <2>1. CASE End > sinc.written
    BY <1>1, <1>2, <1>3, <1>4, <2>1
  <2>2. CASE n >= SincBudget
    <3>1. SincOutputFrames(c, a) <= n /\ SincOutputFrames(c, a) \in Nat
      BY <1>1, <1>2, <2>2, SincBudgetIs DEF SincBudget
    <3>2. c.length + a <= d
      BY <1>1, <1>2, <3>1, SincBudgetIs
    <3> QED BY <1>2, <1>3, <1>4, <3>2
  <2> QED BY <2>1, <2>2 DEF Fetch
<1>6. FreeHistory = d + s - w /\ d + s - w \in Nat \ {0}
  BY <1>1, <1>2, <1>3, <1>4, <1>5 DEF FreeHistory, NonNegative
<1>7. ~(sincCall.left > 0 /\ count = 0) /\ count \in Nat /\ count <= d + s - w /\ count <= left
  BY <1>2, <1>6 DEF SmallerOf
<1>8. /\ count > 0 /\ shown' = shown /\ sincCall' = [sincCall EXCEPT !.left = @ - count]
      /\ sinc' = [sinc EXCEPT !.history = ring, !.written = @ + count,
                              !.accepted = @ + count, !.clock = Clock]
  BY <1>7 DEF Fetch
<1> HIDE DEF count, ring, k
<1>9. /\ DOMAIN sinc' = StreamParts /\ sinc'.config = c /\ sinc'.history = ring /\ sinc'.written = v
      /\ sinc'.accepted = b /\ sinc'.emitted = n /\ sinc'.clock = k
      /\ sinc'.ending = sinc.ending /\ sinc'.failed = FALSE
  BY <1>2, <1>8 DEF StreamParts, k
<1>10. b \in Nat /\ v \in Nat /\ a <= b /\ v = 2 * c.length + b /\ v <= d + s /\ count \in Nat
  BY <1>2, <1>3, <1>4, <1>6, <1>7
<1>11. Holds(c, ring, v, b)
  <2>1. ASSUME NEW p \in w - s..w - 1 PROVE FrameIn(c, b, p) = FrameIn(c, a, p)
    <3>1. p \in Int /\ p < 2 * c.length + a
      BY <1>2, <1>3
    <3> HIDE DEF b
    <3> QED BY <1>1, <1>2, <1>10, <3>1, FrameStays
  <2>2. /\ frames \in [1..count -> Nat] /\ Len(frames) = count
        /\ \A i \in 1..count : frames[i] = FrameIn(c, b, w + i - 1)
    <3>1. frames \in [1..count -> Nat] /\ Len(frames) = count
      BY <1>2, <1>10
    <3>2. ASSUME NEW i \in 1..count PROVE frames[i] = FrameIn(c, b, w + i - 1)
      <4> DEFINE p == w + i - 1
      <4>1. p \in Int /\ p - 2 * c.length + 1 = a + i /\ a + i \in 1..b /\ frames[i] = a + i
        BY <1>2, <1>3, <1>10
      <4> HIDE DEF p, b, frames
      <4>2. FrameIn(c, b, p) = a + i
        BY <4>1 DEF FrameIn
      <4> QED BY <4>1, <4>2 DEF p
    <3> QED BY <3>1, <3>2
  <2>3. ring = RingWith(w, frames)
    BY DEF ring
  <2>4. \A p \in w - Capacity(c)..w - 1 : FrameIn(c, b, p) = FrameIn(c, a, p)
    BY <2>1 DEF s
  <2> HIDE DEF frames, w, b
  <2>5. Holds(c, RingWith(w, frames), w + count, b)
    BY <1>1, <1>2, <1>10, <2>2, <2>4, RingWritten DEF w
  <2> QED BY <2>3, <2>5
<1>12. n <= SincOutputFrames(c, b)
  <2>1. /\ SincOutputFrames(c, a) \in Nat /\ SincOutputFrames(c, b) \in Nat
        /\ SincOutputFrames(c, a) <= SincOutputFrames(c, b)
    <3> HIDE DEF b
    <3> QED BY <1>1, <1>2, <1>10, SincBudgetIs
  <2> QED BY <1>1, <1>2, <2>1
<1>13. StreamIs(sinc')
  <2> HIDE DEF b, v
  <2> QED BY <1>1, <1>2, <1>9, <1>10, <1>11, <1>12 DEF StreamIs
<1>14. SincCallState'
  <2>1. /\ sincCall = [op |-> sincCall.op, left |-> sincCall.left, room |-> sincCall.room]
        /\ {sincCall.left, sincCall.room} \subseteq Nat
    BY DEF SincInv, SincCallState
  <2>2. sincCall' = [op |-> "process", left |-> left - count, room |-> sincCall.room]
    BY <1>2, <1>8, <2>1
  <2>3. left - count \in Nat /\ sincCall.room \in Nat
    BY <1>2, <1>7, <1>10, <2>1
  <2> QED BY <1>2, <1>9, <2>2, <2>3 DEF SincCallState
<1>15. ShownState'
  <2> SUFFICES ASSUME shown.number # -1 PROVE ShownState'
    BY <1>8 DEF ShownState
  <2> DEFINE m == shown.number
             last == Due(c, m, c.points)
  <2>1. /\ m \in Nat /\ last + c.length <= w
        /\ \A j \in 1..c.points :
             /\ shown.points[j] = RowIn(c, m, j)
             /\ \A i \in 1..c.length : shown.windows[j][i] = FrameIn(c, a, Due(c, m, j) + i - 1)
    BY <1>2 DEF SincInv, ShownState
  <2>2. last \in Nat /\ \A j \in 1..c.points : Due(c, m, j) \in Nat /\ Due(c, m, j) <= last
    <3> HIDE DEF m
    <3> QED BY <1>1, <1>3, <2>1, DueIs DEF last
  <2>3. ASSUME NEW j \in 1..c.points, NEW i \in 1..c.length
        PROVE  FrameIn(c, b, Due(c, m, j) + i - 1) = FrameIn(c, a, Due(c, m, j) + i - 1)
    <3> DEFINE p == Due(c, m, j) + i - 1
    <3>1. p \in Int /\ p < 2 * c.length + a
      <4> DEFINE x == Due(c, m, j)
      <4>1. x \in Nat /\ x <= last /\ last \in Nat
        BY <2>2
      <4> HIDE DEF x, last
      <4> QED BY <1>2, <1>3, <2>1, <4>1 DEF x
    <3> HIDE DEF p, b
    <3>2. FrameIn(c, b, p) = FrameIn(c, a, p)
      BY <1>1, <1>2, <1>10, <3>1, FrameStays
    <3> QED BY <3>2 DEF p
  <2>4. last + c.length <= v
    <3> HIDE DEF last
    <3> QED BY <1>2, <1>3, <1>10, <2>1, <2>2
  <2>5. shown' = shown
    BY <1>8
  <2> HIDE DEF b, v
  <2> QED BY <1>9, <2>1, <2>3, <2>4, <2>5 DEF ShownState
<1> QED BY <1>13, <1>14, <1>15 DEF SincInv

\* A call whose room shrinks by a frame.
LEMMA RoomShrinks ==
  ASSUME SincCallState, sincCall.room > 0, sincCall.op # "none", sinc'.ending = sinc.ending,
         sincCall' = [sincCall EXCEPT !.room = @ - 1]
  PROVE  SincCallState'
<1>1. /\ sincCall = [op |-> sincCall.op, left |-> sincCall.left, room |-> sincCall.room]
      /\ sincCall.left \in Nat /\ sincCall.room \in Nat
  BY DEF SincCallState
<1>2. sincCall' = [op |-> sincCall.op, left |-> sincCall.left, room |-> sincCall.room - 1]
  BY <1>1
<1>3. sincCall.room - 1 \in Nat
  BY <1>1
<1> QED BY <1>1, <1>2, <1>3 DEF SincCallState

\* A frame of a call with input.
LEMMA EmitKeeps ==
  ASSUME SincInv, EmitFrame
  PROVE  SincInv'
<1> DEFINE c == sinc.config
           w == sinc.written
<1>1. c \in SincConfigs /\ Size = Capacity(c) /\ Points[1].start = Due(c, sinc.emitted, 1)
  BY Standing DEF SincInv
<1>2. /\ Emitted(sinc.history, sinc.written) /\ End <= sinc.written /\ sinc.emitted < SincBudget
      /\ sincCall.room > 0 /\ sincCall.op # "none"
  BY DEF EmitFrame
<1>3. /\ StreamIs(sinc) /\ w \in Nat /\ Holds(c, sinc.history, w, sinc.accepted)
      /\ w <= Due(c, sinc.emitted, 1) + Capacity(c)
  BY DEF SincInv, StreamIs
<1>4. w <= Points[1].start + Size /\ w <= w
  BY <1>1, <1>3
<1>5. /\ StreamIs(sinc') /\ ShownState' /\ sinc'.ending = sinc.ending
      /\ sincCall' = [sincCall EXCEPT !.room = @ - 1]
  BY <1>2, <1>3, <1>4, EmittedKeeps
<1>6. SincCallState'
  BY <1>2, <1>5, RoomShrinks DEF SincInv
<1> QED BY <1>5, <1>6 DEF SincInv

\* A frame of a drain, after the silence it needs.
LEMMA DrainKeeps ==
  ASSUME SincInv, DrainFrame
  PROVE  SincInv'
<1> DEFINE c == sinc.config
           n == sinc.emitted
           a == sinc.accepted
           w == sinc.written
           s == Capacity(c)
           d == Due(c, n, 1)
           l == Due(c, n, c.points)
           gap == NonNegative(End - sinc.written)
           v == w + gap
           zeros == [i \in 1..gap |-> 0]
           clear == [i \in 0..2 * Size - 1 |-> 0]
           padded == IF gap >= Size THEN clear ELSE RingWith(sinc.written, zeros)
<1>1. /\ c \in SincConfigs /\ n \in Nat /\ Size = s
      /\ Points[1].start = d /\ End = l + c.length
  BY Standing DEF SincInv
<1>2. /\ a \in Nat /\ w \in Nat /\ sinc.ending /\ w >= 2 * c.length + a
      /\ Holds(c, sinc.history, w, a) /\ w <= d + s /\ StreamIs(sinc)
      /\ n < SincBudget /\ sincCall.room > 0 /\ sincCall.op # "none"
  BY DEF SincInv, StreamIs, SincCallState, DrainFrame
<1>3. s \in Nat \ {0} /\ s >= 2 * c.length + 8 /\ c.length \in Nat \ {0} /\ 1 \in 1..c.points
  BY <1>1, ConfigIs
<1>4. d \in Nat /\ l \in Nat /\ d <= l /\ l <= d + 2
  BY <1>1, <1>3, DueIs
<1>5. Emitted(padded, v)
  BY DEF DrainFrame
<1>6. /\ gap \in Nat /\ v \in Nat /\ v <= d + s /\ w <= v /\ End <= v
      /\ (gap >= s => v - s >= w)
  BY <1>1, <1>2, <1>3, <1>4 DEF NonNegative
<1> HIDE DEF gap
<1>7. ASSUME NEW p \in Int, p >= w PROVE FrameIn(c, a, p) = 0
  <2>1. p >= 2 * c.length + a
    BY <1>2, <1>3, <1>7
  <2> QED BY <1>1, <1>2, <2>1, FrameEnds
<1>8. Holds(c, padded, v, a)
  <2>1. CASE gap >= Size
    <3>1. padded = [i \in 0..2 * Capacity(c) - 1 |-> 0]
      BY <1>1, <2>1
    <3>2. ASSUME NEW p \in v - Capacity(c)..v - 1 PROVE FrameIn(c, a, p) = 0
      <4>1. p \in Int /\ p >= w
        BY <1>1, <1>2, <1>3, <1>6, <2>1
      <4> QED BY <1>7, <4>1
    <3>3. v \in Int
      BY <1>6
    <3> HIDE DEF padded, v
    <3> QED BY <1>1, <1>2, <3>1, <3>2, <3>3, RingCleared
  <2>2. CASE ~(gap >= Size)
    <3>1. zeros \in [1..gap -> Nat] /\ Len(zeros) = gap
      BY <1>6
    <3>2. ASSUME NEW i \in 1..gap PROVE zeros[i] = FrameIn(c, a, w + i - 1)
      <4> DEFINE p == w + i - 1
      <4>1. p \in Int /\ p >= w /\ zeros[i] = 0
        BY <1>2, <1>6
      <4> HIDE DEF p, zeros
      <4>2. FrameIn(c, a, p) = 0
        BY <1>7, <4>1
      <4> QED BY <4>1, <4>2 DEF p
    <3>3. padded = RingWith(w, zeros)
      BY <2>2
    <3> HIDE DEF zeros, padded, w
    <3>4. Holds(c, RingWith(w, zeros), w + gap, a)
      BY <1>1, <1>2, <1>6, <3>1, <3>2, RingWritten DEF w
    <3> QED BY <3>3, <3>4
  <2> QED BY <2>1, <2>2
<1>9. v <= Points[1].start + Size
  BY <1>1, <1>6
<1> HIDE DEF padded, v
<1>10. /\ StreamIs(sinc') /\ ShownState' /\ sinc'.ending = sinc.ending
       /\ sincCall' = [sincCall EXCEPT !.room = @ - 1]
  BY <1>2, <1>5, <1>6, <1>8, <1>9, EmittedKeeps
<1>11. SincCallState'
  BY <1>2, <1>10, RoomShrinks DEF SincInv
<1> QED BY <1>10, <1>11 DEF SincInv

LEMMA SincStarts == SincInit => SincInv
<1> SUFFICES ASSUME SincInit PROVE SincInv
  OBVIOUS
<1>1. PICK c \in SincConfigs : sinc = NewSinc(c)
  BY DEF SincInit
<1>2. StreamIs(sinc)
  BY <1>1, StreamStarts
<1>3. ~sinc.ending
  BY <1>1 DEF NewSinc
<1>4. SincCallState
  BY <1>3 DEF SincInit, NoSincCall, SincCallState
<1>5. ShownState
  BY DEF SincInit, NothingShown, ShownState
<1> QED BY <1>2, <1>4, <1>5 DEF SincInv

LEMMA SincKeeps == SincInv /\ [SincNext]_sincVars => SincInv'
<1> SUFFICES ASSUME SincInv, [SincNext]_sincVars PROVE SincInv'
  OBVIOUS
<1>1. CASE BeginProcess
  <2>1. PICK n \in SincInputs, room \in SincRooms :
          sincCall' = [op |-> "process", left |-> n, room |-> room]
    BY <1>1 DEF BeginProcess
  <2>2. n \in Nat /\ room \in Nat
    BY SincAssumption
  <2>3. sinc' = sinc /\ shown' = shown /\ ~sinc.ending
    BY <1>1 DEF BeginProcess
  <2>4. SincCallState'
    BY <2>1, <2>2, <2>3 DEF SincCallState
  <2>5. StreamIs(sinc') /\ ShownState'
    BY <2>3 DEF SincInv, ShownState
  <2> QED BY <2>4, <2>5 DEF SincInv
<1>2. CASE Fetch
  BY <1>2, FetchKeeps
<1>3. CASE EmitFrame
  BY <1>3, EmitKeeps
<1>4. CASE BeginFinish
  <2>1. PICK room \in SincRooms : sincCall' = [op |-> "finish", left |-> 0, room |-> room]
    BY <1>4 DEF BeginFinish
  <2>2. room \in Nat
    BY SincAssumption
  <2>3. sinc' = [sinc EXCEPT !.ending = TRUE] /\ shown' = shown /\ DOMAIN sinc = StreamParts
    BY <1>4 DEF BeginFinish, SincInv, StreamIs
  <2>4. /\ DOMAIN sinc' = StreamParts /\ sinc'.config = sinc.config /\ sinc'.history = sinc.history
        /\ sinc'.written = sinc.written /\ sinc'.accepted = sinc.accepted
        /\ sinc'.emitted = sinc.emitted /\ sinc'.clock = sinc.clock /\ sinc'.ending = TRUE
        /\ sinc'.failed = sinc.failed
    BY <2>3 DEF StreamParts
  <2>5. StreamIs(sinc')
    BY <2>4 DEF SincInv, StreamIs
  <2>6. SincCallState'
    BY <2>1, <2>2, <2>4 DEF SincCallState
  <2>7. ShownState'
    BY <2>3, <2>4 DEF SincInv, ShownState
  <2> QED BY <2>5, <2>6, <2>7 DEF SincInv
<1>5. CASE DrainFrame
  BY <1>5, DrainKeeps
<1>6. CASE Returns
  <2>1. sinc' = sinc /\ shown' = shown /\ sincCall' = [sincCall EXCEPT !.op = "none"]
    BY <1>6 DEF Returns
  <2>2. /\ sincCall = [op |-> sincCall.op, left |-> sincCall.left, room |-> sincCall.room]
        /\ {sincCall.left, sincCall.room} \subseteq Nat
    BY DEF SincInv, SincCallState
  <2>3. sincCall' = [op |-> "none", left |-> sincCall.left, room |-> sincCall.room]
    BY <2>1, <2>2
  <2>4. ASSUME sinc.ending, sincCall.room > 0
        PROVE  sinc.emitted = SincOutputFrames(sinc.config, sinc.accepted)
    <3>1. sincCall.op # "process" /\ sincCall.room # 0
      BY <2>2, <2>4 DEF SincInv, SincCallState
    <3>2. sinc.emitted >= SincBudget
      BY <1>6, <3>1 DEF Returns
    <3>3. /\ sinc.config \in SincConfigs /\ sinc.accepted \in Nat /\ sinc.emitted \in Nat
          /\ sinc.emitted <= SincOutputFrames(sinc.config, sinc.accepted)
      BY DEF SincInv, StreamIs
    <3>4. SincOutputFrames(sinc.config, sinc.accepted) \in Nat
      BY <3>3, SincBudgetIs
    <3> QED BY <3>2, <3>3, <3>4 DEF SincBudget
  <2>5. SincCallState'
    BY <2>1, <2>2, <2>3, <2>4 DEF SincCallState
  <2>6. StreamIs(sinc') /\ ShownState'
    BY <2>1 DEF SincInv, ShownState
  <2> QED BY <2>5, <2>6 DEF SincInv
<1>7. CASE ResetSinc
  <2>1. sinc.config \in SincConfigs
    BY DEF SincInv, StreamIs
  <2>2. sinc' = NewSinc(sinc.config) /\ sincCall' = NoSincCall /\ shown' = NothingShown
    BY <1>7 DEF ResetSinc
  <2>3. StreamIs(sinc')
    BY <2>1, <2>2, StreamStarts
  <2>4. ~sinc'.ending
    BY <2>2 DEF NewSinc
  <2>5. SincCallState'
    BY <2>2, <2>4 DEF NoSincCall, SincCallState
  <2>6. ShownState'
    BY <2>2 DEF NothingShown, ShownState
  <2> QED BY <2>3, <2>5, <2>6 DEF SincInv
<1>8. CASE UNCHANGED sincVars
  BY <1>8 DEF sincVars, SincInv, SincCallState, ShownState
<1> QED BY <1>1, <1>2, <1>3, <1>4, <1>5, <1>6, <1>7, <1>8 DEF SincNext

LEMMA SincImplies == SincInv => SincIsExact
<1> SUFFICES ASSUME SincInv PROVE SincIsExact
  OBVIOUS
<1> DEFINE c == sinc.config
           n == shown.number
           cell == (Place(n) * c.phases) \div c.to
           first == IF c.points = 4 THEN cell - 1 ELSE cell
<1>1. ~sinc.failed /\ sinc.emitted <= SincBudget
  BY DEF SincInv, StreamIs, SincBudget
<1>2. sinc.ending /\ sincCall.op = "none" /\ sincCall.room > 0 => sinc.emitted = SincBudget
  BY DEF SincInv, SincCallState, SincBudget
<1>3. ASSUME n >= 0, NEW j \in 1..c.points
      PROVE  /\ shown.points[j] = (first + j - 1) % c.phases
             /\ \A i \in 1..c.length :
                  shown.windows[j][i] = FrameAt(((first + j - 1) \div c.phases) + i - 1)
  <2>1. n # -1
    BY <1>3
  <2>2. /\ shown.points[j] = RowIn(c, n, j)
        /\ \A i \in 1..c.length :
             shown.windows[j][i] = FrameIn(c, sinc.accepted, Due(c, n, j) + i - 1)
    BY <2>1 DEF SincInv, ShownState
  <2>3. c \in SincConfigs /\ n \in Nat
    BY <2>1 DEF SincInv, StreamIs, ShownState
  <2>4. Place(n) = PlaceIn(c, n)
    <3>1. c.length \in Nat /\ c.to \in Nat /\ c.from \in Nat /\ Skip(c) \in Nat
      BY <2>3, ConfigIs
    <3> DEFINE x == (c.length - 1) * c.to
               y == c.to * 2 * c.length
               z == (Skip(c) + n + 1) * c.from
    <3>2. x \in Int /\ y \in Int /\ z \in Int
      BY <2>3, <3>1
    <3>3. Place(n) = y + -x + z /\ PlaceIn(c, n) = y - x + z
      BY DEF Place, PlaceIn, ClockStart
    <3> HIDE DEF x, y, z
    <3> QED BY <3>2, <3>3
  <2>5. cell = CellIn(c, n) /\ first = FirstIn(c, n)
    BY <2>4 DEF CellIn, FirstIn
  <2>6. \A p : FrameAt(p) = FrameIn(c, sinc.accepted, p)
    BY DEF FrameAt, FrameIn
  <2> HIDE DEF cell, first
  <2> QED BY <2>2, <2>5, <2>6 DEF RowIn, Due
<1> QED BY <1>1, <1>2, <1>3 DEF SincIsExact

\* For every ratio of rates, every filter of up to 256 taps and every way that calls cut a
\* stream: each frame is interpolated from the rows and the windows of its place, a prefetch
\* never overwrites what is still needed, and a drain gives the rounded duration of the input.
THEOREM SincInterpolatesInPlace == SincSpec => []SincIsExact
<1>1. SincInit => SincInv
  BY SincStarts
<1>2. SincInv /\ [SincNext]_sincVars => SincInv'
  BY SincKeeps
<1>3. SincInv => SincIsExact
  BY SincImplies
<1> QED BY <1>1, <1>2, <1>3, PTL DEF SincSpec
=============================================================================
