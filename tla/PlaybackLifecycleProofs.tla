----------------------- MODULE PlaybackLifecycleProofs -----------------------
(* Proofs about PlaybackLifecycle for any publishers, fade lengths, blocks,  *)
(* tails, hosts and bounds, and about PlaybackParameters for any editors and   *)
(* any order of setters, stores and loads.                                   *)
EXTENDS PlaybackLifecycle, PlaybackParameters, TLAPS

-----------------------------------------------------------------------------
(* The inductive invariant.                                                *)

States == {"Running", "FadingOut", "Draining", "Idle"}
RequestWords == [gen : Nat, kind : {"none", "reset", "drain", "stop"}, fade : Nat]
Gains == [num : Nat, den : Nat \ {0}]

ChannelType ==
  /\ request \in RequestWords /\ appliedGeneration \in Nat /\ stateCell \in States
  /\ ppc \in [Publishers -> {"idle", "exchange"}] /\ observed \in [Publishers -> RequestWords]
  /\ issued \in Nat /\ consumed \in Nat /\ since \in SUBSET States
CallType ==
  /\ host \in Hosts
  /\ cbpc \in {"idle", "storeState", "storeApplied", "render", "publishState", "failed"}
  /\ block \in Nat /\ resetFailed \in BOOLEAN
  /\ seenGeneration \in Nat /\ state \in States
  /\ chain \in {"open", "finishing", "finished"} /\ emitted \in Nat /\ refused \in BOOLEAN
FadeType ==
  /\ fadeRemaining \in Nat /\ fadeTotal \in Nat /\ fadeBase \in Gains
  /\ fadeRemaining <= fadeTotal
  /\ ceiling \in Gains /\ rose \in BOOLEAN
StatusType ==
  /\ spc \in {"idle", "state", "requested", "answered"}
  /\ rApplied \in Nat /\ rState \in States /\ rRequested \in Nat

\* Every variable has its type; no gain is a fraction over zero.
LifecycleTypeOK == ChannelType /\ CallType /\ FadeType /\ StatusType

\* The next frame may be as loud as the last one, and no louder: outside Idle,
\* which is silent, the gain in effect is at most the gain last heard.
FadeInv ==
  /\ ~rose
  /\ state # "Idle" => AtMost(StopGain, ceiling)
  /\ state = "Running" => fadeRemaining = 0 /\ fadeBase = One
  /\ state = "FadingOut" => fadeRemaining > 0
  /\ fadeRemaining = 0 => fadeBase \in {Zero, One}

\* Only draining, which no request but a reset leaves, begins the finish.
OpenInv ==
  host.calls \/ (~refused /\ (state \in {"Running", "FadingOut"} => chain = "open"))

IInv == LifecycleTypeOK /\ FadeInv /\ OpenInv

\* While generations fit the request word, the word counts the requests, and
\* what a status read has seen bounds what has been applied since.
NoWrap == issued < GenModulus
StatusInv ==
  /\ request.gen = issued /\ seenGeneration = consumed /\ consumed <= issued
  /\ appliedGeneration <= seenGeneration
  /\ cbpc = "storeState" => appliedGeneration < seenGeneration
  /\ stateCell \in since
  /\ spc # "idle" => rApplied <= appliedGeneration
  /\ spc = "requested" => rState \in since \/ rApplied < seenGeneration

-----------------------------------------------------------------------------
(* Gains.                                                                  *)

\* Products keep the order of one factor.
LEMMA ProductOrder ==
  ASSUME NEW a \in Nat, NEW b \in Nat, NEW c \in Nat, a <= b
  PROVE  a * c <= b * c /\ a * c \in Nat /\ b * c \in Nat
  OBVIOUS

\* A product of positive numbers is positive.
LEMMA ProductPositive ==
  ASSUME NEW a \in Nat \ {0}, NEW b \in Nat \ {0}
  PROVE  a * b \in Nat \ {0}
  OBVIOUS

\* The factors of a product may be regrouped.
LEMMA Regroup ==
  ASSUME NEW a \in Nat, NEW b \in Nat, NEW c \in Nat
  PROVE  (a * b) * c = (a * c) * b /\ a * (b * c) = (a * c) * b
  OBVIOUS

\* A gain may be scaled by any fraction.
LEMMA ScaledGain ==
  ASSUME NEW g \in Gains, NEW n \in Nat, NEW d \in Nat \ {0}
  PROVE  Times(g, n, d) \in Gains
  <1>1. g.num * n \in Nat
    BY DEF Gains
  <1>2. g.den * d \in Nat \ {0}
    BY ProductPositive DEF Gains
  <1>3. QED
    BY <1>1, <1>2 DEF Gains, Times

\* Silence and full level are gains; silence is the least; order is reflexive.
LEMMA SimpleGains ==
  /\ Zero \in Gains /\ One \in Gains /\ Zero # One
  /\ \A g \in Gains : AtMost(Zero, g) /\ AtMost(g, g)
  BY DEF Zero, One, Gains, AtMost

\* A ramp falls: less of it left is no louder.
LEMMA RampFalls ==
  ASSUME NEW g \in Gains, NEW c \in Gains, NEW m \in Nat, NEW n \in Nat, m <= n,
         NEW d \in Nat \ {0}
  PROVE  /\ AtMost(Times(g, n, d), c) => AtMost(Times(g, m, d), c)
         /\ AtMost(Times(g, m, d), Times(g, n, d))
  <1> DEFINE gn == g.num
             gd == g.den * d
  <1>1. gn \in Nat /\ gd \in Nat /\ c.num \in Nat /\ c.den \in Nat
    BY DEF Gains
  <1>2. m * gn <= n * gn /\ m * gn \in Nat /\ n * gn \in Nat
    BY <1>1, ProductOrder
  <1>3. gn * m <= gn * n /\ gn * m \in Nat /\ gn * n \in Nat
    BY <1>1, <1>2
  <1>4. (gn * m) * c.den <= (gn * n) * c.den /\ (gn * m) * gd <= (gn * n) * gd
    BY <1>1, <1>3, ProductOrder
  <1>5. AtMost(Times(g, n, d), c) => AtMost(Times(g, m, d), c)
    <2>1. c.num * gd \in Nat /\ (gn * m) * c.den \in Nat /\ (gn * n) * c.den \in Nat
      BY <1>1, <1>3
    <2>2. SUFFICES ASSUME (gn * n) * c.den <= c.num * gd
                   PROVE (gn * m) * c.den <= c.num * gd
      BY DEF AtMost, Times
    <2>3. QED
      BY <1>4, <2>1, <2>2
  <1>6. AtMost(Times(g, m, d), Times(g, n, d))
    BY <1>4 DEF AtMost, Times
  <1>7. QED
    BY <1>5, <1>6

\* A fade requested now starts from the gain in effect.
LEMMA FreshRamp ==
  ASSUME NEW g \in Gains, NEW c \in Gains, NEW n \in Nat \ {0}, AtMost(g, c)
  PROVE  AtMost(Times(g, n, n), c)
  <1>1. g.num \in Nat /\ g.den \in Nat /\ c.num \in Nat /\ c.den \in Nat
    BY DEF Gains
  <1>2. g.num * c.den <= c.num * g.den /\ g.num * c.den \in Nat /\ c.num * g.den \in Nat
    BY <1>1 DEF AtMost
  <1>3. (g.num * c.den) * n <= (c.num * g.den) * n
    BY <1>2, ProductOrder
  <1>4. (g.num * n) * c.den = (g.num * c.den) * n /\ c.num * (g.den * n) = (c.num * g.den) * n
    BY <1>1, Regroup
  <1>5. QED
    BY <1>3, <1>4 DEF AtMost, Times

\* The gain in effect is a gain.
LEMMA StopGainType ==
  ASSUME FadeType
  PROVE  StopGain \in Gains
  BY ScaledGain DEF FadeType, StopGain

\* A block under the ramp starts no louder than what was heard and falls; the
\* gain of its last frame is the one in effect afterwards.
LEMMA RampBlock ==
  ASSUME FadeType, fadeRemaining > 0, AtMost(StopGain, ceiling), NEW n \in Nat \ {0}
  PROVE  /\ RampGain(1) \in Gains /\ RampGain(n) \in Gains
         /\ AtMost(RampGain(1), ceiling) /\ AtMost(RampGain(n), RampGain(1))
  <1>1. fadeTotal \in Nat \ {0} /\ fadeRemaining \in Nat /\ fadeBase \in Gains
        /\ ceiling \in Gains
    BY DEF FadeType
  <1>2. AtMost(Times(fadeBase, fadeRemaining, fadeTotal), ceiling)
    BY DEF StopGain
  <1>3. CASE n < fadeRemaining
    <2>1. fadeRemaining - n \in Nat /\ fadeRemaining - 1 \in Nat
          /\ fadeRemaining - n <= fadeRemaining - 1 /\ fadeRemaining - 1 <= fadeRemaining
          /\ 1 < fadeRemaining
      BY <1>1, <1>3
    <2>2. /\ RampGain(1) = Times(fadeBase, fadeRemaining - 1, fadeTotal)
          /\ RampGain(n) = Times(fadeBase, fadeRemaining - n, fadeTotal)
      BY <1>3, <2>1 DEF RampGain
    <2>3. RampGain(1) \in Gains /\ RampGain(n) \in Gains
      BY <1>1, <2>1, <2>2, ScaledGain
    <2>4. AtMost(RampGain(1), ceiling)
      BY <1>1, <1>2, <2>1, <2>2, RampFalls
    <2>5. AtMost(RampGain(n), RampGain(1))
      BY <1>1, <2>1, <2>2, RampFalls
    <2>6. QED
      BY <2>3, <2>4, <2>5
  <1>4. CASE n >= fadeRemaining
    <2>1. RampGain(n) = Zero
      BY <1>1, <1>4 DEF RampGain
    <2>2. RampGain(1) \in Gains /\ AtMost(RampGain(1), ceiling)
      <3>1. CASE 1 < fadeRemaining
        <4>1. fadeRemaining - 1 \in Nat /\ fadeRemaining - 1 <= fadeRemaining
          BY <1>1, <3>1
        <4>2. QED
          BY <1>1, <1>2, <3>1, <4>1, ScaledGain, RampFalls DEF RampGain
      <3>2. CASE ~(1 < fadeRemaining)
        BY <1>1, <3>2, SimpleGains DEF RampGain
      <3>3. QED
        BY <3>1, <3>2
    <2>3. QED
      BY <2>1, <2>2, SimpleGains
  <1>5. QED
    BY <1>1, <1>3, <1>4

\* After a block the ramp stands at the gain of the block's last frame.
LEMMA RampAdvance ==
  ASSUME FadeType, fadeRemaining > 0, NEW n \in Nat, AdvanceFade(n)
  PROVE  /\ fadeRemaining' \in Nat /\ fadeTotal' \in Nat /\ fadeBase' \in Gains
         /\ fadeRemaining' <= fadeTotal'
         /\ fadeRemaining' = 0 => fadeBase' = Zero
         /\ StopGain' = IF n = 0 THEN StopGain ELSE RampGain(n)
  <1>1. CASE n >= fadeRemaining
    BY <1>1, SimpleGains DEF AdvanceFade, FadeType, StopGain, RampGain
  <1>2. CASE n < fadeRemaining
    BY <1>2 DEF AdvanceFade, FadeType, StopGain, RampGain
  <1>3. QED
    BY <1>1, <1>2 DEF FadeType

-----------------------------------------------------------------------------
(* Whose step it is.                                                       *)

Requesting == \E p \in Publishers : LoadRequest(p) \/ ExchangeRequest(p)
Consuming == \E n \in Blocks : TakeNothing(n) \/ TakeRequest(n)
Asking == ReadApplied \/ ReadState \/ ReadRequested \/ Answer

\* Publishers change the request word only.
LEMMA RequestFrame ==
  ASSUME Requesting
  PROVE  UNCHANGED <<host, appliedGeneration, stateCell, cbpc, block, resetFailed, seenGeneration,
                     state, fadeRemaining, fadeTotal, fadeBase, chain, emitted, spc, rApplied,
                     rState, rRequested, consumed, since, ceiling, rose, refused>>
  BY DEF Requesting, LoadRequest, ExchangeRequest, publishElse, call, pipeline, fade, chainVars,
     reader, output

\* A status read changes nothing but its own locals.
LEMMA AskFrame ==
  ASSUME Asking
  PROVE  UNCHANGED <<host, request, appliedGeneration, stateCell, ppc, observed, cbpc, block,
                     resetFailed, seenGeneration, state, fadeRemaining, fadeTotal, fadeBase,
                     chain, emitted, issued, consumed, since, ceiling, rose, refused>>
  BY DEF Asking, ReadApplied, ReadState, ReadRequested, Answer, statusElse, channel, publisher,
     call, pipeline, fade, chainVars, output

\* The callback and the owner change neither the word nor what others keep.
LEMMA CallFrame ==
  ASSUME Consuming \/ FinishCall \/ Reset \/ FinishInto
  PROVE  UNCHANGED <<host, request, ppc, observed, spc, rApplied, rState, rRequested, issued>>
  <1> USE DEF callElse, publisher, reader
  <1>1. CASE Consuming
    BY <1>1 DEF Consuming, TakeNothing, TakeRequest
  <1>2. CASE StoreState \/ StoreApplied \/ PublishState \/ ResetFailed
    BY <1>2 DEF StoreState, StoreApplied, PublishState, ResetFailed, storeElse
  <1>3. CASE Render
    BY <1>3 DEF Render, ChainRefuses, ChainFails, RenderRunning, RenderFading, RenderDraining,
       DrainNothing, RenderIdle, renderElse
  <1>4. CASE Reset \/ FinishInto
    BY <1>4 DEF Reset, FinishInto
  <1>5. QED
    BY <1>1, <1>2, <1>3, <1>4 DEF FinishCall

\* The stores at the end of a call leave what is heard alone.
LEMMA StoreFrame ==
  ASSUME StoreState \/ StoreApplied \/ PublishState \/ ResetFailed
  PROVE  UNCHANGED <<block, seenGeneration, state, fadeRemaining, fadeTotal, fadeBase, chain,
                     emitted, consumed, ceiling, rose, refused>>
  BY DEF StoreState, StoreApplied, PublishState, ResetFailed, storeElse, pipeline, fade,
     chainVars, output

\* Rendering a block stores nothing.
LEMMA RenderFrame ==
  ASSUME Render
  PROVE  UNCHANGED <<appliedGeneration, stateCell, seenGeneration, consumed, since, block,
                     resetFailed>>
  BY DEF Render, ChainRefuses, ChainFails, RenderRunning, RenderFading, RenderDraining,
     DrainNothing, RenderIdle, renderElse, Done

-----------------------------------------------------------------------------
(* What is heard.                                                          *)

\* What a step does to the gains, by the state it is in.
FadeSteps == FadeType' /\ FadeInv'

\* A finish of the chain that leaves the stream unfinished fills its block.
LEMMA FinishFills ==
  ASSUME CallType, NEW n \in Nat \ {0}, NEW produced \in 0 .. n, NEW done \in BOOLEAN,
         FinishChain(n, produced, done)
  PROVE  /\ produced < n => done
         /\ chain' \in {"open", "finishing", "finished"} /\ emitted' \in Nat
  BY DEF FinishChain, Chain!Finish, CallType, chainVars

\* A reset starts again at full level.
LEMMA ResetFade ==
  ASSUME FadeType, FadeInv, ApplyReset, UNCHANGED rose
  PROVE  FadeSteps
  <1>1. StopGain' = One
    BY DEF ApplyReset, StopGain
  <1>2. QED
    BY <1>1, SimpleGains DEF ApplyReset, FadeSteps, FadeType, FadeInv

\* A stop starts from the gain in effect.
LEMMA StopFade ==
  ASSUME CallType, FadeType, FadeInv, NEW ramp \in Nat, ApplyStop(ramp), UNCHANGED rose
  PROVE  FadeSteps
  <1> USE SimpleGains DEF FadeSteps
  <1>1. CASE state = "Idle"
    <2>1. state' = "Idle" /\ UNCHANGED <<fadeRemaining, fadeTotal, fadeBase, ceiling>>
      BY <1>1 DEF ApplyStop, KeepFade, fade
    <2>2. QED
      BY <1>1, <2>1 DEF FadeType, FadeInv
  <1>2. CASE state # "Idle" /\ ramp = 0
    <2>1. StopGain' = Zero
      BY <1>2 DEF ApplyStop, StopGain
    <2>2. QED
      BY <1>2, <2>1 DEF ApplyStop, FadeType, FadeInv
  <1>3. CASE state # "Idle" /\ ramp > 0
    <2>1. fadeBase' = StopGain /\ fadeTotal' = ramp /\ fadeRemaining' = ramp
          /\ state' \in {"Draining", "FadingOut"} /\ ceiling' = ceiling
      BY <1>3 DEF ApplyStop
    <2>2. StopGain' = Times(StopGain, ramp, ramp)
      BY <1>3, <2>1 DEF StopGain
    <2>3. StopGain \in Gains /\ ceiling \in Gains /\ AtMost(StopGain, ceiling)
      BY <1>3, StopGainType DEF FadeType, FadeInv
    <2>4. AtMost(StopGain', ceiling)
      BY <1>3, <2>2, <2>3, FreshRamp
    <2>5. FadeType'
      BY <1>3, <2>1, <2>3 DEF FadeType
    <2>6. AtMost(StopGain, ceiling)'
      BY <2>1, <2>4 DEF AtMost
    <2>7. QED
      BY <1>3, <2>1, <2>5, <2>6 DEF FadeInv
  <1>4. QED
    BY <1>1, <1>2, <1>3

\* Taking a request raises nothing.
LEMMA ConsumeFade ==
  ASSUME CallType, FadeType, FadeInv, ChannelType, Consuming
  PROVE  FadeSteps
  <1>1. PICK n \in Blocks : TakeNothing(n) \/ TakeRequest(n)
    BY DEF Consuming
  <1>2. CASE TakeNothing(n)
    BY <1>2 DEF TakeNothing, pipeline, fade, output, FadeSteps, FadeType, FadeInv, StopGain
  <1>3. CASE TakeRequest(n)
    <2>1. UNCHANGED rose /\ Apply(request) /\ request.fade \in Nat
      BY <1>3 DEF TakeRequest, ChannelType, RequestWords
    <2>2. CASE ApplyReset
      BY <2>1, <2>2, ResetFade
    <2>3. CASE ApplyStop(request.fade)
      BY <2>1, <2>3, StopFade
    <2>4. CASE ApplyDrain
      <3>1. UNCHANGED <<fadeRemaining, fadeTotal, fadeBase, ceiling>> /\ UNCHANGED StopGain
        BY <2>4 DEF ApplyDrain, KeepFade, fade, StopGain
      <3>2. QED
        BY <2>1, <2>4, <3>1 DEF ApplyDrain, FadeSteps, FadeType, FadeInv
    <2>5. QED
      BY <2>1, <2>2, <2>3, <2>4 DEF Apply
  <1>4. QED
    BY <1>1, <1>2, <1>3

\* A block under the ramp falls, and the ramp's end is silent.
LEMMA RampFade ==
  ASSUME FadeType, FadeInv, NEW n \in Nat \ {0}, fadeRemaining > 0, state # "Idle",
         AdvanceFade(n), Hear(RampGain(1), RampGain(n))
  PROVE  /\ FadeType' /\ ~rose' /\ AtMost(StopGain, ceiling)'
         /\ fadeRemaining' = 0 => fadeBase' = Zero
  <1>1. /\ RampGain(1) \in Gains /\ RampGain(n) \in Gains
        /\ AtMost(RampGain(1), ceiling) /\ AtMost(RampGain(n), RampGain(1))
    BY RampBlock DEF FadeInv
  <1>2. ceiling' = RampGain(n) /\ rose' = FALSE
    BY <1>1 DEF Hear, FadeInv, FadeType
  <1>3. StopGain' = RampGain(n)
    BY RampAdvance
  <1>4. AtMost(StopGain, ceiling)'
    BY <1>1, <1>2, <1>3, SimpleGains DEF AtMost
  <1>5. FadeType'
    BY <1>1, <1>2, RampAdvance DEF FadeType
  <1>6. QED
    BY <1>2, <1>4, <1>5, RampAdvance

\* The drained frames are no louder than what came before, and what follows a
\* block that the tail did not fill is silent.
LEMMA DrainFade ==
  ASSUME CallType, FadeType, FadeInv, RenderDraining
  PROVE  FadeSteps
  <1> USE SimpleGains
  <1>1. PICK produced \in 0 .. block, done \in BOOLEAN :
          /\ FinishChain(block, produced, done) /\ HearDrained(produced)
          /\ state' = IF done THEN "Idle" ELSE state
    BY DEF RenderDraining
  <1>2. block \in Nat \ {0} /\ produced \in Nat /\ state = "Draining"
    BY DEF RenderDraining, CallType
  <1>3. produced < block => state' = "Idle"
    BY <1>1, <1>2, FinishFills
  <1>4. AtMost(StopGain, ceiling) /\ ceiling \in Gains /\ rose = FALSE
    BY <1>2 DEF FadeInv, FadeType
  <1>5. CASE fadeRemaining > 0
    <2>1. AdvanceFade(block)
      BY <1>1, <1>5 DEF HearDrained
    <2>2. CASE produced = block
      <3>1. Hear(RampGain(1), RampGain(block))
        BY <1>1, <1>2, <1>5, <2>2 DEF HearDrained
      <3>2. QED
        BY <1>1, <1>2, <1>5, <2>1, <3>1, RampFade DEF FadeInv, FadeSteps
    <2>3. CASE produced < block
      <3>1. Hear(Zero, Zero) \/ (produced > 0 /\ Hear(RampGain(1), Zero))
        BY <1>1, <1>5, <2>3 DEF HearDrained
      <3>2. RampGain(1) \in Gains /\ AtMost(RampGain(1), ceiling)
        BY <1>4, <1>5, RampBlock
      <3>3. ceiling' = Zero /\ rose' = FALSE
        BY <1>4, <3>1, <3>2 DEF Hear
      <3>4. FadeType'
        BY <1>2, <1>5, <2>1, <3>3, RampAdvance DEF FadeType
      <3>5. QED
        BY <1>2, <1>3, <1>5, <2>1, <2>3, <3>3, <3>4, RampAdvance DEF FadeInv, FadeSteps
    <2>4. QED
      BY <1>1, <1>2, <2>2, <2>3
  <1>6. CASE fadeRemaining = 0
    <2>1. UNCHANGED <<fadeRemaining, fadeTotal, fadeBase>> /\ UNCHANGED StopGain
      BY <1>1, <1>6 DEF HearDrained, KeepFade, fade, StopGain
    <2>2. fadeBase \in {Zero, One} /\ StopGain = fadeBase
      BY <1>6 DEF FadeInv, StopGain
    <2>3. CASE produced = block
      <3>1. Hear(fadeBase, fadeBase)
        BY <1>1, <1>2, <1>6, <2>2, <2>3 DEF HearDrained
      <3>2. ceiling' = fadeBase /\ rose' = FALSE
        BY <1>4, <2>2, <3>1 DEF Hear
      <3>3. AtMost(StopGain, ceiling)'
        BY <2>1, <2>2, <3>2 DEF AtMost
      <3>4. QED
        BY <1>1, <1>2, <1>6, <2>1, <2>2, <3>2, <3>3 DEF FadeInv, FadeType, FadeSteps
    <2>4. CASE produced < block
      <3>1. Hear(Zero, Zero) \/ Hear(fadeBase, Zero)
        BY <1>1, <1>6, <2>2, <2>4 DEF HearDrained
      <3>2. ceiling' = Zero /\ rose' = FALSE
        BY <1>4, <2>2, <3>1 DEF Hear
      <3>3. QED
        BY <1>3, <1>6, <2>1, <2>2, <2>4, <3>2 DEF FadeInv, FadeType, FadeSteps
    <2>5. QED
      BY <1>1, <1>2, <2>3, <2>4
  <1>7. QED
    BY <1>5, <1>6 DEF FadeType

\* No callback, and no call of the owner, raises what is heard.
LEMMA CallFade ==
  ASSUME ChannelType, CallType, FadeType, FadeInv, Consuming \/ FinishCall \/ Reset \/ FinishInto
  PROVE  FadeSteps
  <1> USE SimpleGains
  <1>1. ASSUME UNCHANGED <<state, fadeRemaining, fadeTotal, fadeBase, ceiling, rose>>
        PROVE FadeSteps
    BY <1>1 DEF FadeSteps, FadeType, FadeInv, StopGain
  <1>2. CASE StoreState \/ StoreApplied \/ PublishState \/ ResetFailed
    BY <1>1, <1>2, StoreFrame
  <1>3. CASE FinishInto
    BY <1>1, <1>3 DEF FinishInto, pipeline, fade, output
  <1>4. CASE ChainRefuses \/ ChainFails \/ DrainNothing
    BY <1>1, <1>4 DEF ChainRefuses, ChainFails, DrainNothing, fade, output
  <1>5. CASE RenderRunning
    <2>1. UNCHANGED <<state, fadeRemaining, fadeTotal, fadeBase>> /\ state = "Running"
      BY <1>5 DEF RenderRunning, fade
    <2>2. StopGain = One /\ AtMost(One, ceiling) /\ rose = FALSE /\ UNCHANGED StopGain
      BY <2>1 DEF FadeInv, FadeType, StopGain
    <2>3. CASE block > 0
      <3>1. ceiling' = One /\ rose' = FALSE
        BY <1>5, <2>2, <2>3 DEF RenderRunning, Hear
      <3>2. AtMost(StopGain, ceiling)'
        BY <2>2, <3>1 DEF AtMost
      <3>3. QED
        BY <2>1, <3>1, <3>2 DEF FadeSteps, FadeType, FadeInv
    <2>4. CASE ~(block > 0)
      BY <1>1, <1>5, <2>1, <2>4 DEF RenderRunning
    <2>5. QED
      BY <2>3, <2>4
  <1>6. CASE RenderFading
    <2>1. state = "FadingOut" /\ fadeRemaining > 0 /\ AdvanceFade(block) /\ block \in Nat
          /\ state' = IF fadeRemaining' = 0 THEN "Draining" ELSE "FadingOut"
      BY <1>6 DEF RenderFading, FadeInv, CallType
    <2>2. CASE block > 0
      <3>1. Hear(RampGain(1), RampGain(block))
        BY <1>6, <2>2 DEF RenderFading
      <3>2. /\ FadeType' /\ ~rose' /\ AtMost(StopGain, ceiling)'
            /\ fadeRemaining' = 0 => fadeBase' = Zero
        BY <2>1, <2>2, <3>1, RampFade
      <3>3. QED
        BY <2>1, <3>2 DEF FadeSteps, FadeInv, FadeType
    <2>3. CASE block = 0
      <3>1. UNCHANGED <<fadeRemaining, fadeTotal, fadeBase, ceiling, rose>>
        BY <1>6, <2>1, <2>3 DEF RenderFading, AdvanceFade, FadeType
      <3>2. QED
        BY <1>1, <2>1, <3>1
    <2>4. QED
      BY <2>1, <2>2, <2>3
  <1>7. CASE RenderDraining
    BY <1>7, DrainFade
  <1>8. CASE RenderIdle
    <2>1. UNCHANGED <<state, fadeRemaining, fadeTotal, fadeBase>> /\ state = "Idle" /\ rose = FALSE
      BY <1>8 DEF RenderIdle, fade, FadeInv, FadeType
    <2>2. CASE block > 0
      <3>1. ceiling' = Zero /\ rose' = FALSE
        BY <1>8, <2>1, <2>2 DEF RenderIdle, Hear, FadeType
      <3>2. QED
        BY <2>1, <3>1 DEF FadeSteps, FadeType, FadeInv
    <2>3. CASE ~(block > 0)
      BY <1>1, <1>8, <2>1, <2>3 DEF RenderIdle
    <2>4. QED
      BY <2>2, <2>3
  <1>9. CASE Reset
    BY <1>9, ResetFade DEF Reset
  <1>10. QED
    BY <1>2, <1>3, <1>4, <1>5, <1>6, <1>7, <1>8, <1>9, ConsumeFade DEF FinishCall, Render

-----------------------------------------------------------------------------
(* Types and the chain.                                                    *)

\* Calls keep the channel's words in their types.
LEMMA ChannelStep ==
  ASSUME LifecycleTypeOK, LifecycleNext
  PROVE  ChannelType'
  <1> USE LifecycleAssumption DEF LifecycleTypeOK, ChannelType, States
  <1>1. CASE Requesting
    <2>1. UNCHANGED <<appliedGeneration, stateCell, consumed, since>>
      BY <1>1, RequestFrame
    <2>2. ASSUME NEW q \in Requests PROVE Word(request.gen, q) \in RequestWords
      <3>1. (request.gen + 1) % GenModulus \in Nat
        BY DEF RequestWords
      <3>2. q.kind \in {"none", "reset", "drain", "stop"} /\ q.fade \in Nat
        BY <2>2 DEF Requests
      <3>3. QED
        BY <3>1, <3>2 DEF Word, RequestWords
    <2>3. NoRequest \in RequestWords
      BY DEF NoRequest, RequestWords
    <2>4. QED
      BY <1>1, <2>1, <2>2, <2>3 DEF Requesting, LoadRequest, ExchangeRequest
  <1>2. CASE Asking
    BY <1>2, AskFrame
  <1>3. CASE Consuming
    BY <1>3, CallFrame DEF Consuming, TakeNothing, TakeRequest
  <1>4. CASE StoreState \/ StoreApplied \/ PublishState \/ ResetFailed
    BY <1>4, CallFrame DEF FinishCall, StoreState, StoreApplied, PublishState, ResetFailed,
       storeElse, CallType
  <1>5. CASE Render
    BY <1>5, CallFrame, RenderFrame DEF FinishCall
  <1>6. CASE Reset \/ FinishInto
    BY <1>6, CallFrame DEF Reset, FinishInto, CallType
  <1>7. QED
    BY <1>1, <1>2, <1>3, <1>4, <1>5, <1>6
       DEF LifecycleNext, FinishCall, Requesting, Consuming, Asking

\* Calls keep the pipeline and its chain in their types.
LEMMA CallStep ==
  ASSUME LifecycleTypeOK, LifecycleNext
  PROVE  CallType'
  <1> USE LifecycleAssumption DEF LifecycleTypeOK, CallType, States
  <1>1. CASE Requesting
    BY <1>1, RequestFrame
  <1>2. CASE Asking
    BY <1>2, AskFrame
  <1>3. CASE Consuming
    <2>1. PICK n \in Blocks : TakeNothing(n) \/ TakeRequest(n)
      BY <1>3 DEF Consuming
    <2>2. n \in Nat /\ UNCHANGED host
      BY <1>3, CallFrame
    <2>3. CASE TakeNothing(n)
      BY <2>2, <2>3 DEF TakeNothing, pipeline, chainVars, output
    <2>4. CASE TakeRequest(n)
      <3>1. seenGeneration' \in Nat /\ UNCHANGED refused /\ cbpc' = "storeState" /\ block' = n
        BY <2>4 DEF TakeRequest, ChannelType, RequestWords
      <3>2. host.faults \in BOOLEAN
        OBVIOUS
      <3>3. /\ state' \in {"Running", "FadingOut", "Draining", "Idle"} /\ resetFailed' \in BOOLEAN
            /\ chain' \in {"open", "finishing", "finished"} /\ emitted' \in Nat
        <4>1. CASE ApplyReset
          BY <3>2, <4>1 DEF ApplyReset, ResetChain
        <4>2. CASE ApplyDrain
          BY <4>2 DEF ApplyDrain, chainVars
        <4>3. CASE ApplyStop(request.fade)
          BY <4>3 DEF ApplyStop, chainVars
        <4>4. QED
          BY <2>4, <4>1, <4>2, <4>3 DEF TakeRequest, Apply
      <3>4. QED
        BY <2>2, <3>1, <3>3
    <2>5. QED
      BY <2>1, <2>3, <2>4
  <1>4. CASE StoreState \/ StoreApplied \/ PublishState \/ ResetFailed
    BY <1>4, CallFrame, StoreFrame DEF FinishCall, StoreState, StoreApplied, PublishState, ResetFailed
  <1>5. CASE Render
    <2>1. UNCHANGED <<seenGeneration, block, resetFailed, host>>
      BY <1>5, RenderFrame, CallFrame DEF FinishCall
    <2>2. CASE ChainRefuses \/ ChainFails \/ RenderRunning \/ RenderIdle
      BY <2>1, <2>2 DEF ChainRefuses, ChainFails, RenderRunning, RenderIdle, Done, chainVars, output
    <2>3. CASE RenderFading
      BY <2>1, <2>3 DEF RenderFading, Done, chainVars
    <2>4. CASE DrainNothing
      BY <2>1, <2>4 DEF DrainNothing, FailChain, Chain!Begin, Done, chainVars, output
    <2>5. CASE RenderDraining
      <3>1. PICK produced \in 0 .. block, done \in BOOLEAN :
              /\ FinishChain(block, produced, done)
              /\ IF done THEN state' = "Idle" /\ Done("publishState")
                 ELSE UNCHANGED state /\ Done("idle")
        BY <2>5 DEF RenderDraining
      <3>2. chain' \in {"open", "finishing", "finished"} /\ emitted' \in Nat
        BY <2>5, <3>1, FinishFills DEF RenderDraining
      <3>3. UNCHANGED refused
        BY <2>5 DEF RenderDraining
      <3>4. QED
        BY <2>1, <3>1, <3>2, <3>3 DEF Done
    <2>6. QED
      BY <1>5, <2>2, <2>3, <2>4, <2>5 DEF Render
  <1>6. CASE Reset
    <2>1. host.faults \in BOOLEAN /\ UNCHANGED host
      BY <1>6, CallFrame
    <2>2. QED
      BY <1>6, <2>1 DEF Reset, ApplyReset, ResetChain
  <1>7. CASE FinishInto
    <2>1. UNCHANGED <<host, cbpc, block, resetFailed, seenGeneration, state, refused>>
      BY <1>7, CallFrame DEF FinishInto, call, pipeline, output
    <2>2. chain' \in {"open", "finishing", "finished"} /\ emitted' \in Nat
      <3>1. PICK n \in Blocks :
              \/ n = 0 /\ BeginFinish
              \/ n > 0 /\ FailChain
              \/ n > 0 /\ \E produced \in 0 .. n, done \in BOOLEAN : FinishChain(n, produced, done)
        BY <1>7 DEF FinishInto
      <3>2. CASE BeginFinish \/ FailChain
        BY <3>2 DEF BeginFinish, FailChain, Chain!Begin, Chain!FinishEmpty
      <3>3. CASE n > 0 /\ \E produced \in 0 .. n, done \in BOOLEAN : FinishChain(n, produced, done)
        BY <3>3, FinishFills
      <3>4. QED
        BY <3>1, <3>2, <3>3
    <2>3. QED
      BY <2>1, <2>2
  <1>8. QED
    BY <1>1, <1>2, <1>3, <1>4, <1>5, <1>6, <1>7
       DEF LifecycleNext, FinishCall, Requesting, Consuming, Asking

\* A callback leaves the chain open until it drains.
LEMMA OpenStep ==
  ASSUME LifecycleTypeOK, OpenInv, LifecycleNext
  PROVE  OpenInv'
  <1> USE DEF OpenInv
  <1>1. CASE Requesting
    BY <1>1, RequestFrame
  <1>2. CASE Asking
    BY <1>2, AskFrame
  <1>3. CASE Consuming
    <2>1. PICK n \in Blocks : TakeNothing(n) \/ TakeRequest(n)
      BY <1>3 DEF Consuming
    <2>2. UNCHANGED host
      BY <1>3, CallFrame
    <2>3. CASE TakeNothing(n)
      BY <2>2, <2>3 DEF TakeNothing, pipeline, chainVars, output
    <2>4. CASE TakeRequest(n)
      <3>1. UNCHANGED refused
        BY <2>4 DEF TakeRequest
      <3>2. CASE ApplyReset
        BY <2>2, <3>1, <3>2 DEF ApplyReset, ResetChain
      <3>3. CASE ApplyDrain
        BY <2>2, <3>1, <3>3 DEF ApplyDrain, chainVars
      <3>4. CASE ApplyStop(request.fade)
        BY <2>2, <3>1, <3>4 DEF ApplyStop, chainVars, LifecycleTypeOK, CallType, States
      <3>5. QED
        BY <2>4, <3>2, <3>3, <3>4 DEF TakeRequest, Apply
    <2>5. QED
      BY <2>1, <2>3, <2>4
  <1>4. CASE StoreState \/ StoreApplied \/ PublishState \/ ResetFailed
    BY <1>4, StoreFrame, CallFrame DEF FinishCall
  <1>5. CASE Render
    <2>1. UNCHANGED host
      BY <1>5, CallFrame DEF FinishCall
    <2>2. CASE ChainRefuses \/ ChainFails \/ RenderRunning \/ RenderIdle
      BY <2>1, <2>2 DEF ChainRefuses, ChainFails, RenderRunning, RenderIdle, chainVars, output
    <2>3. CASE RenderFading
      BY <2>1, <2>3 DEF RenderFading, chainVars
    <2>4. CASE RenderDraining \/ DrainNothing
      BY <2>1, <2>4 DEF RenderDraining, DrainNothing, output
    <2>5. QED
      BY <1>5, <2>2, <2>3, <2>4 DEF Render
  <1>6. CASE Reset \/ FinishInto
    BY <1>6, CallFrame DEF Reset, FinishInto
  <1>7. QED
    BY <1>1, <1>2, <1>3, <1>4, <1>5, <1>6
       DEF LifecycleNext, FinishCall, Requesting, Consuming, Asking

-----------------------------------------------------------------------------
(* The theorems.                                                           *)

\* The lifecycle invariant holds at the start.
LEMMA InitLifecycle == LifecycleInit => IInv
  <1> SUFFICES ASSUME LifecycleInit PROVE IInv
    OBVIOUS
  <1> USE SimpleGains DEF LifecycleInit
  <1>1. ChannelType /\ CallType /\ StatusType
    BY DEF ChannelType, CallType, StatusType, States, RequestWords, NoRequest
  <1>2. FadeType
    <2>1. fadeRemaining = 0 /\ fadeTotal = 0 /\ fadeBase = One /\ ceiling = One /\ rose = FALSE
      OBVIOUS
    <2>2. rose \in BOOLEAN
      BY <2>1, Zenon
    <2>3. fadeRemaining <= fadeTotal
      BY <2>1
    <2>4. QED
      BY <2>1, <2>2, <2>3 DEF FadeType
  <1>3. StopGain = One
    BY DEF StopGain
  <1>4. FadeInv /\ OpenInv
    BY <1>3 DEF FadeInv, OpenInv
  <1>5. QED
    BY <1>1, <1>2, <1>4 DEF IInv, LifecycleTypeOK

\* Every step keeps the lifecycle invariant.
LEMMA NextLifecycle == IInv /\ [LifecycleNext]_lifecycleVars => IInv'
  <1> SUFFICES ASSUME IInv, [LifecycleNext]_lifecycleVars PROVE IInv'
    OBVIOUS
  <1> USE DEF IInv, LifecycleTypeOK
  <1>1. CASE LifecycleNext
    <2>1. FadeType' /\ FadeInv'
      <3>1. CASE Requesting
        BY <3>1, RequestFrame DEF FadeType, FadeInv, StopGain
      <3>2. CASE Asking
        BY <3>2, AskFrame DEF FadeType, FadeInv, StopGain
      <3>3. CASE Consuming \/ FinishCall \/ Reset \/ FinishInto
        BY <3>3, CallFade DEF FadeSteps
      <3>4. QED
        BY <1>1, <3>1, <3>2, <3>3 DEF LifecycleNext, Requesting, Consuming, Asking
    <2>2. StatusType'
      <3>1. CASE Requesting
        BY <3>1, RequestFrame DEF StatusType
      <3>2. CASE Consuming \/ FinishCall \/ Reset \/ FinishInto
        BY <3>2, CallFrame DEF StatusType
      <3>3. CASE Asking
        BY <3>3 DEF Asking, ReadApplied, ReadState, ReadRequested, Answer, ReadStep, StatusType,
           ChannelType, RequestWords, States
      <3>4. QED
        BY <1>1, <3>1, <3>2, <3>3 DEF LifecycleNext, Requesting, Consuming, Asking
    <2>3. QED
      BY <1>1, <2>1, <2>2, ChannelStep, CallStep, OpenStep
  <1>2. CASE UNCHANGED lifecycleVars
    <2> USE <1>2 DEF lifecycleVars, channel, publisher, call, pipeline, fade, chainVars, reader, output
    <2>1. ChannelType' /\ CallType' /\ FadeType' /\ StatusType'
      BY DEF ChannelType, CallType, FadeType, StatusType
    <2>2. FadeInv' /\ OpenInv'
      BY DEF FadeInv, OpenInv, StopGain
    <2>3. QED
      BY <2>1, <2>2
  <1>3. QED
    BY <1>1, <1>2

\* The lifecycle invariant holds in every reachable state.
LEMMA SpecLifecycle == LifecycleSpec => []IInv
  BY InitLifecycle, NextLifecycle, PTL DEF LifecycleSpec

\* Every variable keeps its type, and no gain is ever a fraction over zero.
THEOREM TypeCorrect == LifecycleSpec => []LifecycleTypeOK
  <1>1. IInv => LifecycleTypeOK
    BY DEF IInv
  <1>2. QED
    BY <1>1, SpecLifecycle, PTL

\* A stop fade never rises: repeated stops, drains, the flushed tail and idle
\* silence are each at most as loud as the frame before them
\* (`PlaybackPipeline::process` under its stop fade).
THEOREM FadeFalls == LifecycleSpec => []FadeNeverRises
  <1>1. IInv => FadeNeverRises
    BY DEF IInv, FadeInv, FadeNeverRises
  <1>2. QED
    BY <1>1, SpecLifecycle, PTL

\* A callback alone never hands a block to a chain whose finish has begun.
THEOREM CallbackAccepted == LifecycleSpec => []NeverRefused
  <1>1. IInv => NeverRefused
    BY DEF IInv, OpenInv, NeverRefused
  <1>2. QED
    BY <1>1, SpecLifecycle, PTL

-----------------------------------------------------------------------------
(* Status reads.                                                           *)

\* At the start no request was issued and the status has seen none.
LEMMA InitStatus == LifecycleInit => StatusInv
  BY DEF LifecycleInit, StatusInv, NoRequest

\* Publishers count up, as long as the count fits the word.
LEMMA RequestStatus ==
  ASSUME LifecycleTypeOK, StatusInv, NoWrap', Requesting
  PROVE  StatusInv'
  <1>1. UNCHANGED <<appliedGeneration, stateCell, cbpc, seenGeneration, spc, rApplied, rState,
                    consumed, since>>
    BY RequestFrame
  <1>2. UNCHANGED <<request, issued>>
        \/ (issued' = issued + 1 /\ request'.gen = (request.gen + 1) % GenModulus)
    BY DEF Requesting, LoadRequest, ExchangeRequest, Word
  <1>3. CASE UNCHANGED <<request, issued>>
    BY <1>1, <1>3 DEF StatusInv
  <1>4. CASE issued' = issued + 1 /\ request'.gen = (request.gen + 1) % GenModulus
    <2>1. issued \in Nat /\ consumed \in Nat /\ request.gen = issued /\ issued + 1 < GenModulus
      BY <1>4 DEF LifecycleTypeOK, ChannelType, StatusInv, NoWrap
    <2>2. (issued + 1) % GenModulus = issued + 1
      BY <2>1, LifecycleAssumption
    <2>3. QED
      BY <1>1, <1>4, <2>1, <2>2 DEF StatusInv
  <1>5. QED
    BY <1>2, <1>3, <1>4

\* What a status read keeps stays true of the state it read it from.
LEMMA AskStatus ==
  ASSUME LifecycleTypeOK, StatusInv, Asking
  PROVE  StatusInv'
  <1> USE AskFrame DEF StatusInv, ReadStep, LifecycleTypeOK, ChannelType, CallType, StatusType
  <1>1. CASE ReadApplied
    BY <1>1 DEF ReadApplied
  <1>2. CASE ReadState
    BY <1>2 DEF ReadState
  <1>3. CASE ReadRequested
    BY <1>3 DEF ReadRequested
  <1>4. CASE Answer
    BY <1>4 DEF Answer
  <1>5. QED
    BY <1>1, <1>2, <1>3, <1>4 DEF Asking

\* The callback publishes its state before it says the request is applied.
LEMMA CallStatus ==
  ASSUME LifecycleTypeOK, StatusInv, Consuming \/ FinishCall \/ Reset \/ FinishInto
  PROVE  StatusInv'
  <1>0. UNCHANGED <<request, issued, spc, rApplied, rState>>
    BY CallFrame
  <1> USE <1>0 DEF StatusInv, LifecycleTypeOK, ChannelType, CallType, StatusType
  <1>1. ASSUME NEW n \in Blocks, TakeNothing(n) PROVE StatusInv'
    BY <1>1 DEF TakeNothing, pipeline
  <1>2. ASSUME NEW n \in Blocks, TakeRequest(n) PROVE StatusInv'
    BY <1>2 DEF TakeRequest
  <1>3. CASE StoreState
    BY <1>3, StoreFrame DEF StoreState
  <1>4. CASE StoreApplied
    <2>1. cbpc' # "storeState" /\ appliedGeneration' = seenGeneration
          /\ UNCHANGED <<stateCell, since, seenGeneration, consumed>>
      BY <1>4, StoreFrame DEF StoreApplied
    <2>2. spc # "idle" => rApplied <= seenGeneration
      OBVIOUS
    <2>3. QED
      BY <2>1, <2>2
  <1>5. CASE PublishState
    BY <1>5, StoreFrame DEF PublishState
  <1>6. CASE ResetFailed
    BY <1>6, StoreFrame DEF ResetFailed
  <1>7. CASE Render
    <2>1. UNCHANGED <<appliedGeneration, stateCell, seenGeneration, consumed, since>>
      BY <1>7, RenderFrame
    <2>2. cbpc' # "storeState"
      BY <1>7 DEF Render, ChainRefuses, ChainFails, RenderRunning, RenderFading, RenderDraining,
         DrainNothing, RenderIdle, Done
    <2>3. QED
      BY <2>1, <2>2
  <1>8. CASE Reset
    BY <1>8 DEF Reset
  <1>9. CASE FinishInto
    BY <1>9 DEF FinishInto, call, pipeline
  <1>10. QED
    BY <1>1, <1>2, <1>3, <1>4, <1>5, <1>6, <1>7, <1>8, <1>9 DEF Consuming, FinishCall

\* As long as no counter wraps, every step keeps what the status word says.
LEMMA NextStatus ==
  IInv /\ StatusInv /\ NoWrap' /\ [LifecycleNext]_lifecycleVars => StatusInv'
  <1> SUFFICES ASSUME IInv, StatusInv, NoWrap', [LifecycleNext]_lifecycleVars PROVE StatusInv'
    OBVIOUS
  <1> USE DEF IInv
  <1>1. CASE LifecycleNext
    BY <1>1, RequestStatus, AskStatus, CallStatus
       DEF LifecycleNext, Requesting, Consuming, Asking
  <1>2. CASE UNCHANGED lifecycleVars
    BY <1>2 DEF lifecycleVars, channel, publisher, call, pipeline, reader, StatusInv
  <1>3. QED
    BY <1>1, <1>2

\* As long as the requests published fit the generation field of the word, a
\* status that claims to be settled was read when every published request had
\* been consumed, and shows a state reached after the newest one was applied
\* (`lifecycle_status`: applied, state, requested, in this order).
THEOREM StatusTruthful == LifecycleSpec /\ []NoWrap => SettledIsTruthful
  <1> DEFINE Settled ==
        spc = "requested" /\ spc' = "answered" /\ rApplied = rRequested'
          => consumed = issued /\ rState \in since
  <1>1. IInv /\ StatusInv /\ [LifecycleNext]_lifecycleVars => [Settled]_spc
    <2> SUFFICES ASSUME IInv, StatusInv, [LifecycleNext]_lifecycleVars,
                        spc = "requested", spc' = "answered", rApplied = rRequested'
                 PROVE consumed = issued /\ rState \in since
      OBVIOUS
    <2>1. ReadRequested
      BY RequestFrame, CallFrame
         DEF LifecycleNext, Requesting, Consuming, ReadApplied, ReadState, Answer, ReadStep,
             lifecycleVars, reader
    <2>2. /\ request.gen = issued /\ seenGeneration = consumed /\ consumed <= issued
          /\ appliedGeneration <= seenGeneration /\ rApplied <= appliedGeneration
          /\ rState \in since \/ rApplied < seenGeneration
      BY DEF StatusInv
    <2>3. issued <= rApplied
      BY <2>1, <2>2 DEF ReadRequested, IInv, LifecycleTypeOK, ChannelType, StatusType
    <2>4. QED
      BY <2>2, <2>3 DEF IInv, LifecycleTypeOK, ChannelType, CallType, StatusType
  <1>2. LifecycleSpec /\ []NoWrap => []StatusInv
    BY SpecLifecycle, InitStatus, NextStatus, PTL DEF LifecycleSpec
  <1>3. QED
    BY <1>1, <1>2, SpecLifecycle, PTL DEF LifecycleSpec, SettledIsTruthful

-----------------------------------------------------------------------------
(* The facade's parameters and the publishers'.                            *)

Uses == [stage : Stages, facade : BOOLEAN]
Pair(r) == r[1] \in Int /\ r[2] \in Int /\ r[1] <= r[2]

\* Every stage has parameters, those with a range among them, and none is called "ref".
LEMMA FieldsAre ==
  ASSUME NEW stage \in Stages
  PROVE  /\ "ref" \notin FieldsOf(stage) /\ \E f : f \in FieldsOf(stage)
         /\ "listening" \in FieldsOf(stage) <=> stage = "loudness"
         /\ Ranged(stage) \subseteq FieldsOf(stage)
         /\ \A f \in Ranged(stage) : Pair(Ranges[stage][f]) /\ Defaults[stage][f] \in Int
<1>1. stage \in {"volume", "eq", "limiter", "saturation", "crossfeed", "loudness", "tuning", "shaper"}
  BY DEF Stages, Ranges
<1> USE DEF FieldsOf, Ranged, Defaults, Ranges, Pair, Volumes
<1>2. CASE stage = "volume"
  BY <1>2
<1>3. CASE stage = "eq"
  BY <1>3
<1>4. CASE stage = "limiter"
  BY <1>4
<1>5. CASE stage = "saturation"
  <2>1. FieldsOf(stage) = {"drive", "threshold", "mix", "input", "output", "highpass",
                           "type", "quality", "highpassMode", "enabled", "armed"}
    BY <1>5
  <2>2. Ranged(stage) = {"drive", "threshold", "mix", "input", "output", "highpass"}
    BY <1>5
  <2>3. \A f \in Ranged(stage) : Pair(Ranges[stage][f])
    BY <1>5, <2>2
  <2>4. \A f \in Ranged(stage) : Defaults[stage][f] \in Int
    BY <1>5, <2>2
  <2> HIDE DEF FieldsOf, Ranged, Defaults, Ranges, Pair, Volumes
  <2> QED BY <1>5, <2>1, <2>2, <2>3, <2>4
<1>6. CASE stage = "crossfeed"
  BY <1>6
<1>7. CASE stage = "loudness"
  BY <1>7
<1>8. CASE stage = "tuning"
  BY <1>8
<1>9. CASE stage = "shaper"
  BY <1>9
<1> HIDE DEF FieldsOf, Ranged, Defaults, Ranges, Pair, Volumes
<1> QED BY <1>1, <1>2, <1>3, <1>4, <1>5, <1>6, <1>7, <1>8, <1>9

\* The range of a value given lies as the range of the value published does.
LEMMA RangesAre ==
  ASSUME NEW use \in Uses, NEW f \in Ranged(use.stage)
  PROVE  Pair(RangeOf(use, f)) /\ Pair(Ranges[use.stage][f])
<1>1. use.stage \in Stages
  BY DEF Uses
<1>2. Pair(Ranges[use.stage][f]) /\ Pair(LevelRange)
  BY <1>1, FieldsAre DEF Pair, LevelRange
<1> QED BY <1>2 DEF RangeOf

LEMMA ClampedIn ==
  ASSUME NEW range, Pair(range), NEW v \in Int
  PROVE  Clamped(range, v) \in range[1] .. range[2]
BY DEF Clamped, Pair

\* A level that a caller may give has a linear volume.
LEMMA LinearIs ==
  ASSUME NEW v \in -140 .. 20
  PROVE  Linear(v) \in Int
<1> DEFINE i == (v + 140) \div 20 + 1
<1>1. i \in 1 .. 9
  OBVIOUS
<1> HIDE DEF i
<1>2. <<1, 10, 100, 1000, 10000, 100000, 1000000, 10000000, 100000000>>[i] \in Int
  BY <1>1
<1> QED BY <1>2 DEF Linear, i

\* What a setter publishes for a number lies in the range of the parameter.
LEMMA StoredIn ==
  ASSUME NEW use \in Uses, NEW f \in Ranged(use.stage), NEW v \in Int
  PROVE  Stored(use, f, v) \in Ranges[use.stage][f][1] .. Ranges[use.stage][f][2]
<1>1. CASE use.facade /\ f = "listening"
  <2>1. use.stage = "loudness"
    BY <1>1, FieldsAre DEF Uses
  <2>0. Ranges["loudness"]["listening"] = Volumes
    BY DEF Ranges
  <2>2. Ranges[use.stage][f] = Volumes
    BY <1>1, <2>0, <2>1
  <2>5. Pair(Volumes) /\ Pair(LevelRange) /\ LevelRange[1] = -120 /\ LevelRange[2] = 0
    BY DEF Pair, Volumes, LevelRange
  <2>3. Clamped(LevelRange, v) \in -120 .. 0
    BY <2>5, ClampedIn
  <2>4. Linear(Clamped(LevelRange, v)) \in Int
    BY <2>3, LinearIs
  <2>6. ClampedLinear(Clamped(LevelRange, v)) \in Volumes[1] .. Volumes[2]
    BY <2>4, <2>5, ClampedIn DEF ClampedLinear
  <2> QED BY <1>1, <2>2, <2>6 DEF Stored
<1>2. CASE ~(use.facade /\ f = "listening")
  <2>1. Stored(use, f, v) = Clamped(RangeOf(use, f), v) /\ RangeOf(use, f) = Ranges[use.stage][f]
    BY <1>2 DEF Stored, RangeOf
  <2> QED BY <2>1, RangesAre, ClampedIn
<1> QED BY <1>1, <1>2

\* The numbers a caller may give lie around the range.
LEMMA AroundAre ==
  ASSUME NEW range, Pair(range)
  PROVE  /\ Around(range) \subseteq Int
         /\ Around(range) \subseteq range[1] - 20 .. range[2] + 20
<1>1. Excess \subseteq 0 .. 20
  BY ParameterAssumption
<1> QED BY <1>1 DEF Around, Pair

\* A setter of a stage has parameters of that stage.
LEMMA SetsAre ==
  ASSUME NEW use \in Uses, NEW fields \in SetTogether(use)
  PROVE  fields \subseteq FieldsOf(use.stage)
<1>1. use.stage \in {"volume", "eq", "limiter", "saturation", "crossfeed", "loudness", "tuning", "shaper"}
  BY DEF Uses, Stages, Ranges
<1>2. CASE use.facade
  <2>1. fields \in FacadeSets[use.stage]
    BY <1>2 DEF SetTogether
  <2> QED BY <1>1, <2>1 DEF FieldsOf, Defaults, FacadeSets
<1>3. CASE ~use.facade
  <2>1. fields \in PublisherSets(use.stage)
    BY <1>3 DEF SetTogether
  <2>2. \/ fields \in {{f} : f \in FieldsOf(use.stage)} \cup {FieldsOf(use.stage)}
        \/ use.stage = "saturation" /\ fields = {"input", "output"}
    BY <2>1 DEF PublisherSets
  <2>3. use.stage = "saturation" => {"input", "output"} \subseteq FieldsOf(use.stage)
    BY DEF FieldsOf, Defaults
  <2> QED BY <2>2, <2>3
<1> QED BY <1>2, <1>3

\* The arguments of a call are numbers for the parameters that have a range.
LEMMA ArgumentsAre ==
  ASSUME NEW use \in Uses, NEW fields, fields \subseteq FieldsOf(use.stage),
         NEW r \in Arguments(use, fields)
  PROVE  /\ DOMAIN r = fields
         /\ \A f \in fields \cap Ranged(use.stage) : r[f] \in Int \cup {NotFinite}
<1>1. PICK odd \in fields :
        r \in {[f \in fields |-> IF f = odd THEN v
                                 ELSE IF f \in Ranged(use.stage) THEN RangeOf(use, f)[2] ELSE choice] :
                 choice \in BOOLEAN, v \in Given(use, odd)}
  BY DEF Arguments
<1>2. PICK choice \in BOOLEAN, v \in Given(use, odd) :
        r = [f \in fields |-> IF f = odd THEN v
                              ELSE IF f \in Ranged(use.stage) THEN RangeOf(use, f)[2] ELSE choice]
  BY <1>1
<1>3. odd \in Ranged(use.stage) => v \in Int \cup {NotFinite}
  <2> SUFFICES ASSUME odd \in Ranged(use.stage) PROVE v \in Int \cup {NotFinite}
    OBVIOUS
  <2> DEFINE range == RangeOf(use, odd)
  <2>1. Around(range) \subseteq Int
    BY RangesAre, AroundAre
  <2>2. Given(use, odd) = IF odd = "bits" THEN {IF x < 0 THEN 0 ELSE x : x \in Around(range)}
                          ELSE Around(range) \cup {NotFinite}
    BY DEF Given
  <2> QED BY <2>1, <2>2
<1>4. \A f \in fields \cap Ranged(use.stage) : RangeOf(use, f)[2] \in Int
  BY RangesAre DEF Pair
<1> QED BY <1>2, <1>3, <1>4

\* What a setter under way asks for.
Sound(use, setter) ==
  /\ DOMAIN setter.to \subseteq FieldsOf(use.stage)
  /\ \A f \in DOMAIN setter.to \cap Ranged(use.stage) : setter.to[f] \in Int
  /\ setter.kind = "reference" =>
       /\ use.stage = "loudness" /\ ~use.facade
       /\ DOMAIN setter.to = {"listening"} /\ setter.to["listening"] \in -140 .. 20
  /\ setter # NoSetter

\* A setter that is not refused is called with numbers, of the stage's parameters.
LEMMA SettersSound ==
  ASSUME stageInUse \in Uses, NEW setter \in Setters(stageInUse), Accepted(setter)
  PROVE  Sound(stageInUse, setter)
<1> DEFINE use == stageInUse
<1>1. /\ DOMAIN setter.to \subseteq FieldsOf(use.stage)
      /\ \A f \in DOMAIN setter.to : setter.to[f] # NotFinite
  BY DEF Accepted
<1>2. CASE \E fields \in SetTogether(use) : \E r \in Arguments(use, fields) :
             setter = [kind |-> "set", to |-> r]
  <2>0. PICK fields \in SetTogether(use) : \E r \in Arguments(use, fields) :
          setter = [kind |-> "set", to |-> r]
    BY <1>2
  <2>1. PICK r \in Arguments(use, fields) : setter = [kind |-> "set", to |-> r]
    BY <2>0
  <2>2. /\ DOMAIN r = fields
        /\ \A f \in fields \cap Ranged(use.stage) : r[f] \in Int \cup {NotFinite}
    BY SetsAre, ArgumentsAre
  <2>3. setter.to = r /\ setter.kind = "set" /\ NoSetter.kind = "none"
    BY <2>1 DEF NoSetter
  <2> QED BY <1>1, <2>2, <2>3 DEF Sound
<1>3. CASE use.stage = "eq" /\ setter = [kind |-> "set", to |-> [gain3 |-> 0]]
  <2>1. DOMAIN setter.to = {"gain3"}
    BY <1>3
  <2>2. "gain3" \notin FieldsOf("eq")
    BY DEF FieldsOf, Defaults
  <2> QED BY <1>1, <1>3, <2>1, <2>2
<1>4. CASE /\ use.stage = "loudness" /\ ~use.facade
           /\ \E v \in Around(LevelRange) \cup {NotFinite} :
                setter = [kind |-> "reference", to |-> [listening |-> v]]
  <2>1. PICK v \in Around(LevelRange) \cup {NotFinite} :
          setter = [kind |-> "reference", to |-> [listening |-> v]]
    BY <1>4
  <2>2. /\ setter.kind = "reference" /\ DOMAIN setter.to = {"listening"}
        /\ setter.to["listening"] = v /\ NoSetter.kind = "none"
    BY <2>1 DEF NoSetter
  <2>3. v \in -140 .. 20
    <3>1. Pair(LevelRange) /\ LevelRange[1] - 20 = -140 /\ LevelRange[2] + 20 = 20
      BY DEF Pair, LevelRange
    <3> QED BY <1>1, <2>1, <2>2, <3>1, AroundAre
  <2> QED BY <1>1, <1>4, <2>2, <2>3 DEF Sound
<1>5. \/ setter \in {[kind |-> "set", to |-> r] :
                      r \in UNION {Arguments(use, fields) : fields \in SetTogether(use)}}
      \/ use.stage = "eq" /\ setter \in {[kind |-> "set", to |-> [gain3 |-> 0]]}
      \/ /\ use.stage = "loudness" /\ ~use.facade
         /\ setter \in {[kind |-> "reference", to |-> [listening |-> v]] :
                          v \in Around(LevelRange) \cup {NotFinite}}
  BY DEF Setters
<1> QED BY <1>2, <1>3, <1>4, <1>5

\* Before the build nothing is called; after it the snapshot holds what was asked for,
\* and who has the lock edits a copy of it.
Settings(use, snapshot, values) ==
  /\ snapshot = [f \in FieldsOf(use.stage) \cup {"ref"} |-> snapshot[f]]
  /\ DOMAIN values = FieldsOf(use.stage)
  /\ \A f \in FieldsOf(use.stage) : snapshot[f] = Stored(use, f, values[f])
  /\ \A f \in Ranged(use.stage) : values[f] \in Int
  /\ snapshot.ref # Absent =>
       "listening" \in FieldsOf(use.stage) /\ snapshot["listening"] = ClampedLinear(snapshot.ref)
FacadeSound ==
  /\ stageInUse \in Uses
  /\ editor = [e \in Editors |-> editor[e]] /\ writer \in Editors \cup {Nobody}
  /\ controls = Unbuilt => writer = Nobody /\ \A e \in Editors : editor[e] = AtRest
  /\ controls # Unbuilt => Settings(stageInUse, controls, asked)
  /\ \A e \in Editors :
       /\ editor[e] = [setter |-> editor[e].setter, copy |-> editor[e].copy]
       /\ editor[e].setter = NoSetter \/ Sound(stageInUse, editor[e].setter)
  /\ writer # Nobody => Sound(stageInUse, editor[writer].setter) /\ editor[writer].copy = controls

\* The snapshot that a setter publishes holds what it was given.
LEMMA EditedHolds ==
  ASSUME stageInUse \in Uses, Settings(stageInUse, controls, asked),
         NEW setter, Sound(stageInUse, setter)
  PROVE  LET declines == setter.kind = "reference" /\ controls.ref = setter.to.listening
             next == IF declines THEN controls ELSE Edited(stageInUse, controls, setter)
             given == [f \in DOMAIN asked |->
                         IF f \in DOMAIN setter.to THEN Wanted(setter, f) ELSE asked[f]]
         IN /\ next = [f \in FieldsOf(stageInUse.stage) \cup {"ref"} |-> next[f]]
            /\ DOMAIN given = FieldsOf(stageInUse.stage)
            /\ \A f \in FieldsOf(stageInUse.stage) : next[f] = Stored(stageInUse, f, given[f])
            /\ \A f \in Ranged(stageInUse.stage) : given[f] \in Int
            /\ next["ref"] # Absent =>
                 /\ "listening" \in FieldsOf(stageInUse.stage)
                 /\ next["listening"] = ClampedLinear(next["ref"])
<1> DEFINE fields == FieldsOf(stageInUse.stage)
           ranged == Ranged(stageInUse.stage)
           declines == setter.kind = "reference" /\ controls.ref = setter.to.listening
           edited == Edited(stageInUse, controls, setter)
           next == IF declines THEN controls ELSE edited
           given == [f \in DOMAIN asked |->
                       IF f \in DOMAIN setter.to THEN Wanted(setter, f) ELSE asked[f]]
<1>0. stageInUse.stage \in Stages
  BY DEF Uses
<1>1. /\ DOMAIN controls = fields \cup {"ref"} /\ DOMAIN asked = fields
      /\ controls = [f \in fields \cup {"ref"} |-> controls[f]]
      /\ \A f \in fields : controls[f] = Stored(stageInUse, f, asked[f])
      /\ "ref" \notin fields /\ DOMAIN setter.to \subseteq fields /\ ranged \subseteq fields
  BY <1>0, FieldsAre DEF Settings, Sound
<1>2. /\ DOMAIN given = fields
      /\ \A f \in fields : given[f] = IF f \in DOMAIN setter.to THEN Wanted(setter, f) ELSE asked[f]
  BY <1>1
<1>3. /\ edited = [f \in fields \cup {"ref"} |-> edited[f]]
      /\ \A f \in fields : edited[f] = IF f \in DOMAIN setter.to
                                       THEN Stored(stageInUse, f, Wanted(setter, f)) ELSE controls[f]
      /\ edited["ref"] = Reference(setter, controls)
  BY <1>1 DEF Edited
\* A reference is stored as the linear volume it stands for.
<1>4. ASSUME setter.kind = "reference"
      PROVE  /\ DOMAIN setter.to = {"listening"} /\ "listening" \in fields
             /\ Wanted(setter, "listening") = Linear(setter.to["listening"])
             /\ Wanted(setter, "listening") \in Int
             /\ Stored(stageInUse, "listening", Wanted(setter, "listening"))
                  = ClampedLinear(setter.to["listening"])
  <2>1. /\ stageInUse.stage = "loudness" /\ ~stageInUse.facade
        /\ DOMAIN setter.to = {"listening"} /\ setter.to["listening"] \in -140 .. 20
    BY <1>4 DEF Sound
  <2>2. "listening" \in ranged /\ Ranges[stageInUse.stage]["listening"] = Volumes
    BY <2>1 DEF Ranged, Ranges
  <2>3. \A x : Stored(stageInUse, "listening", x) = Clamped(Volumes, x)
    BY <2>1, <2>2 DEF Stored, RangeOf
  <2> QED BY <1>1, <1>4, <2>1, <2>2, <2>3, LinearIs DEF Wanted, ClampedLinear
<1>5. \A f \in ranged : given[f] \in Int
  <2> SUFFICES ASSUME NEW f \in ranged PROVE given[f] \in Int
    OBVIOUS
  <2>1. asked[f] \in Int /\ f \in fields
    BY <1>1 DEF Settings
  <2>2. f \in DOMAIN setter.to => Wanted(setter, f) \in Int
    <3>1. f \in DOMAIN setter.to => setter.to[f] \in Int
      BY DEF Sound
    <3> QED BY <1>4, <3>1 DEF Wanted
  <2> QED BY <1>2, <2>1, <2>2
<1> HIDE DEF given, edited, fields, ranged
<1>6. CASE declines
  <2>1. next = controls /\ controls["ref"] = setter.to["listening"] /\ setter.kind = "reference"
    BY <1>6
  <2>2. controls["listening"] = ClampedLinear(controls["ref"])
    <3>1. controls["ref"] # Absent
      BY <2>1, ParameterAssumption DEF Sound
    <3> QED BY <3>1 DEF Settings
  <2>3. ASSUME NEW f \in fields PROVE next[f] = Stored(stageInUse, f, given[f])
    <3>1. CASE f = "listening"
      BY <1>2, <1>4, <2>1, <2>2, <3>1
    <3>2. CASE f # "listening"
      BY <1>1, <1>2, <1>4, <2>1, <3>2
    <3> QED BY <3>1, <3>2
  <2> QED BY <1>1, <1>2, <1>4, <1>5, <2>1, <2>2, <2>3 DEF given, edited, fields, ranged
<1>7. CASE ~declines
  <2>1. next = edited
    BY <1>7
  <2>2. ASSUME NEW f \in fields PROVE next[f] = Stored(stageInUse, f, given[f])
    BY <1>1, <1>2, <1>3, <2>1
  <2>3. ASSUME next["ref"] # Absent
        PROVE  "listening" \in fields /\ next["listening"] = ClampedLinear(next["ref"])
    <3>1. CASE setter.kind = "reference"
      <4>1. next["ref"] = setter.to["listening"]
        BY <1>3, <2>1, <3>1 DEF Reference
      <4>2. next["listening"] = Stored(stageInUse, "listening", Wanted(setter, "listening"))
        BY <1>3, <1>4, <2>1, <3>1
      <4> QED BY <1>4, <3>1, <4>1, <4>2
    <3>2. CASE setter.kind # "reference"
      <4>1. "listening" \notin DOMAIN setter.to /\ next["ref"] = controls["ref"]
        BY <1>3, <2>1, <2>3, <3>2 DEF Reference
      <4>2. "listening" \in fields /\ controls["listening"] = ClampedLinear(controls["ref"])
        BY <2>3, <4>1 DEF Settings, fields
      <4> QED BY <1>3, <2>1, <4>1, <4>2
    <3> QED BY <3>1, <3>2
  <2> QED BY <1>1, <1>2, <1>3, <1>5, <2>1, <2>2, <2>3 DEF given, edited, fields, ranged
<1> QED BY <1>6, <1>7 DEF given, edited, ranged

\* A snapshot of the values of a configuration, or of the defaults.
LEMMA SnapshotHolds ==
  ASSUME NEW use \in Uses, NEW values, DOMAIN values = FieldsOf(use.stage),
         \A f \in Ranged(use.stage) : values[f] \in Int
  PROVE  Settings(use, Snapshot(use, values), values) /\ Snapshot(use, values) # Unbuilt
<1> DEFINE fields == FieldsOf(use.stage)
           snapshot == Snapshot(use, values)
<1>1. "ref" \notin fields /\ \E f : f \in fields
  BY FieldsAre DEF Uses
<1>2. snapshot = [f \in fields \cup {"ref"} |-> IF f = "ref" THEN Absent ELSE Stored(use, f, values[f])]
  BY DEF Snapshot
<1>3. /\ snapshot = [f \in fields \cup {"ref"} |-> snapshot[f]] /\ snapshot["ref"] = Absent
      /\ \A f \in fields : snapshot[f] = Stored(use, f, values[f])
  BY <1>1, <1>2
<1>4. snapshot # Unbuilt
  <2>1. DOMAIN Unbuilt = {"ref"} /\ DOMAIN snapshot = fields \cup {"ref"}
    BY <1>2 DEF Unbuilt
  <2> QED BY <1>1, <2>1
<1> HIDE DEF snapshot
<1>5. Settings(use, snapshot, values)
  BY <1>3 DEF Settings
<1> QED BY <1>4, <1>5 DEF snapshot

\* The publishers start with their defaults, the facade with nothing.
LEMMA ParametersStart ==
  ASSUME ParametersInit
  PROVE  FacadeSound
<1>1. stageInUse \in Uses /\ editor = [e \in Editors |-> AtRest] /\ writer = Nobody
  BY DEF ParametersInit, Uses
<1>2. AtRest.setter = NoSetter /\ AtRest = [setter |-> AtRest.setter, copy |-> AtRest.copy]
  BY DEF AtRest
<1>3. controls # Unbuilt => Settings(stageInUse, controls, asked)
  <2>1. CASE stageInUse.facade
    BY <2>1 DEF ParametersInit
  <2>2. CASE ~stageInUse.facade
    <3>1. asked = Defaults[stageInUse.stage] /\ controls = Snapshot(stageInUse, asked)
      BY <2>2 DEF ParametersInit
    <3>2. stageInUse.stage \in Stages
      BY <1>1 DEF Uses
    <3>3. DOMAIN asked = FieldsOf(stageInUse.stage) /\ \A f \in Ranged(stageInUse.stage) : asked[f] \in Int
      BY <3>1, <3>2, FieldsAre DEF FieldsOf
    <3> QED BY <1>1, <3>1, <3>3, SnapshotHolds
  <2> QED BY <2>1, <2>2
<1> QED BY <1>1, <1>2, <1>3 DEF FacadeSound

\* The build is the first to give the facade's snapshot its values.
LEMMA BuildSound ==
  ASSUME FacadeSound, NEW config \in Arguments(stageInUse, FieldsOf(stageInUse.stage)),
         BuildParameters(config)
  PROVE  FacadeSound'
<1> DEFINE values == Configured(stageInUse, config)
           ranged == Ranged(stageInUse.stage)
<1>1. /\ controls = Unbuilt /\ UNCHANGED <<stageInUse, editor, writer>>
      /\ \A f \in ranged : InRange(stageInUse, f, values[f])
      /\ controls' = Snapshot(stageInUse, values) /\ asked' = values
  BY DEF BuildParameters
<1>2. stageInUse \in Uses /\ stageInUse.stage \in Stages
  BY DEF FacadeSound, Uses
<1>3. ranged \subseteq FieldsOf(stageInUse.stage)
      /\ \A f \in ranged : config[f] \in Int \cup {NotFinite}
  BY <1>2, FieldsAre, ArgumentsAre
<1>4. DOMAIN values = FieldsOf(stageInUse.stage)
  BY DEF Configured
<1>5. ASSUME NEW f \in ranged PROVE values[f] \in Int
  <2>1. f # "armed"
    BY <1>2 DEF Ranged, Ranges, Stages
  <2>2. values[f] = Defaults[stageInUse.stage][f] \/ values[f] = config[f]
    BY <1>3, <2>1 DEF Configured
  <2>3. Defaults[stageInUse.stage][f] \in Int
    BY <1>2, FieldsAre
  <2>4. values[f] # NotFinite
    BY <1>1 DEF InRange
  <2> QED BY <1>3, <2>2, <2>3, <2>4
<1> HIDE DEF values, ranged
<1>6. Settings(stageInUse, controls', asked') /\ controls' # Unbuilt
  BY <1>1, <1>2, <1>4, <1>5, SnapshotHolds DEF ranged
<1>7. /\ writer = Nobody /\ \A e \in Editors : editor[e] = AtRest
      /\ AtRest.setter = NoSetter /\ AtRest = [setter |-> AtRest.setter, copy |-> AtRest.copy]
  BY <1>1 DEF FacadeSound, AtRest
<1> QED BY <1>1, <1>6, <1>7 DEF FacadeSound

\* A setter is called: refused, or accepted with what it was given.
LEMMA CallSound ==
  ASSUME FacadeSound, NEW e \in Editors, CallSetter(e)
  PROVE  FacadeSound'
<1>1. /\ controls # Unbuilt /\ editor[e] = AtRest
      /\ UNCHANGED <<stageInUse, controls, writer, asked>>
  BY DEF CallSetter
<1>2. PICK setter \in Setters(stageInUse) :
        editor' = IF Accepted(setter) THEN [editor EXCEPT ![e].setter = setter] ELSE editor
  BY DEF CallSetter
<1>3. Accepted(setter) => Sound(stageInUse, setter)
  BY SettersSound DEF FacadeSound
<1>4. AtRest.setter = NoSetter /\ AtRest = [setter |-> AtRest.setter, copy |-> AtRest.copy]
  BY DEF AtRest
<1>5. CASE editor' = editor
  BY <1>1, <1>5 DEF FacadeSound
<1>6. CASE Accepted(setter) /\ editor' = [editor EXCEPT ![e].setter = setter]
  <2> DEFINE mine == [AtRest EXCEPT !.setter = setter]
  <2>1. mine = [setter |-> setter, copy |-> AtRest.copy]
    BY <1>4
  <2> HIDE DEF mine
  <2>2. /\ editor' = [x \in Editors |-> IF x = e THEN mine ELSE editor[x]]
    BY <1>1, <1>6 DEF FacadeSound, mine
  <2>3. /\ editor' = [x \in Editors |-> editor'[x]]
        /\ \A x \in Editors : editor'[x] = IF x = e THEN mine ELSE editor[x]
    BY <2>2
  <2>4. ASSUME NEW x \in Editors
        PROVE  /\ editor'[x] = [setter |-> editor'[x].setter, copy |-> editor'[x].copy]
               /\ editor'[x].setter = NoSetter \/ Sound(stageInUse, editor'[x].setter)
    BY <1>3, <1>6, <2>1, <2>3 DEF FacadeSound
  <2>5. writer # e
    <3>1. writer = e => Sound(stageInUse, editor[e].setter) /\ e # Nobody
      BY ParameterAssumption DEF FacadeSound
    <3> QED BY <1>1, <1>4, <3>1 DEF Sound
  <2>6. writer # Nobody => Sound(stageInUse, editor'[writer].setter) /\ editor'[writer].copy = controls
    <3>1. writer # Nobody => writer \in Editors /\ editor'[writer] = editor[writer]
      BY <2>3, <2>5 DEF FacadeSound
    <3> QED BY <3>1 DEF FacadeSound
  <2> QED BY <1>1, <2>3, <2>4, <2>6 DEF FacadeSound
<1> QED BY <1>2, <1>5, <1>6

\* The holder of the lock has a copy of the snapshot.
LEMMA LockSound ==
  ASSUME FacadeSound, NEW e \in Editors, LockControls(e)
  PROVE  FacadeSound'
<1>1. /\ editor[e].setter # NoSetter /\ writer = Nobody /\ writer' = e
      /\ editor' = [editor EXCEPT ![e].copy = controls]
      /\ UNCHANGED <<stageInUse, controls, asked>>
  BY DEF LockControls
<1>2. e # Nobody /\ Sound(stageInUse, editor[e].setter)
  BY <1>1, ParameterAssumption DEF FacadeSound
<1> DEFINE c == editor[e]
           mine == [c EXCEPT !.copy = controls]
<1>3. c = [setter |-> c.setter, copy |-> c.copy]
  BY DEF FacadeSound
<1> HIDE DEF c
<1>4. mine = [setter |-> c.setter, copy |-> controls]
  BY <1>3
<1> HIDE DEF mine
<1>5. /\ editor' = [x \in Editors |-> editor'[x]]
      /\ \A x \in Editors : editor'[x] = IF x = e THEN mine ELSE editor[x]
  <2>1. editor' = [x \in Editors |-> IF x = e THEN mine ELSE editor[x]]
    BY <1>1 DEF FacadeSound, mine, c
  <2> QED BY <2>1
<1>6. mine.setter = editor[e].setter /\ mine.copy = controls
      /\ mine = [setter |-> mine.setter, copy |-> mine.copy]
  BY <1>4 DEF c
<1>7. ASSUME NEW x \in Editors
      PROVE  /\ editor'[x] = [setter |-> editor'[x].setter, copy |-> editor'[x].copy]
             /\ editor'[x].setter = NoSetter \/ Sound(stageInUse, editor'[x].setter)
  BY <1>5, <1>6 DEF FacadeSound
<1>8. controls # Unbuilt
  <2>1. editor[e] = AtRest => editor[e].setter = NoSetter
    BY DEF AtRest
  <2> QED BY <1>1, <2>1 DEF FacadeSound
<1>9. Sound(stageInUse, editor'[e].setter) /\ editor'[e].copy = controls
  BY <1>2, <1>5, <1>6
<1> QED BY <1>1, <1>2, <1>5, <1>7, <1>8, <1>9 DEF FacadeSound

\* What is published holds what the setter was given.
LEMMA PublishSound ==
  ASSUME FacadeSound, NEW e \in Editors, PublishEdit(e)
  PROVE  FacadeSound'
<1> DEFINE setter == editor[e].setter
           declines == setter.kind = "reference" /\ controls.ref = setter.to.listening
           next == IF declines THEN controls ELSE Edited(stageInUse, controls, setter)
           given == [f \in DOMAIN asked |->
                       IF f \in DOMAIN setter.to THEN Wanted(setter, f) ELSE asked[f]]
           fields == FieldsOf(stageInUse.stage)
<1>1. /\ writer = e /\ writer' = Nobody /\ editor' = [editor EXCEPT ![e] = AtRest]
      /\ stageInUse' = stageInUse
  BY DEF PublishEdit
<1>2. e # Nobody /\ Sound(stageInUse, setter) /\ editor[e].copy = controls
  BY <1>1, ParameterAssumption DEF FacadeSound
<1>3. controls' = next /\ asked' = given
  BY <1>2 DEF PublishEdit
<1>4. controls # Unbuilt /\ Settings(stageInUse, controls, asked) /\ stageInUse \in Uses
  BY <1>1, <1>2 DEF FacadeSound
<1>5. /\ next = [f \in fields \cup {"ref"} |-> next[f]] /\ DOMAIN given = fields
      /\ \A f \in fields : next[f] = Stored(stageInUse, f, given[f])
      /\ \A f \in Ranged(stageInUse.stage) : given[f] \in Int
      /\ next["ref"] # Absent =>
           "listening" \in fields /\ next["listening"] = ClampedLinear(next["ref"])
  <2> HIDE DEF setter
  <2> QED BY <1>2, <1>4, EditedHolds
<1> HIDE DEF next, given
<1>6. Settings(stageInUse, controls', asked')
  BY <1>3, <1>5 DEF Settings
<1>7. controls' # Unbuilt
  <2>1. "ref" \notin fields /\ \E f : f \in fields
    BY <1>4, FieldsAre DEF Uses
  <2>2. DOMAIN Unbuilt = {"ref"} /\ DOMAIN controls' = fields \cup {"ref"}
    BY <1>3, <1>5 DEF Unbuilt
  <2> QED BY <2>1, <2>2
<1>8. AtRest.setter = NoSetter /\ AtRest = [setter |-> AtRest.setter, copy |-> AtRest.copy]
  BY DEF AtRest
<1>9. /\ editor' = [x \in Editors |-> editor'[x]]
      /\ \A x \in Editors : editor'[x] = IF x = e THEN AtRest ELSE editor[x]
  BY <1>1 DEF FacadeSound
<1>10. ASSUME NEW x \in Editors
       PROVE  /\ editor'[x] = [setter |-> editor'[x].setter, copy |-> editor'[x].copy]
              /\ editor'[x].setter = NoSetter \/ Sound(stageInUse, editor'[x].setter)
  BY <1>8, <1>9 DEF FacadeSound
<1> QED BY <1>1, <1>4, <1>6, <1>7, <1>9, <1>10 DEF FacadeSound

-----------------------------------------------------------------------------
(* The telemetry.                                                          *)

\* Every factor comes with the gains of its update or later ones, and what the display
\* has seen is no older than any factor it has read.
Factors == [update : Nat, view : [1..GainBands -> Nat]]
ReadSound(read, seen) ==
  /\ read = [factor |-> read.factor, again |-> read.again, gains |-> read.gains]
  /\ {read.factor, read.again} \subseteq Nat \cup {NotLoaded}
  /\ read.gains \in Seq(Nat) /\ Len(read.gains) <= GainBands
  /\ read.factor # NotLoaded => \A b \in 1..GainBands : seen[b] >= read.factor
  /\ read.again # NotLoaded => \A b \in 1..GainBands : seen[b] >= read.again
  /\ read.again # NotLoaded => read.factor # NotLoaded
  /\ read.gains # <<>> => read.again # NotLoaded
  /\ \A b \in 1..Len(read.gains) : read.gains[b] >= read.factor /\ read.gains[b] >= read.again
MeterSound ==
  /\ meter = [factor |-> meter.factor, gains |-> meter.gains]
  /\ meter.factor \in Seq(Factors) /\ meter.gains \in [1..GainBands -> Nat]
  /\ \A i \in 1..Len(meter.factor) : \A b \in 1..GainBands :
       meter.factor[i].view[b] >= meter.factor[i].update
  /\ meterStore = [update |-> meterStore.update, left |-> meterStore.left]
  /\ meterStore.update \in Nat /\ meterStore.left \subseteq 0..GainBands
  /\ \A b \in 1..GainBands \ meterStore.left : meter.gains[b] >= meterStore.update
  /\ display = [at |-> display.at, seen |-> display.seen, read |-> display.read]
  /\ display.at \in Nat \ {0} /\ display.seen \in [1..GainBands -> Nat]
  /\ ReadSound(display.read, display.seen)


\* A factor is loaded with the gains that were stored before it.
LEMMA LoadFactorSound ==
  ASSUME MeterSound, LoadFactor
  PROVE  MeterSound'
<1>1. display.read.again = NotLoaded /\ UNCHANGED <<meter, meterStore>>
  BY DEF LoadFactor
<1>2. PICK store \in display.at..Len(meter.factor) :
        LET loaded == meter.factor[store]
        IN display' = [at |-> store,
                       seen |-> [b \in 1..GainBands |->
                                   IF loaded.view[b] > display.seen[b] THEN loaded.view[b]
                                   ELSE display.seen[b]],
                       read |-> IF display.read.factor = NotLoaded
                                THEN [display.read EXCEPT !.factor = loaded.update]
                                ELSE [display.read EXCEPT !.again = loaded.update]]
  BY DEF LoadFactor
<1> DEFINE loaded == meter.factor[store]
           was == display.seen
           seen == [b \in 1..GainBands |->
                      IF loaded.view[b] > was[b] THEN loaded.view[b] ELSE was[b]]
           old == display.read
           read == IF old.factor = NotLoaded THEN [old EXCEPT !.factor = loaded.update]
                   ELSE [old EXCEPT !.again = loaded.update]
<1>3. /\ store \in Nat \ {0} /\ loaded \in Factors
      /\ \A b \in 1..GainBands : loaded.view[b] >= loaded.update
  <2>1. store \in 1..Len(meter.factor) /\ meter.factor \in Seq(Factors)
    BY <1>2 DEF MeterSound
  <2> QED BY <2>1 DEF MeterSound
<1>4. /\ display'.at = store /\ display'.seen = seen /\ display'.read = read
      /\ display' = [at |-> store, seen |-> seen, read |-> read]
  BY <1>2
<1>5. loaded.update \in Nat /\ loaded.view \in [1..GainBands -> Nat]
  BY <1>3 DEF Factors
<1>6. was \in [1..GainBands -> Nat]
  BY DEF MeterSound
<1> HIDE DEF loaded, was
<1>7. /\ seen \in [1..GainBands -> Nat]
      /\ \A b \in 1..GainBands : seen[b] >= loaded.view[b] /\ seen[b] >= was[b]
  <2> DEFINE view == loaded.view
  <2>1. view \in [1..GainBands -> Nat] /\ was \in [1..GainBands -> Nat]
    BY <1>5, <1>6
  <2>2. seen = [b \in 1..GainBands |-> IF view[b] > was[b] THEN view[b] ELSE was[b]]
    OBVIOUS
  <2> HIDE DEF view, seen
  <2>3. seen \in [1..GainBands -> Nat]
    BY <2>1, <2>2
  <2>4. ASSUME NEW b \in 1..GainBands PROVE seen[b] >= view[b] /\ seen[b] >= was[b]
    <3>1. view[b] \in Nat /\ was[b] \in Nat
      BY <2>1
    <3>2. seen[b] = IF view[b] > was[b] THEN view[b] ELSE was[b]
      BY <2>2
    <3> QED BY <3>1, <3>2
  <2> QED BY <2>3, <2>4 DEF view
<1> HIDE DEF seen
<1>8. ASSUME NEW b \in 1..GainBands PROVE seen[b] >= loaded.update /\ seen[b] >= was[b]
  <2>1. loaded.view[b] >= loaded.update
    BY <1>3 DEF loaded
  <2>2. loaded.view[b] \in Nat /\ loaded.update \in Nat /\ seen[b] \in Nat
    BY <1>5, <1>7
  <2> QED BY <1>7, <2>1, <2>2
<1>9. ReadSound(old, was) /\ old.again = NotLoaded
  BY <1>1 DEF MeterSound, was
<1>10. old.gains = <<>> /\ Len(old.gains) = 0
  BY <1>9 DEF ReadSound
<1> HIDE DEF old, read
<1>11. ASSUME old.factor = NotLoaded PROVE ReadSound(read, seen)
  <2>1. read = [factor |-> loaded.update, again |-> old.again, gains |-> old.gains]
    BY <1>9, <1>11 DEF ReadSound, read
  <2>2. read.factor = loaded.update /\ read.again = NotLoaded /\ read.gains = <<>>
        /\ read = [factor |-> read.factor, again |-> read.again, gains |-> read.gains]
    BY <1>9, <1>10, <2>1
  <2>3. ReadSound(read, seen)
    BY <1>5, <1>8, <1>9, <1>10, <2>2 DEF ReadSound
  <2> QED BY <2>3
<1>12. ASSUME old.factor # NotLoaded PROVE ReadSound(read, seen)
  <2>1. read = [factor |-> old.factor, again |-> loaded.update, gains |-> old.gains]
    BY <1>9, <1>12 DEF ReadSound, read
  <2>2. read.factor = old.factor /\ read.again = loaded.update /\ read.gains = <<>>
        /\ read = [factor |-> read.factor, again |-> read.again, gains |-> read.gains]
    BY <1>9, <1>10, <2>1
  <2>3. \A b \in 1..GainBands : seen[b] >= read.factor
    <3>1. \A b \in 1..GainBands : was[b] >= old.factor /\ was[b] \in Nat
      BY <1>6, <1>9, <1>12 DEF ReadSound
    <3>2. \A b \in 1..GainBands : seen[b] \in Nat
      BY <1>7
    <3>3. old.factor \in Nat
      BY <1>9, <1>12 DEF ReadSound
    <3> QED BY <1>8, <2>2, <3>1, <3>2, <3>3
  <2>4. ReadSound(read, seen)
    BY <1>5, <1>8, <1>9, <1>10, <1>12, <2>2, <2>3 DEF ReadSound
  <2> QED BY <2>4
<1>13. ReadSound(read, seen)
  BY <1>11, <1>12
<1> QED BY <1>1, <1>3, <1>4, <1>7, <1>13 DEF MeterSound

\* A gain is loaded no older than what was seen.
LEMMA LoadGainSound ==
  ASSUME MeterSound, LoadGain
  PROVE  MeterSound'
<1> DEFINE old == display.read
           b == Len(old.gains) + 1
           was == display.seen
           stored == meter.gains
<1>1. old.again # NotLoaded /\ b <= GainBands /\ UNCHANGED <<meter, meterStore>>
  BY DEF LoadGain
<1>2. PICK gain \in was[b]..stored[b] :
        display' = [display EXCEPT !.seen[b] = gain, !.read.gains = Append(@, gain)]
  BY DEF LoadGain
<1>3. ReadSound(old, was) /\ was \in [1..GainBands -> Nat]
      /\ stored \in [1..GainBands -> Nat]
      /\ display = [at |-> display.at, seen |-> display.seen, read |-> display.read]
  BY DEF MeterSound
<1> HIDE DEF old, was, stored
<1>4. b \in 1..GainBands
  BY <1>1, <1>3 DEF ReadSound
<1>5. gain \in Nat /\ gain >= was[b]
  BY <1>2, <1>3, <1>4
<1> DEFINE seen == [was EXCEPT ![b] = gain]
           read == [old EXCEPT !.gains = Append(old.gains, gain)]
<1>6. display' = [at |-> display.at, seen |-> seen, read |-> read]
  BY <1>2, <1>3 DEF old, was
<1>7. /\ seen \in [1..GainBands -> Nat]
      /\ \A x \in 1..GainBands : seen[x] >= was[x]
  BY <1>3, <1>4, <1>5
<1>8. read = [factor |-> old.factor, again |-> old.again, gains |-> Append(old.gains, gain)]
  <2>1. old = [factor |-> old.factor, again |-> old.again, gains |-> old.gains]
    BY <1>3 DEF ReadSound
  <2> DEFINE gains == Append(old.gains, gain)
  <2> HIDE DEF gains
  <2>2. [old EXCEPT !.gains = gains] = [factor |-> old.factor, again |-> old.again, gains |-> gains]
    BY <2>1
  <2> QED BY <2>2 DEF gains
<1> HIDE DEF seen, read
<1>9. /\ read.factor = old.factor /\ read.again = old.again /\ read.gains = Append(old.gains, gain)
      /\ read = [factor |-> read.factor, again |-> read.again, gains |-> read.gains]
  BY <1>8
<1>10. /\ old.factor \in Nat /\ old.again \in Nat /\ old.gains \in Seq(Nat) /\ old.factor # NotLoaded
       /\ \A x \in 1..GainBands : was[x] >= old.factor /\ was[x] >= old.again
       /\ \A x \in 1..Len(old.gains) : old.gains[x] >= old.factor /\ old.gains[x] >= old.again
  BY <1>1, <1>3 DEF ReadSound
<1>11. gain >= old.factor /\ gain >= old.again
  BY <1>3, <1>4, <1>5, <1>10
<1>12. /\ read.gains \in Seq(Nat) /\ Len(read.gains) = b
       /\ \A x \in 1..Len(read.gains) : read.gains[x] >= old.factor /\ read.gains[x] >= old.again
  BY <1>5, <1>9, <1>10, <1>11
<1>13. \A x \in 1..GainBands : seen[x] >= old.factor /\ seen[x] >= old.again
  <2>1. \A x \in 1..GainBands : seen[x] \in Nat /\ was[x] \in Nat
    BY <1>3, <1>7
  <2> QED BY <1>7, <1>10, <2>1
<1>14. ReadSound(read, seen)
  BY <1>1, <1>4, <1>9, <1>10, <1>12, <1>13 DEF ReadSound
<1> QED BY <1>1, <1>6, <1>7, <1>14 DEF MeterSound

\* The next read starts from what was seen.
LEMMA EndReadSound ==
  ASSUME MeterSound, EndRead
  PROVE  MeterSound'
<1>1. display' = [display EXCEPT !.read = NotRead] /\ UNCHANGED <<meter, meterStore>>
  BY DEF EndRead
<1>2. display' = [at |-> display.at, seen |-> display.seen, read |-> NotRead]
  BY <1>1 DEF MeterSound
<1>3. ReadSound(NotRead, display.seen)
  BY ParameterAssumption DEF NotRead, ReadSound, NotLoaded
<1> QED BY <1>1, <1>2, <1>3 DEF MeterSound

\* The callback's stores: the factor when every gain is in place.
LEMMA StoreSound ==
  ASSUME MeterSound, StoreField
  PROVE  MeterSound'
<1>1. PICK field \in meterStore.left :
        /\ MayStore(field)
        /\ meter' = IF field = 0
                    THEN [meter EXCEPT !.factor = Append(@, [update |-> meterStore.update, view |-> meter.gains])]
                    ELSE [meter EXCEPT !.gains[field] = meterStore.update]
        /\ meterStore' = [meterStore EXCEPT !.left = @ \ {field}]
        /\ UNCHANGED display
  BY DEF StoreField
<1>2. /\ meterStore' = [update |-> meterStore.update, left |-> meterStore.left \ {field}]
      /\ meterStore.update \in Nat /\ field \in 0..GainBands
      /\ meterStore.left \subseteq 0..GainBands
      /\ meter = [factor |-> meter.factor, gains |-> meter.gains]
      /\ meter.factor \in Seq(Factors) /\ meter.gains \in [1..GainBands -> Nat]
      /\ \A i \in 1..Len(meter.factor) : \A b \in 1..GainBands :
           meter.factor[i].view[b] >= meter.factor[i].update
      /\ \A b \in 1..GainBands \ meterStore.left : meter.gains[b] >= meterStore.update
  BY <1>1 DEF MeterSound
<1>3. /\ meterStore'.update = meterStore.update /\ meterStore'.left = meterStore.left \ {field}
      /\ meterStore' = [update |-> meterStore'.update, left |-> meterStore'.left]
  BY <1>2
<1>4. CASE field = 0
  <2> DEFINE newest == [update |-> meterStore.update, view |-> meter.gains]
             factors == Append(meter.factor, newest)
  <2>1. meter' = [factor |-> factors, gains |-> meter.gains]
    BY <1>1, <1>2, <1>4
  <2>2. meterStore.left = {0}
    BY <1>1, <1>4 DEF MayStore
  <2>3. newest \in Factors /\ \A b \in 1..GainBands : newest.view[b] >= newest.update
    BY <1>2, <2>2 DEF Factors
  <2> HIDE DEF newest
  <2>4. /\ factors \in Seq(Factors)
        /\ \A i \in 1..Len(factors) : \A b \in 1..GainBands : factors[i].view[b] >= factors[i].update
    BY <1>2, <2>3
  <2> HIDE DEF factors
  <2>5. meter'.factor = factors /\ meter'.gains = meter.gains
        /\ meter' = [factor |-> meter'.factor, gains |-> meter'.gains]
    BY <2>1
  <2>6. \A b \in 1..GainBands \ meterStore'.left : meter'.gains[b] >= meterStore'.update
    BY <1>2, <1>3, <1>4, <2>5
  <2> QED BY <1>1, <1>2, <1>3, <2>4, <2>5, <2>6 DEF MeterSound
<1>5. CASE field # 0
  <2> DEFINE gains == [meter.gains EXCEPT ![field] = meterStore.update]
  <2>1. meter' = [factor |-> meter.factor, gains |-> gains]
    BY <1>1, <1>2, <1>5
  <2>2. field \in 1..GainBands
    BY <1>2, <1>5, ParameterAssumption
  <2>3. /\ gains \in [1..GainBands -> Nat]
        /\ \A b \in 1..GainBands : gains[b] = IF b = field THEN meterStore.update ELSE meter.gains[b]
    BY <1>2, <2>2
  <2> HIDE DEF gains
  <2>4. meter'.factor = meter.factor /\ meter'.gains = gains
        /\ meter' = [factor |-> meter'.factor, gains |-> meter'.gains]
    BY <2>1
  <2>5. \A b \in 1..GainBands \ meterStore'.left : meter'.gains[b] >= meterStore'.update
    BY <1>2, <1>3, <2>3, <2>4
  <2> QED BY <1>1, <1>2, <1>3, <2>3, <2>4, <2>5 DEF MeterSound
<1> QED BY <1>4, <1>5

\* Every step of the callback and the display keeps this.
LEMMA MeterStep ==
  ASSUME MeterSound, [MeterNext]_meterVars
  PROVE  MeterSound'
<1>1. CASE BeginUpdate
  <2>1. /\ meterStore' = [update |-> meterStore.update + 1, left |-> 0..GainBands]
        /\ UNCHANGED <<meter, display>>
    BY <1>1 DEF BeginUpdate
  <2> QED BY <2>1 DEF MeterSound
<1>2. CASE UNCHANGED meterVars
  BY <1>2 DEF meterVars, MeterSound
<1> QED BY <1>1, <1>2, StoreSound, LoadFactorSound, LoadGainSound, EndReadSound
     DEF MeterNext, ReadTelemetry

\* However setters and stores interleave with each other and with the display, a
\* snapshot holds what each parameter was last given, in its range, and no factor is displayed with
\* gains from before it.  The facade and the telemetry share no variable; either may
\* step at any time.
THEOREM FacadeFaithful ==
  /\ ParametersInit /\ [][ParametersNext]_parameterVars
  /\ MeterInit /\ [][MeterNext]_meterVars
  => []FacadeIsFaithful
<1>1. ParametersInit => FacadeSound
  BY ParametersStart
<1>2. FacadeSound /\ [ParametersNext]_parameterVars => FacadeSound'
  <2> SUFFICES ASSUME FacadeSound, [ParametersNext]_parameterVars PROVE FacadeSound'
    OBVIOUS
  <2>1. CASE UNCHANGED parameterVars
    BY <2>1 DEF parameterVars, FacadeSound
  <2> QED BY <2>1, BuildSound, CallSound, LockSound, PublishSound DEF ParametersNext
<1>3. MeterInit => MeterSound
  <2> SUFFICES ASSUME MeterInit PROVE MeterSound
    OBVIOUS
  <2> DEFINE first == [update |-> 0, view |-> NoGains]
  <2>1. /\ meter = [factor |-> <<first>>, gains |-> NoGains]
        /\ meterStore = [update |-> 0, left |-> {}]
        /\ display = [at |-> 1, seen |-> NoGains, read |-> NotRead]
    BY DEF MeterInit
  <2>2. NoGains \in [1..GainBands -> Nat] /\ \A b \in 1..GainBands : NoGains[b] = 0
    BY DEF NoGains
  <2>3. first \in Factors /\ \A b \in 1..GainBands : first.view[b] >= first.update
    BY <2>2 DEF Factors
  <2> HIDE DEF first
  <2>4. <<first>> \in Seq(Factors) /\ Len(<<first>>) = 1 /\ <<first>>[1] = first
    BY <2>3
  <2>5. ReadSound(NotRead, NoGains)
    BY ParameterAssumption DEF NotRead, ReadSound, NotLoaded
  <2> QED BY <2>1, <2>2, <2>3, <2>4, <2>5 DEF MeterSound
<1>4. MeterSound /\ [MeterNext]_meterVars => MeterSound'
  BY MeterStep
<1>5. FacadeSound /\ MeterSound => FacadeIsFaithful
  <2> SUFFICES ASSUME FacadeSound, MeterSound PROVE FacadeIsFaithful
    OBVIOUS
  <2>1. AcceptedIsApplied
    <3> SUFFICES ASSUME controls # Unbuilt
                 PROVE  /\ \A f \in DOMAIN asked : controls[f] = Stored(stageInUse, f, asked[f])
                        /\ \A f \in Ranged(stageInUse.stage) :
                             controls[f] \in Ranges[stageInUse.stage][f][1]
                                              .. Ranges[stageInUse.stage][f][2]
                        /\ controls.ref # Absent =>
                             controls["listening"] = ClampedLinear(controls.ref)
      BY DEF AcceptedIsApplied
    <3>1. Settings(stageInUse, controls, asked) /\ stageInUse \in Uses
      BY DEF FacadeSound
    <3>2. Ranged(stageInUse.stage) \subseteq FieldsOf(stageInUse.stage)
      BY <3>1, FieldsAre DEF Uses
    <3> QED BY <3>1, <3>2, StoredIn DEF Settings
  <2>2. GainsFollowFactor
    <3> DEFINE gains == display.read.gains
    <3>1. /\ gains \in Seq(Nat)
          /\ \A b \in 1..Len(gains) : gains[b] >= display.read.again /\ gains[b] >= display.read.factor
      BY DEF MeterSound, ReadSound
    <3>2. DOMAIN gains = 1..Len(gains)
      BY <3>1
    <3> QED BY <3>1, <3>2 DEF GainsFollowFactor
  <2> QED BY <2>1, <2>2 DEF FacadeIsFaithful
<1> QED BY <1>1, <1>2, <1>3, <1>4, <1>5, PTL

=============================================================================
