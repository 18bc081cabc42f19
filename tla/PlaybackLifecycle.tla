-------------------------- MODULE PlaybackLifecycle --------------------------
(***************************************************************************)
(* The lifecycle of a playback pipeline: control threads publish reset,     *)
(* drain and stop-with-fade requests in one atomic word, the audio callback *)
(* consumes the newest at a block boundary, fades, drains and settles, and  *)
(* a status reader polls three atomics to learn whether it has.             *)
(*                                                                         *)
(* Every access to a shared atomic is a step of its own.  The chain behind  *)
(* the pipeline does what ChainContract allows it, which is what            *)
(* DspChainFinish shows of the DSP chain.                                   *)
(***************************************************************************)
EXTENDS Naturals

CONSTANTS
  Publishers,     \* threads holding a clone of the controller
  RampFrames,     \* lengths a requested fade converts to, in frames (0: a cut)
  TailFrames,     \* longest tail of the chain
  Blocks,         \* frames of one callback (0: an empty buffer)
  GenModulus,     \* 2^40 in the code: generations that fit the request word
  MaxRequests,    \* bound on publications begun
  Hosts           \* [controllers: the publishers that are alive; calls: whether the
                  \* owner also calls `reset` and `finish_into` itself; faults:
                  \* whether a stage of the chain may fail]

ASSUME LifecycleAssumption ==
  /\ RampFrames \subseteq Nat /\ TailFrames \in Nat /\ Blocks \subseteq Nat
  /\ GenModulus \in Nat \ {0} /\ MaxRequests \in Nat
  /\ Hosts \subseteq [controllers : SUBSET Publishers, calls : BOOLEAN, faults : BOOLEAN]

\* Linear gains, as fractions.
One == [num |-> 1, den |-> 1]
Zero == [num |-> 0, den |-> 1]
Times(g, n, d) == [num |-> g.num * n, den |-> g.den * d]
AtMost(g, h) == g.num * h.den <= h.num * g.den

VARIABLES
  \* who calls the pipeline, and over which chain
  host,
  \* LifecycleChannel
  request, appliedGeneration, stateCell,
  \* publishers: program counter and the word loaded for the exchange
  ppc, observed,
  \* callback: program counter, block size, whether the chain's reset failed
  cbpc, block, resetFailed,
  \* PlaybackPipeline
  seenGeneration, state, fadeRemaining, fadeTotal, fadeBase,
  \* the chain: "open", "finishing", "finished", and tail frames rendered
  chain, emitted,
  \* status reader
  spc, rApplied, rState, rRequested,
  \* history: requests published and consumed, states published since the last
  \* application, loudest gain the next frame may have, whether one exceeded it,
  \* whether the callback ran into a finished chain
  issued, consumed, since, ceiling, rose, refused

channel == <<request, appliedGeneration, stateCell>>
publisher == <<ppc, observed>>
fade == <<fadeRemaining, fadeTotal, fadeBase>>
pipeline == <<seenGeneration, state, fade>>
call == <<cbpc, block, resetFailed>>
chainVars == <<chain, emitted>>
reader == <<spc, rApplied, rState, rRequested>>
output == <<ceiling, rose, refused>>
lifecycleVars == <<host, channel, publisher, call, pipeline, chainVars, reader,
          issued, consumed, since, output>>

NoRequest == [gen |-> 0, kind |-> "none", fade |-> 0]

LifecycleInit ==
  /\ host \in Hosts
  /\ request = NoRequest /\ appliedGeneration = 0 /\ stateCell = "Running"
  /\ ppc = [p \in Publishers |-> "idle"] /\ observed = [p \in Publishers |-> NoRequest]
  /\ cbpc = "idle" /\ block = 0 /\ resetFailed = FALSE
  /\ seenGeneration = 0 /\ state = "Running"
  /\ fadeRemaining = 0 /\ fadeTotal = 0 /\ fadeBase = One
  /\ chain = "open" /\ emitted = 0
  /\ spc = "idle" /\ rApplied = 0 /\ rState = "Running" /\ rRequested = 0
  /\ issued = 0 /\ consumed = 0 /\ since = {"Running"}
  /\ ceiling = One /\ rose = FALSE /\ refused = FALSE

-----------------------------------------------------------------------------
(* Controllers.                                                            *)

\* `request_reset`, `request_drain`, `request_stop_with_fade`
Requests ==
  {[kind |-> "reset", fade |-> 0], [kind |-> "drain", fade |-> 0]}
    \cup {[kind |-> "stop", fade |-> f] : f \in RampFrames}

\* The low 40 bits of the incremented generation reach the word.
Word(g, q) == [gen |-> (g + 1) % GenModulus, kind |-> q.kind, fade |-> q.fade]

publishElse == <<host, appliedGeneration, stateCell, call, pipeline, chainVars, reader, consumed,
                 since, output>>

LoadRequest(p) ==
  /\ p \in host.controllers /\ ppc[p] = "idle" /\ issued < MaxRequests
  /\ ppc' = [ppc EXCEPT ![p] = "exchange"]
  /\ observed' = [observed EXCEPT ![p] = request]
  /\ UNCHANGED <<request, issued, publishElse>>

\* `compare_exchange_weak`: install the word, or reload and try again.
ExchangeRequest(p) ==
  /\ ppc[p] = "exchange"
  /\ \/ /\ request = observed[p]
        /\ \E q \in Requests : request' = Word(request.gen, q)
        /\ issued' = issued + 1
        /\ ppc' = [ppc EXCEPT ![p] = "idle"]
        /\ observed' = [observed EXCEPT ![p] = NoRequest]
     \/ /\ request # observed[p]
        /\ observed' = [observed EXCEPT ![p] = request]
        /\ UNCHANGED <<request, issued, ppc>>
  /\ UNCHANGED publishElse

\* `lifecycle_status`: applied, state, requested, in this order.
ReadStep(from, to) == spc = from /\ spc' = to
statusElse == <<host, channel, publisher, call, pipeline, chainVars, issued, consumed, since, output>>

ReadApplied ==
  /\ ReadStep("idle", "state") /\ rApplied' = appliedGeneration
  /\ UNCHANGED <<rState, rRequested, statusElse>>
ReadState ==
  /\ ReadStep("state", "requested") /\ rState' = stateCell
  /\ UNCHANGED <<rApplied, rRequested, statusElse>>
ReadRequested ==
  /\ ReadStep("requested", "answered")
  /\ rRequested' = IF request.gen >= rApplied THEN request.gen ELSE rApplied
  /\ UNCHANGED <<rApplied, rState, statusElse>>
Answer ==
  /\ ReadStep("answered", "idle")
  /\ rApplied' = 0 /\ rState' = "Running" /\ rRequested' = 0
  /\ UNCHANGED statusElse

-----------------------------------------------------------------------------
(* The chain.                                                              *)

Chain == INSTANCE ChainContract WITH budget <- TailFrames

ResetChain == chain' = "open" /\ emitted' = 0

\* `finish_with_policy` into n > 0 frames, without an error.
FinishChain(n, produced, done) ==
  \/ Chain!Finish(n, produced, done)
  \/ chain = "finished" /\ produced = 0 /\ done /\ UNCHANGED chainVars

\* A finish into an empty block locks the policy all the same.
BeginFinish == Chain!Begin \/ Chain!FinishEmpty
\* A finish in which a stage fails stays begun.
FailChain == host.faults /\ Chain!Begin

-----------------------------------------------------------------------------
(* The callback: consuming a request.                                      *)

KeepFade == UNCHANGED fade
StopGain == IF fadeRemaining > 0 THEN Times(fadeBase, fadeRemaining, fadeTotal) ELSE fadeBase

ApplyReset ==
  /\ fadeRemaining' = 0 /\ fadeTotal' = 0 /\ fadeBase' = One
  /\ state' = "Running"
  /\ ResetChain /\ resetFailed' \in {FALSE, host.faults}
  /\ ceiling' = One

ApplyDrain ==
  /\ state' = IF state = "Idle" THEN "Idle" ELSE "Draining"
  /\ KeepFade /\ UNCHANGED <<chainVars, ceiling, resetFailed>>

\* Mutant: a stop request always enters FadingOut.
BugApplyStop(ramp) ==
  /\ state' = IF state = "Idle" THEN "Idle" ELSE IF ramp = 0 THEN "Draining" ELSE "FadingOut"
  /\ IF state = "Idle" THEN KeepFade
     ELSE /\ fadeBase' = IF ramp = 0 THEN Zero ELSE StopGain
          /\ fadeTotal' = ramp /\ fadeRemaining' = ramp
  /\ UNCHANGED <<chainVars, ceiling, resetFailed>>

\* Mutant: a repeated stop request starts again from full level.
BugStopFromUnity(ramp) ==
  /\ state' = IF state = "Running" /\ ramp > 0 THEN "FadingOut"
              ELSE IF ramp = 0 /\ state # "Idle" THEN "Draining" ELSE state
  /\ IF state = "Idle" THEN KeepFade
     ELSE /\ fadeBase' = IF ramp = 0 THEN Zero ELSE One
          /\ fadeTotal' = ramp /\ fadeRemaining' = ramp
  /\ UNCHANGED <<chainVars, ceiling, resetFailed>>

\* A stop from the gain in effect; a chain already draining is not re-entered.
ApplyStop(ramp) ==
  /\ UNCHANGED <<chainVars, ceiling, resetFailed>>
  /\ \/ state = "Idle" /\ KeepFade /\ UNCHANGED state
     \/ /\ state # "Idle" /\ ramp = 0
        /\ fadeRemaining' = 0 /\ fadeTotal' = 0 /\ fadeBase' = Zero
        /\ state' = "Draining"
     \/ /\ state # "Idle" /\ ramp > 0
        /\ fadeBase' = StopGain /\ fadeTotal' = ramp /\ fadeRemaining' = ramp
        /\ state' = IF state = "Draining" THEN "Draining" ELSE "FadingOut"

callElse == <<host, request, publisher, reader, issued>>

\* Enter `process` with a block of n frames and load the request word.
TakeNothing(n) ==
  /\ cbpc = "idle" /\ request.gen = seenGeneration
  /\ cbpc' = "render" /\ block' = n
  /\ UNCHANGED <<appliedGeneration, stateCell, resetFailed, pipeline, chainVars, consumed,
                 since, output, callElse>>

Apply(q) ==
  \/ q.kind = "reset" /\ ApplyReset
  \/ q.kind = "drain" /\ ApplyDrain
  \/ q.kind = "stop" /\ ApplyStop(q.fade)

\* `consume_lifecycle_request`: any other generation than the seen one is newer.
TakeRequest(n) ==
  /\ cbpc = "idle" /\ request.gen # seenGeneration
  /\ cbpc' = "storeState" /\ block' = n
  /\ seenGeneration' = request.gen /\ consumed' = issued
  /\ Apply(request)
  /\ UNCHANGED <<appliedGeneration, stateCell, since, rose, refused, callElse>>

storeElse == <<block, pipeline, chainVars, consumed, output, callElse>>

\* Mutant: the generation is stored as applied without publishing the state.
BugStoreState ==
  /\ cbpc = "storeState" /\ cbpc' = "storeApplied"
  /\ appliedGeneration' = seenGeneration
  /\ since' = {state}
  /\ UNCHANGED <<stateCell, resetFailed, storeElse>>

\* `publish_lifecycle_state`, then the applied generation.
StoreState ==
  /\ cbpc = "storeState" /\ cbpc' = "storeApplied"
  /\ stateCell' = state /\ since' = {state}
  /\ UNCHANGED <<appliedGeneration, resetFailed, storeElse>>
StoreApplied ==
  /\ cbpc = "storeApplied"
  /\ appliedGeneration' = seenGeneration
  /\ cbpc' = IF resetFailed THEN "idle" ELSE "render"
  /\ resetFailed' = FALSE
  /\ UNCHANGED <<stateCell, since, storeElse>>

-----------------------------------------------------------------------------
(* The callback: rendering one block.                                      *)

\* The block is heard from gain `first` to gain `last`.
Hear(first, last) ==
  /\ rose' = (rose \/ ~AtMost(first, ceiling) \/ ~AtMost(last, first))
  /\ ceiling' = last

\* The gain of frame i of the block under the ramp.
RampGain(i) ==
  IF i < fadeRemaining THEN Times(fadeBase, fadeRemaining - i, fadeTotal) ELSE Zero

\* The ramp after n frames; at its end the gain is pinned to silence.
AdvanceFade(n) ==
  /\ fadeRemaining' = IF n >= fadeRemaining THEN 0 ELSE fadeRemaining - n
  /\ fadeBase' = IF n >= fadeRemaining THEN Zero ELSE fadeBase
  /\ UNCHANGED fadeTotal

Done(label) == cbpc' = label /\ UNCHANGED <<resetFailed, block>>
renderElse == <<appliedGeneration, stateCell, seenGeneration, consumed, since, callElse>>

\* `process` of the chain refuses a stream whose finish has begun.
ChainRefuses ==
  /\ cbpc = "render" /\ state \in {"Running", "FadingOut"} /\ chain # "open"
  /\ refused' = TRUE
  /\ Done("idle")
  /\ UNCHANGED <<state, fade, chainVars, ceiling, rose, renderElse>>

\* A stage fails while processing: the caller gets the error.
ChainFails ==
  /\ cbpc = "render" /\ state \in {"Running", "FadingOut"} /\ chain = "open" /\ host.faults
  /\ Done("idle")
  /\ UNCHANGED <<state, fade, chainVars, output, renderElse>>

RenderRunning ==
  /\ cbpc = "render" /\ state = "Running" /\ chain = "open"
  /\ IF block > 0 THEN Hear(One, One) ELSE UNCHANGED <<ceiling, rose>>
  /\ Done("idle")
  /\ UNCHANGED <<state, fade, chainVars, refused, renderElse>>

\* Mutant: the end of the ramp does not start the drain.
BugRenderFading ==
  /\ cbpc = "render" /\ state = "FadingOut" /\ chain = "open"
  /\ IF block > 0 THEN Hear(RampGain(1), RampGain(block)) ELSE UNCHANGED <<ceiling, rose>>
  /\ AdvanceFade(block)
  /\ Done("idle")
  /\ UNCHANGED <<state, chainVars, refused, renderElse>>

RenderFading ==
  /\ cbpc = "render" /\ state = "FadingOut" /\ chain = "open"
  /\ IF block > 0 THEN Hear(RampGain(1), RampGain(block)) ELSE UNCHANGED <<ceiling, rose>>
  /\ AdvanceFade(block)
  /\ IF fadeRemaining' = 0 THEN state' = "Draining" /\ Done("publishState")
     ELSE UNCHANGED state /\ Done("idle")
  /\ UNCHANGED <<chainVars, refused, renderElse>>

\* The drained frames under the stop gain; silence fills the rest.
HearDrained(produced) ==
  LET last(g) == IF produced < block THEN Zero ELSE g
  IN \/ /\ fadeRemaining > 0 /\ AdvanceFade(block)
        /\ IF produced > 0 THEN Hear(RampGain(1), last(RampGain(produced)))
           ELSE Hear(Zero, Zero)
     \/ /\ fadeRemaining = 0 /\ KeepFade
        /\ LET gain == IF fadeBase = Zero THEN Zero ELSE One
           IN IF produced > 0 THEN Hear(gain, last(gain)) ELSE Hear(Zero, Zero)

RenderDraining ==
  /\ cbpc = "render" /\ state = "Draining" /\ block > 0
  /\ \E produced \in 0 .. block, done \in BOOLEAN :
       /\ FinishChain(block, produced, done)
       /\ HearDrained(produced)
       /\ IF done THEN state' = "Idle" /\ Done("publishState")
          ELSE UNCHANGED state /\ Done("idle")
  /\ UNCHANGED <<refused, renderElse>>

\* An empty buffer, or a stage failing in `finish`.
DrainNothing ==
  /\ cbpc = "render" /\ state = "Draining"
  /\ \/ block = 0 /\ UNCHANGED chainVars
     \/ block > 0 /\ FailChain
  /\ Done("idle")
  /\ UNCHANGED <<state, fade, output, renderElse>>

RenderIdle ==
  /\ cbpc = "render" /\ state = "Idle"
  /\ IF block > 0 THEN Hear(Zero, Zero) ELSE UNCHANGED <<ceiling, rose>>
  /\ Done("idle")
  /\ UNCHANGED <<state, fade, chainVars, refused, renderElse>>

PublishState ==
  /\ cbpc = "publishState" /\ cbpc' = "idle"
  /\ stateCell' = state /\ since' = since \cup {state}
  /\ UNCHANGED <<appliedGeneration, resetFailed, storeElse>>

-----------------------------------------------------------------------------
(* The owner of the pipeline outside a callback.                           *)

\* `reset`: a pending request stays pending.
Reset ==
  /\ host.calls /\ cbpc = "idle"
  /\ ApplyReset
  /\ stateCell' = "Running" /\ since' = since \cup {"Running"}
  /\ cbpc' = IF resetFailed' THEN "failed" ELSE "idle"
  /\ UNCHANGED <<appliedGeneration, block, seenGeneration, consumed, rose, refused, callElse>>

\* `reset` returns the error of a stage after resetting every stage.
ResetFailed ==
  /\ cbpc = "failed" /\ cbpc' = "idle" /\ resetFailed' = FALSE
  /\ UNCHANGED <<appliedGeneration, stateCell, since, storeElse>>

\* `finish_into_with_policy`: the lifecycle state is left alone.
FinishInto ==
  /\ host.calls /\ cbpc = "idle"
  /\ \E n \in Blocks :
       \/ n = 0 /\ BeginFinish
       \/ n > 0 /\ FailChain
       \/ n > 0 /\ \E produced \in 0 .. n, done \in BOOLEAN : FinishChain(n, produced, done)
  /\ UNCHANGED <<appliedGeneration, stateCell, call, pipeline, consumed, since, output,
                 callElse>>

Render ==
  \/ ChainRefuses \/ ChainFails \/ RenderRunning \/ RenderFading
  \/ RenderDraining \/ DrainNothing \/ RenderIdle
FinishCall == StoreState \/ StoreApplied \/ Render \/ PublishState \/ ResetFailed

LifecycleNext ==
  \/ \E p \in Publishers : LoadRequest(p) \/ ExchangeRequest(p)
  \/ \E n \in Blocks : TakeNothing(n) \/ TakeRequest(n)
  \/ FinishCall
  \/ Reset \/ FinishInto
  \/ ReadApplied \/ ReadState \/ ReadRequested \/ Answer

LifecycleSpec == LifecycleInit /\ [][LifecycleNext]_lifecycleVars

\* A begun call returns, and the device keeps asking for non-empty blocks.
LifecycleFairSpec ==
  /\ LifecycleSpec
  /\ WF_lifecycleVars(FinishCall)
  /\ \A p \in Publishers : WF_lifecycleVars(ExchangeRequest(p))
  /\ SF_lifecycleVars(\E n \in Blocks \ {0} : TakeNothing(n) \/ TakeRequest(n))

-----------------------------------------------------------------------------
(* Properties.                                                             *)

\* Once a stop fade began nothing gets louder, across repeated stops, drains,
\* the flushed tail and idle silence, until the stream is reset.
FadeNeverRises == ~rose

\* Without offline finishing, the callback never hands a block to a chain whose
\* finish has begun: no `AlreadyFinished` reaches the audio thread.
NeverRefused == host.calls \/ ~refused

\* A status that claims to be settled was read when every published request had
\* been consumed, and shows a state the callback reached after the newest one.
SettledIsTruthful ==
  [][spc = "requested" /\ spc' = "answered" /\ rApplied = rRequested'
       => consumed = issued /\ rState \in since]_spc

\* Every published request is superseded or applied, and the status shows it.  A
\* drain or a stop that nothing supersedes, a reset by the owner included, ends in
\* Idle and shows it, if the chain does not fail for ever.
RequestsSettle ==
  /\ <>[](issued = consumed /\ appliedGeneration = request.gen)
  /\ ~host.calls /\ ~host.faults /\ <>[](request.kind \in {"drain", "stop"})
       => <>[](stateCell = "Idle" /\ state = "Idle")
=============================================================================
