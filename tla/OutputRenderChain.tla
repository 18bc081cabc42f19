------------------------- MODULE OutputRenderChain -------------------------
(***************************************************************************)
(* Offline rendering: `OutputRenderChain::render_with_policy_and_block_     *)
(* frames` feeds a programme through the source stages, the rate boundary,  *)
(* the limiter and the noise shaper, then drains every source stage, the    *)
(* resampler and the limiter, each within a limit computed from one         *)
(* snapshot of the declared latencies and tails, and cuts a tail of unknown *)
(* length by energy, hold and cap.                                          *)
(*                                                                         *)
(* One step is one round of one of its loops.  A frame is a position in the *)
(* output; the signal decides only which positions are loud.                *)
(***************************************************************************)
EXTENDS Integers, Sequences

CONSTANTS
  Chains,       \* sequences of source stages, see SourceStage
  Ratios,       \* rates <<source, output>>
  Programmes,   \* lengths of the programme, in frames at the source rate
  Hold, MaxTail,\* UnknownTailPolicy, in frames of a rate of 1
  Limiters,     \* look-ahead of the limiter at the output rate, 0: disabled
  Loudness,     \* sets of loud output positions
  Blocks,       \* block_frames of a render
  DefaultBlock, \* DEFAULT_OFFLINE_BLOCK_FRAMES
  Lookahead,    \* source frames a resampler retains until its finish
  LiveStages    \* what a source stage may become while a render runs

Endless == -1

\* latency and tail as declared, the tail Endless when Unknown or Infinite.
SourceStage == [latency : Nat, tail : Nat \cup {Endless}]

ASSUME RenderAssumption ==
  /\ Chains \subseteq Seq(SourceStage) /\ LiveStages \subseteq SourceStage
  /\ Ratios \subseteq (Nat \ {0}) \X (Nat \ {0})
  /\ Programmes \subseteq Nat /\ Lookahead \in Nat /\ DefaultBlock \in Nat \ {0}
  /\ Hold \in Nat \ {0} /\ MaxTail \in Nat /\ Hold <= MaxTail
  /\ Limiters \subseteq Nat /\ Blocks \subseteq Nat \ {0}
  /\ Loudness \subseteq SUBSET Nat

VARIABLES
  setup,        \* rates of this chain, length and loudness of the signal
  actual,       \* its source stages and limiter as their parameters have them
  timing,       \* the same as the running render took them
  phase,        \* loop the render is in, "idle" outside of one
  block, fed,   \* block size and source frames fed
  drain,        \* the source stage being drained
  boundary,     \* RateBoundary
  direct,       \* what `process_pre_quantize` met and did since the last reset
  collector,    \* OutputBlockCollector with its TailObservation
  \* history: last render failed, parameters changed in it, its source budget
  \* ran out, frames the resampler held when the observation began, and the
  \* result for every block size
  failed, changed, ranOut, held, results

outcomes == <<failed, changed, ranOut, held, results>>
renderVars ==
  <<setup, actual, timing, phase, block, fed, drain, boundary, direct, collector, outcomes>>

Lesser(a, b) == IF a <= b THEN a ELSE b
Greater(a, b) == IF a >= b THEN a ELSE b
CeilDiv(a, b) == (a + b - 1) \div b
MaxSet(S) == CHOOSE x \in S : \A y \in S : y <= x
MinSet(S) == CHOOSE x \in S : \A y \in S : x <= y
\* The sums of the first numbers of a list of n.
AddUp(f, n) == LET sum[k \in 0 .. n] == IF k = 0 THEN 0 ELSE sum[k - 1] + f[k] IN sum

SourceRate == setup.rates[1]
OutputRate == setup.rates[2]
Programme == setup.programme
Resampled == SourceRate # OutputRate
Unknown(s) == s.tail = Endless
Stages == timing.stages

\* Frames at the source rate, as frames at the output rate.
CeilOut(n) == CeilDiv(n * OutputRate, SourceRate)
NearestOut(n) == (2 * n * OutputRate + SourceRate) \div (2 * SourceRate)

-----------------------------------------------------------------------------
(* The collector: limiter, observation, noise shaper.                      *)

NoObservation ==
  [active |-> FALSE, protected |-> 0, generated |-> 0, below |-> 0,
   stopped |-> FALSE, capped |-> FALSE]

\* out: frames kept.
NewCollector == [obs |-> NoObservation, out |-> 0, truncated |-> FALSE]

\* Mutant: the detector starts anew with every block.
BugObserve(o, position, n) ==
  LET passed == Lesser(n, o.protected)
      first == position + passed
      allowed == Lesser(n - passed, Greater(MaxTail * OutputRate - o.generated, 0))
      quiet == \A j \in 0 .. allowed - 1 : first + j \notin setup.loud
      found == quiet /\ allowed >= Hold * OutputRate
      generated == o.generated + allowed
  IN [obs |-> [o EXCEPT !.protected = @ - passed, !.generated = generated,
                        !.stopped = found \/ generated >= MaxTail * OutputRate,
                        !.capped = ~found /\ generated >= MaxTail * OutputRate],
      out |-> IF found THEN first ELSE first + allowed]

\* The detector: how long it has been quiet after k more frames from `first` on, and
\* at which of them a silence had held.
SilentFor(o, first, k) ==
  LET loud == {j \in 1 .. k : first + j - 1 \in setup.loud}
  IN IF loud = {} THEN o.below + k ELSE k - MaxSet(loud)
Silences(o, first, n) == {k \in 1 .. n : SilentFor(o, first, k) >= Hold * OutputRate}

\* `observe`: of n frames from `position` on, those that are protected pass, the
\* others are counted and searched for a silence that held.
ObserveFrames(o, position, n) ==
  LET max == MaxTail * OutputRate
      passed == Lesser(n, o.protected)
      first == position + passed
      allowed == Lesser(n - passed, Greater(max - o.generated, 0))
      silences == Silences(o, first, allowed)
      generated == o.generated + allowed
  IN [obs |-> [o EXCEPT !.protected = @ - passed, !.generated = generated,
                        !.below = IF allowed = 0 THEN @ ELSE SilentFor(o, first, allowed),
                        !.stopped = silences # {} \/ generated >= max,
                        !.capped = silences = {} /\ generated >= max],
      out |-> IF silences = {} THEN first + allowed
              ELSE first + MinSet(silences) - SilentFor(o, first, MinSet(silences))]

\* Mutant: every frame of the drain is observed, the latency not excepted.
BugCollect(c, n) ==
  IF c.obs.stopped THEN c
  ELSE IF ~c.obs.active THEN [c EXCEPT !.out = @ + n]
  ELSE LET o == ObserveFrames([c.obs EXCEPT !.protected = 0], c.out, n)
       IN [c EXCEPT !.obs = o.obs, !.out = o.out]

\* n frames past the limiter, whose first frames are its own delay.
Collect(c, n) ==
  IF c.obs.stopped THEN c
  ELSE IF ~c.obs.active THEN [c EXCEPT !.out = @ + n]
  ELSE LET o == ObserveFrames(c.obs, c.out, n)
       IN [c EXCEPT !.obs = o.obs, !.out = o.out]

Stopped == collector.obs.stopped

-----------------------------------------------------------------------------
(* The rate boundary.                                                      *)

\* What a resampler has rendered of `seen` source frames before its finish.
Rendered(seen) == NearestOut(Greater(seen - Lookahead, 0))

\* n source frames into the boundary.  A stopped observation takes none; where
\* in the block it stops does not matter, as nothing after it is collected.
Push(n) ==
  LET seen == IF Stopped \/ ~Resampled THEN boundary.seen ELSE boundary.seen + n
      m == IF Resampled THEN Rendered(seen) - Rendered(boundary.seen) ELSE n
  IN /\ boundary' = [boundary EXCEPT !.seen = seen]
     /\ collector' = Collect(collector, m)

-----------------------------------------------------------------------------
(* One render.                                                             *)

NoDrain == [stage |-> 0, generated |-> 0, limit |-> 0, left |-> 0,
            started |-> FALSE, terminal |-> FALSE, open |-> FALSE]

NewBoundary == [seen |-> 0, generated |-> 0]
NotDriven == [ended |-> FALSE, driven |-> FALSE, calls |-> 0, fed |-> 0, out |-> 0, answer |-> "none"]

RenderInit ==
  /\ setup \in [rates : Ratios, programme : Programmes, loud : Loudness]
  /\ \E chain \in Chains, limiter \in Limiters :
       actual = [stages |-> chain, limiter |-> limiter]
  /\ timing = actual /\ phase = "idle" /\ block = 0 /\ fed = 0
  /\ drain = NoDrain /\ boundary = NewBoundary
  /\ direct = NotDriven /\ collector = NewCollector
  /\ failed = FALSE /\ changed = FALSE /\ ranOut = FALSE /\ held = 0
  /\ results = << >>

\* `reset_for_render`: every stage but the quantizer, the rate boundary among them.
ResetForRender ==
  /\ direct' = NotDriven /\ boundary' = NewBoundary

\* Reset, publish the parameters with a zero-frame block, reset again, and only
\* then read the timings.
StartRender(n) ==
  /\ phase = "idle"
  /\ phase' = "feed" /\ block' = n /\ fed' = 0
  /\ timing' = actual
  /\ drain' = NoDrain /\ ResetForRender
  /\ collector' = NewCollector
  /\ failed' = FALSE /\ changed' = FALSE /\ ranOut' = FALSE /\ held' = 0
  /\ UNCHANGED <<setup, actual, results>>

Feed ==
  /\ phase = "feed" /\ fed < Programme
  /\ LET n == Lesser(block, Programme - fed)
     IN fed' = fed + n /\ Push(n)
  /\ UNCHANGED <<setup, actual, timing, phase, block, drain, direct, outcomes>>

\* What the stages declare, added up from the first one on.
Latencies == AddUp([j \in 1 .. Len(Stages) |-> Stages[j].latency], Len(Stages))
Tails == AddUp([j \in 1 .. Len(Stages) |-> Greater(Stages[j].tail, 0)], Len(Stages))
Declared(k) == Latencies[k] + Tails[k]
All == Len(Stages)

\* `protected_output_frames`: what the stages from i on still owe when the tail
\* of stage i begins, rounded up once for the whole sum.
ProtectedFrames(i) == CeilOut(Declared(All) - Declared(i - 1)) + timing.limiter

\* `source_finish_frame_limit`, at the source rate.
SourceLimit(i) ==
  LET s == Stages[i]
  IN IF Unknown(s)
     THEN MaxTail * SourceRate + CeilDiv(ProtectedFrames(i) * SourceRate, OutputRate) + block
     ELSE Greater(s.latency + s.tail + block, 1)

DrainingStage == phase = "drain" /\ drain.stage \in 1 .. Len(Stages)

BeginDrain ==
  /\ phase = "feed" /\ fed = Programme
  /\ phase' = "drain" /\ drain' = [NoDrain EXCEPT !.stage = 1]
  /\ direct' = [direct EXCEPT !.ended = TRUE]
  /\ UNCHANGED <<setup, actual, timing, block, fed, boundary, collector, outcomes>>

NextStage == drain' = [NoDrain EXCEPT !.stage = drain.stage + 1]

\* An observation that has stopped discards whatever an unknown tail renders.
SkipStage ==
  /\ DrainingStage /\ ~drain.open
  /\ Unknown(Stages[drain.stage]) /\ Stopped
  /\ NextStage
  /\ UNCHANGED <<setup, actual, timing, phase, block, fed, boundary, direct, collector, outcomes>>

\* The first unknown tail begins an observation; a later one falls under it.
BeginStage ==
  /\ DrainingStage /\ ~drain.open
  /\ LET i == drain.stage
         s == Stages[i]
         starts == Unknown(s) /\ ~collector.obs.active
     IN /\ ~(Unknown(s) /\ Stopped)
        /\ drain' = [drain EXCEPT !.open = TRUE, !.started = starts,
                       !.limit = SourceLimit(i),
                       !.left = LET now == actual.stages[i]
                                IN IF Unknown(now) THEN Endless ELSE now.latency + now.tail]
        /\ collector' = IF starts
                        THEN [collector EXCEPT !.obs = [NoObservation EXCEPT
                                !.active = TRUE, !.protected = ProtectedFrames(i)]]
                        ELSE collector
        /\ held' = IF starts /\ Resampled
                   THEN NearestOut(boundary.seen) - Rendered(boundary.seen) ELSE held
  /\ UNCHANGED <<setup, actual, timing, phase, block, fed, boundary, direct, failed, changed,
                 ranOut, results>>

Halted == Unknown(Stages[drain.stage]) /\ Stopped

\* Mutant: the rounds of a stage are not counted against its limit.
BugFinishSource ==
  /\ DrainingStage /\ drain.open /\ ~drain.terminal /\ ~Halted
  /\ drain.generated < drain.limit
  /\ LET n == IF drain.left = Endless THEN block ELSE Lesser(block, drain.left)
     IN /\ Push(n)
        /\ drain' = IF drain.left = Endless THEN drain
                    ELSE [drain EXCEPT !.left = @ - n, !.terminal = drain.left = n]
  /\ UNCHANGED <<setup, actual, timing, phase, block, fed, direct, outcomes>>

\* One finish call, what it rendered pushed through the later stages.
FinishSource ==
  /\ DrainingStage /\ drain.open /\ ~drain.terminal /\ ~Halted
  /\ drain.generated < drain.limit
  /\ LET capacity == Lesser(block, drain.limit - drain.generated)
         n == IF drain.left = Endless THEN capacity ELSE Lesser(capacity, drain.left)
         left == IF drain.left = Endless THEN Endless ELSE drain.left - n
     IN /\ Push(n)
        /\ drain' = [drain EXCEPT !.generated = @ + n, !.left = left, !.terminal = left = 0]
  /\ UNCHANGED <<setup, actual, timing, phase, block, fed, direct, outcomes>>

ExhaustedUnknown ==
  Unknown(Stages[drain.stage]) /\ ~drain.terminal /\ ~Halted

FailRender ==
  /\ failed' = TRUE /\ phase' = "idle"
  /\ drain' = NoDrain /\ UNCHANGED <<collector, ranOut>>

\* The end of the loop of a stage.
EndStage ==
  /\ DrainingStage /\ drain.open
  /\ drain.terminal \/ Halted \/ drain.generated >= drain.limit
  /\ IF ~drain.terminal /\ ~Unknown(Stages[drain.stage]) THEN FailRender
     ELSE /\ NextStage
          /\ ranOut' = (ranOut \/ ExhaustedUnknown)
          /\ collector' =
               IF ExhaustedUnknown THEN [collector EXCEPT !.truncated = TRUE]
               ELSE IF drain.started /\ drain.terminal /\ ~Stopped
               THEN [collector EXCEPT !.obs = NoObservation,
                                      !.truncated = @ \/ collector.obs.capped]
               ELSE collector
          /\ UNCHANGED <<phase, failed>>
  /\ UNCHANGED <<setup, actual, timing, block, fed, boundary, direct, changed, held, results>>

\* `finish_frame_limit` of what ends after `seen` output frames and a delay.
FinishFrameLimit(seen, latency) == Greater(seen + latency + block, 1)

\* The resampler ends with what it holds of the frames it has seen.
BoundaryLimit == FinishFrameLimit(CeilOut(boundary.seen), 0)

EndDrain ==
  /\ phase = "drain" /\ drain.stage > Len(Stages)
  /\ drain' = NoDrain
  /\ phase' = IF Resampled THEN "boundary" ELSE "limiter"
  /\ boundary' = [boundary EXCEPT !.generated = 0]
  /\ UNCHANGED <<setup, actual, timing, block, fed, direct, collector, outcomes>>

\* A resampler ends with a block it cannot fill.
FinishBoundary ==
  /\ phase = "boundary"
  /\ LET limit == BoundaryLimit
         capacity == Lesser(block, limit - boundary.generated)
         left == NearestOut(boundary.seen) - Rendered(boundary.seen) - boundary.generated
         n == Lesser(capacity, left)
     IN IF boundary.generated >= limit THEN FailRender /\ UNCHANGED boundary
        ELSE /\ collector' = Collect(collector, n)
             /\ phase' = IF n < capacity THEN "limiter" ELSE "boundary"
             /\ boundary' = [boundary EXCEPT !.generated = IF n < capacity THEN 0 ELSE @ + n]
             /\ UNCHANGED <<drain, failed, ranOut>>
  /\ UNCHANGED <<setup, actual, timing, block, fed, direct, changed, held, results>>

\* `into_output`: an observation still open ends, and says whether it was capped.
Result(c) ==
  [frames |-> c.out, truncated |-> c.truncated \/ c.obs.capped, ranOut |-> ranOut]

FinishLimiter ==
  /\ phase = "limiter"
  /\ LET limit == FinishFrameLimit(0, timing.limiter)
         capacity == Lesser(block, limit - boundary.generated)
         n == Lesser(capacity, actual.limiter - boundary.generated)
         done == boundary.generated + n = actual.limiter
         after == Collect(collector, n)
     IN IF boundary.generated >= limit THEN FailRender /\ UNCHANGED <<boundary, results>>
        ELSE /\ phase' = IF done THEN "idle" ELSE "limiter"
             /\ boundary' = [boundary EXCEPT !.generated = @ + n]
             /\ collector' = IF done THEN [after EXCEPT !.truncated = Result(after).truncated]
                             ELSE after
             /\ results' = IF done /\ ~changed
                           THEN [b \in DOMAIN results \cup {block} |->
                                   IF b = block THEN Result(after) ELSE results[b]]
                           ELSE results
             /\ UNCHANGED <<drain, failed, ranOut>>
  /\ UNCHANGED <<setup, actual, timing, block, fed, direct, changed, held>>

\* A stage that processes a block reads the parameters published since: the
\* limiter whenever a block reaches it, a source stage until its own finish.
\* Results of renders with other parameters are not compared.
ParametersChange ==
  /\ phase \in {"feed", "drain"} /\ ~changed
  /\ \/ \E i \in drain.stage + 1 .. Len(Stages), s \in LiveStages :
          /\ actual.stages[i] # s
          /\ actual' = [actual EXCEPT !.stages[i] = s]
     \/ \E n \in Limiters \ {actual.limiter} :
          LiveStages # {} /\ actual' = [actual EXCEPT !.limiter = n]
  /\ changed' = TRUE /\ results' = << >>
  /\ UNCHANGED <<setup, timing, phase, block, fed, drain, boundary, direct, collector,
                 failed, ranOut, held>>

\* `process_pre_quantize` of one buffer (bound: two of them between resets).  The
\* stages take it in place and keep what they delay; a rate boundary is driven to its
\* end, within a limit, so that it takes no second one.  The first stage refuses after
\* its finish, the rate boundary after its own: the stages before it have moved on.
DriveBoundary(n) ==
  LET owed == NearestOut(n) - Rendered(n)
  IN IF direct.driven /\ n > 0 THEN "refused"
     ELSE IF ~direct.driven /\ owed >= CeilOut(n) + DefaultBlock THEN "exceeded"
     ELSE "ok"

ProcessPreQuantize ==
  /\ phase = "idle" /\ direct.calls < 2
  /\ \E n \in {0, Programme} :
       LET answer == IF direct.ended THEN "refused"
                     ELSE IF Resampled THEN DriveBoundary(n) ELSE "ok"
       IN /\ direct' = [direct EXCEPT
                !.calls = @ + 1, !.answer = answer, !.driven = @ \/ (Resampled /\ ~direct.ended),
                !.fed = IF answer = "ok" THEN @ + n ELSE @,
                !.out = IF answer = "ok" THEN @ + (IF Resampled THEN NearestOut(n) ELSE n) ELSE @]
          /\ boundary' = [boundary EXCEPT !.seen = IF Resampled /\ answer = "ok" THEN @ + n ELSE @]
  /\ UNCHANGED <<setup, actual, timing, phase, block, fed, drain, collector, outcomes>>

Render ==
  \/ Feed \/ BeginDrain \/ SkipStage \/ BeginStage \/ FinishSource \/ EndStage
  \/ EndDrain \/ FinishBoundary \/ FinishLimiter

RenderNext == (\E n \in Blocks : StartRender(n)) \/ Render \/ ParametersChange \/ ProcessPreQuantize

RenderSpec == RenderInit /\ [][RenderNext]_renderVars
FairRenderSpec == RenderSpec /\ WF_renderVars(Render)

-----------------------------------------------------------------------------
(* Properties.                                                             *)

Rendering == phase # "idle"
Done == ~Rendering /\ block # 0 /\ ~failed

Owed == NearestOut(Programme + Declared(All)) + timing.limiter

LatencyFrames == NearestOut(Latencies[All]) + timing.limiter

\* `RenderTimeline::Compensated`: the declared latency is cut off the front.
Compensated == collector.out - Lesser(LatencyFrames, collector.out)

\* The energy policy may cut a tail of unknown length and nothing else: the
\* programme, every declared latency and every finite tail are in the output, but
\* for the frames the resampler held back when the observation began.  And every
\* finish limit is large enough: a render fails with "exceeded its safety bound" only
\* if parameters changed after the limits were computed.  A compensated render loses
\* nothing else but a frame of rounding.  Before quantization a buffer that is not
\* refused comes out whole.
RenderKeepsProgramme ==
  /\ failed => changed
  /\ Done /\ ~changed =>
       /\ collector.out + held >= Owed
       /\ Compensated + held + 1 >= NearestOut(Programme + Tails[All])
  /\ direct.out = (IF Resampled THEN NearestOut(direct.fed) ELSE direct.fed)
  /\ direct.answer # "exceeded"

\* A render that does not report truncation cut a tail only where the signal was
\* silent for the hold; one that does, and had budget, was loud up to the cap.  The
\* rendered frames do not depend on the block size, and neither does the report
\* unless a source stage used up its budget while the resampler still held the frames
\* that decide.
ReportIsTruthful ==
  /\ Done /\ collector.obs.active =>
       LET o == collector.obs
       IN IF collector.truncated
          THEN ranOut \/ o.generated = MaxTail * OutputRate
          ELSE \A k \in 0 .. Hold * OutputRate - 1 : (collector.out + k) \notin setup.loud
  /\ \A a, b \in DOMAIN results :
       /\ results[a].frames = results[b].frames
       /\ ~results[a].ranOut /\ ~results[b].ranOut => results[a] = results[b]

\* Every render ends, whatever the tails do.
RenderEnds == Rendering ~> ~Rendering
=============================================================================
