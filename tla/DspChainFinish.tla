--------------------------- MODULE DspChainFinish ---------------------------
(***************************************************************************)
(* The end of a stream in `DspChain`: `finish_with_policy` drains the       *)
(* stages one after another into the caller's blocks, pushes what a stage   *)
(* renders through the stages after it, and decides when a tail of unknown  *)
(* length is over, by an energy threshold, a silence hold and a hard cap.   *)
(*                                                                         *)
(* One step is one round of its loop.  A frame is loud or silent; of a      *)
(* segment only the run of silent frames at its end matters.                *)
(***************************************************************************)
EXTENDS Naturals, Sequences, FiniteSets

CONSTANTS
  Kinds,         \* stages that may be added, see Stage
  MaxStages,     \* bound on the length of the chain
  Policies,      \* finish policies, [hold, max] in frames
  Capacities,    \* frames of a block given to `finish`
  MaxFailures    \* bound on failing stage calls

\* What a processor declares: latency and finite tail, whether its tail is of
\* unknown length ("switched": as its parameters have it), and whether it adds
\* energy of its own that must not be taken for a tail (a barrier).
Stage ==
  [latency : Nat, tail : Nat, asymptotic : {"never", "always", "switched"}, barrier : BOOLEAN]

ASSUME ChainAssumption ==
  /\ Kinds \subseteq Stage /\ MaxStages \in Nat
  /\ Policies \subseteq [hold : Nat \ {0}, max : Nat] /\ Policies # {}
  /\ \A p \in Policies : p.hold <= p.max
  /\ \E p \in Policies : \A q \in Policies : q.max <= p.max
  /\ Capacities \subseteq Nat /\ MaxFailures \in Nat

VARIABLES
  \* the stages, which of them report an unknown tail, which began to finish,
  \* and of the one finishing: frames left and whether it returned its end
  stages, unknown, begun, left, ended,
  \* DspChain; stage and observationEnd count from 1, 0 is `None`
  stage, complete, policy, unknownStage, observationEnd, protected, quiet, generated, capped,
  \* the finish call in progress
  pc, capacity, produced,
  \* history: frames delivered, frames rendered by the finish of each stage,
  \* stages ended by the policy, stages processed after their finish began
  emitted, drained, cut, tripped, failures

config == <<stages>>
lifecycles == <<unknown, begun, left, ended>>
observation == <<unknownStage, observationEnd, protected, quiet, generated>>
finish == <<stage, complete, policy, capped>>
call == <<pc, capacity, produced>>
history == <<emitted, drained, cut, tripped, failures>>
vars == <<config, lifecycles, observation, finish, call, history>>

NoPolicy == [hold |-> 0, max |-> 0]
Smaller(a, b) == IF a <= b THEN a ELSE b
Less(a, b) == IF a >= b THEN a - b ELSE 0
Switched == {i \in 1 .. Len(stages) : stages[i].asymptotic = "switched"}
Last == Len(stages)

\* The state of a stream that has not begun to finish.
Rearmed ==
  /\ begun' = {} /\ left' = 0 /\ ended' = FALSE
  /\ stage' = 1 /\ complete' = FALSE /\ policy' = NoPolicy /\ capped' = FALSE
  /\ unknownStage' = 0 /\ observationEnd' = 0
  /\ protected' = 0 /\ quiet' = 0 /\ generated' = 0
  /\ emitted' = 0 /\ drained' = [i \in 1 .. MaxStages |-> 0] /\ cut' = {}

Init ==
  /\ stages = << >> /\ unknown = {} /\ begun = {} /\ left = 0 /\ ended = FALSE
  /\ stage = 1 /\ complete = FALSE /\ policy = NoPolicy /\ capped = FALSE
  /\ unknownStage = 0 /\ observationEnd = 0
  /\ protected = 0 /\ quiet = 0 /\ generated = 0
  /\ pc = "idle" /\ capacity = 0 /\ produced = 0
  /\ emitted = 0 /\ drained = [i \in 1 .. MaxStages |-> 0] /\ cut = {}
  /\ tripped = FALSE /\ failures = 0

-----------------------------------------------------------------------------
(* Configuration and ordinary processing.                                  *)

Add ==
  /\ pc = "idle" /\ Last < MaxStages
  /\ \E kind \in Kinds :
       /\ stages' = Append(stages, kind)
       /\ \/ kind.asymptotic # "never" /\ unknown' = unknown \cup {Last + 1}
          \/ kind.asymptotic # "always" /\ UNCHANGED unknown
  /\ UNCHANGED <<begun, left, ended, observation, finish, call, history>>

\* The stages in S read their parameters anew: their tails may switch.
Resync(S) ==
  \E on \in SUBSET (S \cap Switched) : unknown' = (unknown \ (S \cap Switched)) \cup on

\* `process` refuses a stream whose finish began.
Open == policy = NoPolicy /\ stage = 1 /\ ~complete

\* A failing stage leaves the later ones unprocessed.
Process ==
  /\ pc = "idle" /\ Open
  /\ \E reached \in 0 .. Last :
       /\ Resync(1 .. reached)
       /\ tripped' = (tripped \/ \E i \in 1 .. reached : i \in begun)
  /\ UNCHANGED <<config, begun, left, ended, observation, finish, call,
                 emitted, drained, cut, failures>>

\* Mutant: a reset keeps the stage at which the last finish stopped.
BugReset ==
  /\ pc = "idle" /\ begun' = {} /\ policy' = NoPolicy
  /\ UNCHANGED <<config, unknown, left, ended, stage, complete, capped, observation, call,
                 emitted, drained, cut, tripped, failures>>

\* `reset` and `set_sample_rate`, both of every stage as well.
Reset ==
  /\ pc = "idle" /\ Rearmed
  /\ UNCHANGED <<config, unknown, call, tripped, failures>>

Clear ==
  /\ pc = "idle" /\ Rearmed
  /\ stages' = << >> /\ unknown' = {}
  /\ UNCHANGED <<call, tripped, failures>>

-----------------------------------------------------------------------------
(* `finish_with_policy`: one call.                                         *)

\* The first call locks the policy; a chain without stages is complete.
BeginFinish(n) ==
  /\ pc = "idle" /\ ~complete
  /\ IF policy = NoPolicy THEN policy' \in Policies ELSE UNCHANGED policy
  /\ complete' = (stages = << >>)
  /\ IF stages = << >> \/ n = 0 THEN UNCHANGED call
     ELSE pc' = "draining" /\ capacity' = n /\ produced' = 0
  /\ UNCHANGED <<config, lifecycles, observation, stage, capped, history>>

\* The first later stage whose output must not be observed.
Barrier(i) ==
  LET barriers == {j \in i + 1 .. Last : stages[j].barrier}
  IN IF barriers = {} THEN Last + 1
     ELSE CHOOSE j \in barriers : \A k \in barriers : j <= k

\* The sum of held[j] over the stages j in S, as the number of their frames.
Total(held, S) == Cardinality(UNION {{j} \X (1 .. held[j]) : j \in S})

\* `downstream_finish_protected_frames`: what the stages observed through still
\* hold when the tail of stage i starts, and must not pass for silence.
Protection(i, end) ==
  Total([j \in 1 .. Last |->
           stages[j].latency + IF j \in unknown THEN 0 ELSE stages[j].tail], i .. end - 1)

\* The observation of this round: new when the stage was not observed before.
Unbounded == stage \in unknown
Fresh == Unbounded /\ unknownStage # stage
End == IF Fresh THEN Barrier(stage) ELSE observationEnd
Protected == IF Fresh THEN Protection(stage, Barrier(stage)) ELSE protected
Quiet == IF Fresh THEN 0 ELSE quiet
Generated == IF Fresh THEN 0 ELSE generated
Allowed == Protected + Smaller(Less(policy.max, Generated), Less(policy.hold, Quiet))
Segment ==
  IF Unbounded THEN Smaller(capacity - produced, Allowed) ELSE capacity - produced

Draining == pc = "draining" /\ stage <= Last /\ produced < capacity

\* The next stage, with nothing observed of it.
Advance ==
  /\ stage' = stage + 1 /\ left' = 0 /\ ended' = FALSE
  /\ unknownStage' = 0 /\ observationEnd' = 0
  /\ protected' = 0 /\ quiet' = 0 /\ generated' = 0

Observe(protectedFrames, quietFrames, generatedFrames) ==
  /\ unknownStage' = IF Unbounded THEN stage ELSE unknownStage
  /\ observationEnd' = End
  /\ protected' = protectedFrames /\ quiet' = quietFrames /\ generated' = generatedFrames

\* Mutant: the loop continues without leaving the stage.
BugCutExhausted ==
  /\ Draining /\ Unbounded /\ Allowed = 0
  /\ capped' = TRUE /\ cut' = cut \cup {stage}
  /\ UNCHANGED <<config, lifecycles, observation, stage, complete, policy, call,
                 emitted, drained, tripped, failures>>

\* Nothing more is allowed to this tail.
CutExhausted ==
  /\ Draining /\ Unbounded /\ Allowed = 0
  /\ capped' = TRUE /\ cut' = cut \cup {stage}
  /\ Advance
  /\ UNCHANGED <<config, unknown, begun, complete, policy, call,
                 emitted, drained, tripped, failures>>

\* What the finish of the stage may render of n frames, by the contract of
\* `StreamingProcessor`: all that is left of latency and finite tail, or, of an
\* unknown tail, a full block or its end; nothing after its end.
Left == IF stage \in begun THEN left ELSE stages[stage].latency + stages[stage].tail
Renders(n, frames, done) ==
  \/ ended /\ frames = 0 /\ done
  \/ ~ended /\ Unbounded /\ frames <= n /\ (frames < n => done)
  \/ /\ ~ended /\ ~Unbounded
     /\ frames = Smaller(Left, n) /\ (done => Left <= n) /\ (Left < n => done)

StageFinish(frames, done) ==
  /\ Renders(Segment, frames, done)
  /\ begun' = begun \cup {stage}
  /\ drained' = [drained EXCEPT ![stage] = @ + frames]

\* A tail that was switched off while it was drained has a finite rest.
StayOnStage(frames, done) ==
  /\ left' = IF Unbounded THEN Left ELSE Left - frames
  /\ ended' = done

\* The stages that process what the finishing stage renders.
Downstream == stage + 1 .. Last
PushDownstream(S) ==
  /\ \/ Resync(S)
     \/ stage \in Switched /\ unknown' = unknown \ {stage}
  /\ tripped' = (tripped \/ \E j \in S : j \in begun')

\* The stage had nothing to render.
DrainEnd ==
  /\ Draining /\ Segment > 0
  /\ StageFinish(0, TRUE)
  /\ Advance
  /\ UNCHANGED <<config, unknown, complete, policy, capped, call, emitted, cut, tripped,
                 failures>>

DrainFinite ==
  /\ Draining /\ Segment > 0 /\ ~Unbounded
  /\ \E frames \in 1 .. Segment, done \in BOOLEAN :
       /\ StageFinish(frames, done)
       /\ PushDownstream(Downstream)
       /\ produced' = produced + frames
       /\ IF done THEN Advance
          ELSE /\ StayOnStage(frames, done)
               /\ Observe(protected, quiet, generated) /\ UNCHANGED stage
  /\ UNCHANGED <<config, complete, policy, capped, pc, capacity, emitted, cut, failures>>

\* `observe_finish_energy` of n frames that end in a run of silent ones.
Observed(n) == Less(n, Protected)
QuietAfter(n, silent) == IF silent = Observed(n) THEN Quiet + silent ELSE silent

IsQuiet(n, silent) == Observed(n) > 0 /\ QuietAfter(n, silent) >= policy.hold

\* The policy ends the tail: silent for the hold, or at the cap.
EndsTail(frames, silent) ==
  /\ IsQuiet(frames, silent) \/ Generated + Observed(frames) >= policy.max
  /\ capped' = (capped \/ ~IsQuiet(frames, silent))

\* Mutant: a tail that became loud again is not cut at the cap.
BugDrainUnknown ==
  /\ Draining /\ Segment > 0 /\ Unbounded
  /\ \E frames \in 1 .. Segment, done \in BOOLEAN, silent \in 0 .. Segment :
       /\ silent <= Observed(frames)
       /\ StageFinish(frames, done)
       /\ PushDownstream(Downstream)
       /\ produced' = produced + frames
       /\ IF IsQuiet(frames, silent) \/ done
          THEN Advance /\ UNCHANGED cut
          ELSE /\ StayOnStage(frames, done) /\ UNCHANGED <<stage, cut>>
               /\ Observe(Less(Protected, frames), QuietAfter(frames, silent), 0)
  /\ UNCHANGED <<config, complete, policy, capped, pc, capacity, emitted, failures>>

DrainUnknown ==
  /\ Draining /\ Segment > 0 /\ Unbounded
  /\ \E frames \in 1 .. Segment, done \in BOOLEAN, silent \in 0 .. Segment :
       /\ silent <= Observed(frames)
       /\ StageFinish(frames, done)
       /\ PushDownstream(Downstream)
       /\ produced' = produced + frames
       /\ \/ EndsTail(frames, silent) /\ Advance /\ cut' = cut \cup {stage}
          \/ /\ ~(IsQuiet(frames, silent) \/ Generated + Observed(frames) >= policy.max)
             /\ UNCHANGED <<capped, cut>>
             /\ IF done THEN Advance
                ELSE /\ StayOnStage(frames, done) /\ UNCHANGED stage
                     /\ Observe(Less(Protected, frames), QuietAfter(frames, silent),
                                Generated + Observed(frames))
  /\ UNCHANGED <<config, complete, policy, pc, capacity, emitted, failures>>

\* Return to the caller: the end of the chain, or a full block.
ReturnFinish ==
  /\ pc = "draining" /\ (stage > Last \/ produced = capacity)
  /\ complete' = (stage > Last)
  /\ emitted' = emitted + produced
  /\ pc' = "idle" /\ capacity' = 0 /\ produced' = 0
  /\ UNCHANGED <<config, lifecycles, observation, stage, policy, capped, drained, cut, tripped,
                 failures>>

\* An error leaves the call at once; what this block already holds is lost.
Fail ==
  /\ failures < MaxFailures /\ failures' = failures + 1
  /\ pc' = "idle" /\ capacity' = 0 /\ produced' = 0
  /\ UNCHANGED <<config, stage, complete, policy, capped, emitted, cut>>

FailFinish ==
  /\ Draining /\ Segment > 0 /\ Fail
  /\ begun' = begun \cup {stage} /\ left' = Left
  /\ Observe(Protected, Quiet, Generated)
  /\ UNCHANGED <<unknown, ended, drained, tripped>>

\* A later stage k fails: the tail was observed if k is past the barrier, and
\* its frames are not counted as generated.
FailDownstream ==
  /\ Draining /\ Segment > 0 /\ Fail
  /\ \E k \in Downstream, frames \in 1 .. Segment, done \in BOOLEAN, silent \in 0 .. Segment :
       /\ silent <= Observed(frames)
       /\ StageFinish(frames, done) /\ StayOnStage(frames, done)
       /\ PushDownstream(stage + 1 .. k)
       /\ IF Unbounded /\ (End <= stage + 1 \/ k >= End)
          THEN Observe(Less(Protected, frames),
                       IF Observed(frames) = 0 THEN Quiet ELSE QuietAfter(frames, silent), Generated)
          ELSE silent = 0 /\ Observe(Protected, Quiet, Generated)

Round == CutExhausted \/ DrainEnd \/ DrainFinite \/ DrainUnknown \/ ReturnFinish
Next ==
  \/ Add \/ Process \/ Reset \/ Clear
  \/ \E n \in Capacities : BeginFinish(n)
  \/ Round \/ FailFinish \/ FailDownstream

Spec == Init /\ [][Next]_vars

\* A call returns, and a host that began to finish a stream keeps calling with
\* room for output.
FairSpec ==
  /\ Spec /\ WF_vars(Round)
  /\ WF_vars(~Open /\ \E n \in Capacities \ {0} : BeginFinish(n))

-----------------------------------------------------------------------------
(* Properties.                                                             *)

MaxCap == CHOOSE m \in {p.max : p \in Policies} : \A p \in Policies : p.max <= m
Held(i) == stages[i].latency + stages[i].tail

\* Most frames the finish of stage i may render.
StageBudget(i) ==
  Held(i) + IF stages[i].asymptotic = "never" THEN 0
            ELSE MaxCap + Total([j \in 1 .. Last |-> Held(j)], i .. Barrier(i) - 1)

\* Every tail is bounded: a finite one by what its stage declares, an unknown
\* one by the cap and the frames protected for the stages after it, even if it
\* is switched off half way.  And no stage is given input once its own finish
\* began, so no `AlreadyFinished` comes out of a drain.  A tail is cut only after its
\* stage flushed its latency and then, for the whole hold, was silent or still ringing.
TailsEndInTime ==
  /\ ~tripped
  /\ failures = 0 => \A i \in 1 .. Last : drained[i] <= StageBudget(i)
  /\ \A i \in cut : drained[i] >= stages[i].latency + policy.hold

\* dsp_chain.rs:621: "Whether an unknown tail reached the configured safety cap."
CappedIsTruthful == capped => \E i \in cut : drained[i] >= policy.max

\* The chain keeps the promise its owner is modelled against.
Status == IF complete THEN "finished" ELSE IF Open THEN "open" ELSE "finishing"
Budget == Total([i \in 1 .. Last |-> StageBudget(i)], 1 .. Last)
Contract == INSTANCE ChainContract WITH
              Blocks <- Capacities, chain <- Status, emitted <- emitted, budget <- Budget
KeepsContract == Contract!Spec

\* A stream that began to finish ends, whatever its stages do.
DrainTerminates == Status = "finishing" ~> Status # "finishing"
=============================================================================
