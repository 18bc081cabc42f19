-------------------------- MODULE ConvolverHandoff --------------------------
(***************************************************************************)
(* Ownership hand-off of FFT kernels between the control plane             *)
(* (`ConvolverControl`) and the one audio consumer (`ConvolverProcessor`). *)
(*                                                                         *)
(* A kernel is a heap allocation with exactly one owner at any time.  The  *)
(* control plane installs it in the `published` slot; the audio callback   *)
(* withdraws it, adopts it, and later returns it through the one-place     *)
(* `retired` slot, because an audio callback must never free memory.       *)
(* Every access to a slot, flag or generation that both sides touch is a   *)
(* step of its own.  Control threads serialise on `control_gate`; the      *)
(* audio side never takes it.                                              *)
(***************************************************************************)
EXTENDS Naturals, FiniteSets

CONSTANTS
  Controllers,   \* threads holding a clone of ConvolverControl
  Rates,         \* stream and kernel sample rates in Hz
  DefaultRate,   \* the rate of a new processor (44.1 kHz)
  MaxKernels,    \* bound on publications
  RampBlocks,    \* callbacks one 5 ms wet ramp lasts
  TailBlocks,    \* longest kernel tail, in callbacks
  Blocks,        \* sizes of one callback, in the same unit (0: a zero-frame call)
  MaxTeardowns   \* bound on destructions of the audio processor

ASSUME HandoffAssumption ==
  /\ Rates \subseteq Nat \ {0}
  /\ DefaultRate \in Rates
  /\ MaxKernels \in Nat /\ RampBlocks \in Nat \ {0}
  /\ TailBlocks \in Nat /\ Blocks \subseteq Nat /\ MaxTeardowns \in Nat

NoKernel == [gen |-> 0, rate |-> 0]
Kernel == [gen : 1 .. MaxKernels, rate : Rates]
Slot == Kernel \cup {NoKernel}
NoOne == "nobody"

ASSUME ControllersAssumption == NoOne \notin Controllers

VARIABLES
  \* shared between the two sides
  published, retired, enabled, consumerActive, latestPublished, drained,
  backpressured,
  \* telemetry counters
  latestAdopted, adopted, superseded, discarded, retiredCount, reclaimed,
  \* control side: gate owner and program counters; under the gate, the
  \* generation being published and the kernel a publication displaced
  gate, cpc, cgen, replaced,
  \* audio side: the three local owners, stream rate, program counter, where
  \* a flush and a sync return to, the generation read by an acknowledgement
  owned, incoming, pendingRetire, rate, apc, flushNext, after, ackGen,
  \* lifecycle and finish lock
  lifecycle, finishGen, finishLeft,
  \* wet ramp: current level, callbacks left, target, and whether dry audio
  \* was rendered while waiting for a kernel
  level, ramp, target, dryWait,
  \* history: generations whose memory was released, processor destructions
  freed, teardowns

slots == <<published, retired>>
counters == <<latestAdopted, adopted, superseded, discarded, retiredCount, reclaimed>>
ctl == <<gate, cpc, cgen, replaced>>
held == <<owned, incoming, pendingRetire>>
finishVars == <<lifecycle, finishGen, finishLeft>>
wetVars == <<level, ramp, target, dryWait>>
flow == <<apc, flushNext, after, ackGen>>
audio == <<held, rate, flow, finishVars, wetVars>>
vars == <<slots, enabled, consumerActive, latestPublished, drained, backpressured,
          counters, ctl, audio, freed, teardowns>>

Init ==
  /\ published = NoKernel /\ retired = NoKernel
  /\ enabled \in BOOLEAN
  /\ consumerActive = FALSE
  /\ latestPublished = 0 /\ drained = 0 /\ backpressured = FALSE
  /\ latestAdopted = 0 /\ adopted = 0 /\ superseded = 0
  /\ discarded = 0 /\ retiredCount = 0 /\ reclaimed = 0
  /\ gate = NoOne
  /\ cpc = [c \in Controllers |-> "idle"]
  /\ cgen = 0 /\ replaced = NoKernel
  /\ owned = NoKernel /\ incoming = NoKernel /\ pendingRetire = NoKernel
  /\ rate = DefaultRate
  /\ apc = "none" /\ flushNext = "idle" /\ after = "idle" /\ ackGen = 0
  /\ lifecycle = "processing" /\ finishGen = 0 /\ finishLeft = 0
  /\ level = "dry" /\ ramp = 0 /\ target = "dry" /\ dryWait = FALSE
  /\ freed = {} /\ teardowns = 0

-----------------------------------------------------------------------------
(* Control plane.                                                          *)

ControlStep(c, from, to) == cpc[c] = from /\ cpc' = [cpc EXCEPT ![c] = to]

\* `control_gate.lock()` at the head of publish, reclaim_retired, is_quiescent.
LockGate(c, first) ==
  /\ gate = NoOne
  /\ gate' = c
  /\ ControlStep(c, "idle", first)
  /\ UNCHANGED <<slots, enabled, consumerActive, latestPublished, drained, backpressured,
                 counters, cgen, replaced, audio, freed, teardowns>>

BeginPublish(c) == latestPublished < MaxKernels /\ LockGate(c, "reclaimFirst")
BeginReclaim(c) == LockGate(c, "reclaim")
BeginCheck(c) == LockGate(c, "readEnabled")

\* The generations whose memory dropping these options releases.
Released(options) == {k.gen : k \in options \ {NoKernel}}

\* `reclaim_retired_unlocked`: take the retired kernel and drop it here.
ReclaimRetired ==
  /\ retired' = NoKernel
  /\ reclaimed' = IF retired = NoKernel THEN reclaimed ELSE reclaimed + 1
  /\ freed' = freed \cup Released({retired})
  /\ UNCHANGED <<published, enabled, consumerActive, latestPublished, drained, backpressured,
                 latestAdopted, adopted, superseded, discarded, retiredCount,
                 cgen, replaced, audio, teardowns>>

PublishReclaimFirst(c) ==
  /\ ControlStep(c, "reclaimFirst", "swap")
  /\ ReclaimRetired
  /\ UNCHANGED gate

\* The new kernel is visible to the audio side before its generation is stored.
PublishSwap(c) ==
  /\ ControlStep(c, "swap", "store")
  /\ \E r \in Rates : published' = [gen |-> latestPublished + 1, rate |-> r]
  /\ cgen' = latestPublished + 1
  /\ replaced' = published
  /\ UNCHANGED <<retired, enabled, consumerActive, latestPublished, drained, backpressured,
                 counters, gate, audio, freed, teardowns>>

PublishStore(c) ==
  /\ ControlStep(c, "store", "supersede")
  /\ latestPublished' = cgen
  /\ UNCHANGED <<slots, enabled, consumerActive, drained, backpressured, counters,
                 gate, cgen, replaced, audio, freed, teardowns>>

PublishSupersede(c) ==
  /\ ControlStep(c, "supersede", "reclaim")
  /\ superseded' = IF replaced = NoKernel THEN superseded ELSE superseded + 1
  /\ freed' = freed \cup Released({replaced})
  /\ replaced' = NoKernel /\ cgen' = 0
  /\ UNCHANGED <<slots, enabled, consumerActive, latestPublished, drained, backpressured,
                 latestAdopted, adopted, discarded, retiredCount, reclaimed,
                 gate, audio, teardowns>>

\* Mutant: reclaim_retired returns without taking the slot.
BugReclaimAndUnlock(c) ==
  /\ ControlStep(c, "reclaim", "idle")
  /\ gate' = NoOne
  /\ UNCHANGED <<slots, enabled, consumerActive, latestPublished, drained, backpressured,
                 counters, cgen, replaced, audio, freed, teardowns>>

\* The last reclaim of a publication, and the whole of `reclaim_retired`.
ReclaimAndUnlock(c) ==
  /\ ControlStep(c, "reclaim", "idle")
  /\ ReclaimRetired
  /\ gate' = NoOne

\* `is_quiescent`: enabled flag, both slots, generations, both slots again.
CheckStep(c, from, to) ==
  /\ ControlStep(c, from, to)
  /\ gate' = IF to = "idle" THEN NoOne ELSE gate
  /\ UNCHANGED <<slots, enabled, consumerActive, latestPublished, drained, backpressured,
                 counters, cgen, replaced, audio, freed, teardowns>>

SlotsEmpty == published = NoKernel /\ retired = NoKernel

CheckEnabled(c) == CheckStep(c, "readEnabled", IF enabled THEN "idle" ELSE "readSlots")
CheckSlots(c) == CheckStep(c, "readSlots", IF SlotsEmpty THEN "readDrained" ELSE "idle")
CheckDrained(c) ==
  CheckStep(c, "readDrained", IF drained = latestPublished THEN "recheck" ELSE "idle")
\* Mutant: is_quiescent trusts its first look at the slots.
BugRecheckSlots(c) == CheckStep(c, "recheck", "quiescent")
RecheckSlots(c) == CheckStep(c, "recheck", IF SlotsEmpty THEN "quiescent" ELSE "idle")
AnswerQuiescent(c) == CheckStep(c, "quiescent", "idle")

\* `set_enabled` does not take the gate.
SetEnabled ==
  /\ enabled' = ~enabled
  /\ UNCHANGED <<slots, consumerActive, latestPublished, drained, backpressured, counters,
                 ctl, audio, freed, teardowns>>

-----------------------------------------------------------------------------
(* The wet ramp, in units of callbacks.                                    *)

\* `set_steady_wet`
SteadyWet(l) == level' = l /\ ramp' = 0 /\ target' = l

\* `begin_transition`: from the current level; a no-op ramp becomes steady.
BeginTransition(t) ==
  IF level = t THEN SteadyWet(t)
  ELSE level' = level /\ ramp' = RampBlocks /\ target' = t

\* `advance_transition` by n, on a ramp from level l to t with `left` to go.
AdvanceTransition(l, left, t, n) ==
  /\ ramp' = IF n >= left THEN 0 ELSE left - n
  /\ target' = t
  /\ level' = CASE left = 0 \/ n = 0 -> l
              [] left > 0 /\ n >= left -> t
              [] OTHER -> "mid"

\* `begin_transition` to t followed by `advance_transition` by n.
BeginAndAdvance(t, n) ==
  IF level = t THEN SteadyWet(t) ELSE AdvanceTransition(level, RampBlocks, t, n)

Matches(k) == k # NoKernel /\ k.rate = rate
Mismatches(k) == k # NoKernel /\ k.rate # rate

-----------------------------------------------------------------------------
(* Audio consumer: `sync_convolver`, one shared access per step.           *)

controlSide == <<enabled, consumerActive, latestPublished, drained, superseded, reclaimed, ctl>>

Goto(label) == apc' = label /\ UNCHANGED <<flushNext, after, ackGen>>

\* Leave `sync_convolver`: back to the caller, its locals are dead.
Return == apc' = after /\ flushNext' = "idle" /\ after' = "idle" /\ ackGen' = 0

\* Enter `try_flush_retired`, to continue at `next`.
GotoFlush(next) == apc' = "flush" /\ flushNext' = next /\ UNCHANGED <<after, ackGen>>

StartSync(caller) ==
  apc' = "flush" /\ flushNext' = "ownedRate" /\ after' = caller /\ UNCHANGED ackGen

\* `try_flush_retired`: compare-and-swap into an empty retirement slot.
FlushRetired ==
  /\ apc = "flush"
  /\ Goto(flushNext)
  /\ IF retired = NoKernel
       THEN retired' = pendingRetire /\ pendingRetire' = NoKernel
       ELSE UNCHANGED <<retired, pendingRetire>>
  /\ UNCHANGED <<published, owned, incoming, rate, finishVars, wetVars, controlSide,
                 backpressured, latestAdopted, adopted, discarded, retiredCount,
                 freed, teardowns>>

\* Move a local owner to `pending_retire` and count it.
RetireOwned ==
  /\ pendingRetire' = owned /\ owned' = NoKernel
  /\ retiredCount' = retiredCount + 1
  /\ UNCHANGED <<incoming, discarded>>

DiscardIncoming ==
  /\ pendingRetire' = incoming /\ incoming' = NoKernel
  /\ discarded' = discarded + 1 /\ retiredCount' = retiredCount + 1
  /\ UNCHANGED owned

KeepHeld == UNCHANGED <<held, discarded, retiredCount>>

RetireMismatchedOwned ==
  /\ apc = "ownedRate"
  /\ IF Mismatches(owned) /\ pendingRetire = NoKernel
       THEN RetireOwned /\ GotoFlush("take")
       ELSE KeepHeld /\ Goto("take")
  /\ UNCHANGED <<slots, rate, finishVars, wetVars, controlSide, backpressured,
                 latestAdopted, adopted, freed, teardowns>>

\* Mutant: the slot is taken over a kernel still waiting to be adopted.
BugTakePublished ==
  /\ apc = "take"
  /\ Goto("incomingRate")
  /\ incoming' = published /\ published' = NoKernel
  /\ UNCHANGED <<retired, owned, pendingRetire, rate, finishVars, wetVars, controlSide,
                 backpressured, latestAdopted, adopted, discarded, retiredCount,
                 freed, teardowns>>

TakePublished ==
  /\ apc = "take"
  /\ Goto("incomingRate")
  /\ IF incoming = NoKernel
       THEN incoming' = published /\ published' = NoKernel
       ELSE UNCHANGED <<incoming, published>>
  /\ UNCHANGED <<retired, owned, pendingRetire, rate, finishVars, wetVars, controlSide,
                 backpressured, latestAdopted, adopted, discarded, retiredCount,
                 freed, teardowns>>

DiscardMismatchedIncoming ==
  /\ apc = "incomingRate"
  /\ IF Mismatches(incoming) /\ pendingRetire = NoKernel
       THEN DiscardIncoming /\ GotoFlush("enabled")
       ELSE KeepHeld /\ Goto("enabled")
  /\ UNCHANGED <<slots, rate, finishVars, wetVars, controlSide, backpressured,
                 latestAdopted, adopted, freed, teardowns>>

\* Disabled: go dry at once and give back at most one kernel per sync.
SyncDisabled ==
  /\ apc = "enabled" /\ ~enabled
  /\ SteadyWet("dry") /\ dryWait' = FALSE
  /\ \/ /\ pendingRetire = NoKernel /\ owned # NoKernel
        /\ RetireOwned /\ GotoFlush("hold")
     \/ /\ pendingRetire = NoKernel /\ owned = NoKernel /\ incoming # NoKernel
        /\ DiscardIncoming /\ GotoFlush("hold")
     \/ /\ pendingRetire # NoKernel \/ (owned = NoKernel /\ incoming = NoKernel)
        /\ KeepHeld /\ Goto("hold")
  /\ UNCHANGED <<slots, rate, finishVars, controlSide, backpressured,
                 latestAdopted, adopted, freed, teardowns>>

HoldsNothing == owned = NoKernel /\ incoming = NoKernel /\ pendingRetire = NoKernel

ReportHeld ==
  /\ apc = "hold"
  /\ backpressured' = ~HoldsNothing
  /\ IF HoldsNothing THEN Goto("ackEmpty") ELSE Return
  /\ UNCHANGED <<slots, held, rate, finishVars, wetVars, controlSide,
                 latestAdopted, adopted, discarded, retiredCount, freed, teardowns>>

SyncEnabled ==
  /\ apc = "enabled" /\ enabled
  /\ Goto("adopt")
  /\ UNCHANGED <<slots, held, rate, finishVars, wetVars, controlSide, backpressured,
                 latestAdopted, adopted, discarded, retiredCount, freed, teardowns>>

Adoptable == ~Mismatches(owned) /\ ~Mismatches(incoming) /\ incoming # NoKernel

\* A held kernel of another rate, or nothing to adopt, or no room to retire.
SkipAdoption ==
  /\ apc = "adopt"
  /\ ~Adoptable \/ (owned # NoKernel /\ pendingRetire # NoKernel)
  /\ backpressured' = (Mismatches(owned) \/ Mismatches(incoming) \/ pendingRetire # NoKernel)
  /\ Return
  /\ UNCHANGED <<slots, held, rate, finishVars, wetVars, controlSide,
                 latestAdopted, adopted, discarded, retiredCount, freed, teardowns>>

\* Adopt into an empty position; fade in only if dry audio was already heard.
AdoptFirst ==
  /\ apc = "adopt" /\ Adoptable /\ owned = NoKernel
  /\ owned' = incoming /\ incoming' = NoKernel
  /\ latestAdopted' = incoming.gen /\ adopted' = adopted + 1
  /\ backpressured' = FALSE
  /\ IF dryWait THEN BeginTransition("full") ELSE SteadyWet("full")
  /\ dryWait' = FALSE
  /\ Return
  /\ UNCHANGED <<slots, pendingRetire, rate, finishVars, controlSide,
                 discarded, retiredCount, freed, teardowns>>

AdoptReplacement ==
  /\ apc = "adopt" /\ Adoptable /\ owned # NoKernel /\ pendingRetire = NoKernel
  /\ owned' = incoming /\ incoming' = NoKernel /\ pendingRetire' = owned
  /\ latestAdopted' = incoming.gen /\ adopted' = adopted + 1
  /\ retiredCount' = retiredCount + 1
  /\ IF ramp = 0 THEN SteadyWet("full") ELSE UNCHANGED <<level, ramp, target>>
  /\ GotoFlush("replaced")
  /\ UNCHANGED <<slots, rate, finishVars, dryWait, controlSide, backpressured,
                 discarded, freed, teardowns>>

ReportReplaced ==
  /\ apc = "replaced"
  /\ backpressured' = (pendingRetire # NoKernel)
  /\ Return
  /\ UNCHANGED <<slots, held, rate, finishVars, wetVars, controlSide,
                 latestAdopted, adopted, discarded, retiredCount, freed, teardowns>>

\* `acknowledge_drained`: empty, load generation, still empty, store.
AckStep(from) ==
  /\ apc = from
  /\ UNCHANGED <<slots, held, rate, finishVars, wetVars, enabled, consumerActive,
                 latestPublished, superseded, reclaimed, ctl, backpressured,
                 latestAdopted, adopted, discarded, retiredCount, freed, teardowns>>

AckCheckEmpty ==
  /\ AckStep("ackEmpty")
  /\ IF published = NoKernel THEN Goto("ackLoad") ELSE Return
  /\ UNCHANGED drained

AckLoad ==
  /\ AckStep("ackLoad")
  /\ apc' = "ackRecheck" /\ ackGen' = latestPublished
  /\ UNCHANGED <<flushNext, after, drained>>

AckRecheck ==
  /\ AckStep("ackRecheck")
  /\ IF published = NoKernel THEN Goto("ackStore") ELSE Return
  /\ UNCHANGED drained

AckStore ==
  /\ AckStep("ackStore")
  /\ drained' = ackGen
  /\ Return

SyncStep ==
  \/ FlushRetired \/ RetireMismatchedOwned \/ TakePublished \/ DiscardMismatchedIncoming
  \/ SyncDisabled \/ ReportHeld \/ SyncEnabled
  \/ SkipAdoption \/ AdoptFirst \/ AdoptReplacement \/ ReportReplaced
  \/ AckCheckEmpty \/ AckLoad \/ AckRecheck \/ AckStore

-----------------------------------------------------------------------------
(* Audio consumer: the calls of the host.                                  *)

audioOutside == <<slots, controlSide, backpressured, latestAdopted, adopted, discarded,
                  retiredCount, freed, teardowns>>

\* `process` while enabled: synchronise, then run the kernel.
ProcessEnabled ==
  /\ apc = "idle" /\ lifecycle = "processing" /\ enabled
  /\ StartSync("kernel")
  /\ UNCHANGED <<held, rate, finishVars, wetVars, audioOutside>>

\* `process` while disabled with nothing audible to fade: synchronise.
ProcessDisabled ==
  /\ apc = "idle" /\ lifecycle = "processing" /\ ~enabled
  /\ \/ ~Matches(owned) /\ UNCHANGED wetVars
     \/ /\ Matches(owned) /\ level = "dry" /\ (ramp = 0 \/ target # "dry")
        /\ SteadyWet("dry") /\ UNCHANGED dryWait
  /\ StartSync("idle")
  /\ UNCHANGED <<held, rate, finishVars, audioOutside>>

\* Mutant: synchronise after every disabled callback, ramp finished or not.
BugProcessFadeOut ==
  /\ apc = "idle" /\ lifecycle = "processing" /\ ~enabled /\ Matches(owned)
  /\ level # "dry" /\ \E n \in Blocks : BeginAndAdvance("dry", n)
  /\ StartSync("idle")
  /\ UNCHANGED <<held, rate, finishVars, dryWait, audioOutside>>

\* `process` while disabled with an audible kernel: fade it out first.
ProcessFadeOut ==
  /\ apc = "idle" /\ lifecycle = "processing" /\ ~enabled /\ Matches(owned)
  /\ \E n \in Blocks :
       \/ ramp > 0 /\ target = "dry" /\ AdvanceTransition(level, ramp, "dry", n)
       \/ (ramp = 0 \/ target # "dry") /\ level # "dry" /\ BeginAndAdvance("dry", n)
  /\ IF ramp' = 0 THEN StartSync("idle") ELSE UNCHANGED flow
  /\ UNCHANGED <<held, rate, finishVars, dryWait, audioOutside>>

\* The rest of an enabled `process`, after its sync.
RenderKernel ==
  /\ apc = "kernel"
  /\ \E n \in Blocks :
       \/ /\ ~Matches(owned)
          /\ dryWait' = (dryWait \/ n > 0)
          /\ UNCHANGED <<level, ramp, target>>
       \/ /\ Matches(owned)
          /\ IF level # "full" /\ (ramp = 0 \/ target # "full")
               THEN BeginAndAdvance("full", n)
               ELSE AdvanceTransition(level, ramp, target, n)
          /\ UNCHANGED dryWait
  /\ Goto("idle")
  /\ UNCHANGED <<held, rate, finishVars, audioOutside>>

\* First `finish`: synchronise only when enabled, then lock the tail.
FinishFirst ==
  /\ apc = "idle" /\ lifecycle = "processing"
  /\ IF enabled THEN StartSync("beginFinish") ELSE Goto("beginFinish")
  /\ UNCHANGED <<held, rate, finishVars, wetVars, audioOutside>>

Min2(a, b) == IF a <= b THEN a ELSE b

BeginFinish ==
  /\ apc = "beginFinish"
  /\ lifecycle' = "finishing"
  /\ finishGen' = IF Matches(owned) THEN owned.gen ELSE 0
  /\ \E tail \in 0 .. TailBlocks :
       finishLeft' = IF ~Matches(owned) THEN 0
                     ELSE IF ramp > 0 /\ target = "dry" THEN Min2(tail, ramp) ELSE tail
  /\ Goto("drain")
  /\ UNCHANGED <<held, rate, wetVars, audioOutside>>

\* Mutant: every `finish` call synchronises, as the first one does.
BugFinishAgain ==
  /\ apc = "idle" /\ lifecycle = "finishing"
  /\ IF enabled THEN StartSync("drain") ELSE Goto("drain")
  /\ UNCHANGED <<held, rate, finishVars, wetVars, audioOutside>>

FinishAgain ==
  /\ apc = "idle" /\ lifecycle = "finishing"
  /\ Goto("drain")
  /\ UNCHANGED <<held, rate, finishVars, wetVars, audioOutside>>

\* The locked kernel is still the one whose tail was promised.
FinishLocked == owned # NoKernel /\ owned.gen = finishGen

\* One block of the tail; without the locked kernel it is a Backend error.
DrainTail ==
  /\ apc = "drain" /\ Goto("idle")
  /\ \E n \in Blocks :
       IF finishLeft > 0 /\ n > 0 /\ ~FinishLocked
       THEN UNCHANGED <<finishVars, level, ramp, target>>
       ELSE /\ finishLeft' = finishLeft - Min2(n, finishLeft)
            /\ lifecycle' = IF finishLeft' = 0 THEN "finished" ELSE "finishing"
            /\ IF finishLeft = 0 THEN UNCHANGED <<level, ramp, target>>
               ELSE AdvanceTransition(level, ramp, target, Min2(n, finishLeft))
            /\ UNCHANGED finishGen
  /\ UNCHANGED <<held, rate, dryWait, audioOutside>>

\* Mutant: kernels are given back after the end only while enabled.
BugFinishAfterEnd ==
  /\ apc = "idle" /\ lifecycle = "finished" /\ enabled
  /\ StartSync("idle")
  /\ UNCHANGED <<held, rate, finishVars, wetVars, audioOutside>>

\* `finish` after the end still gives kernels back once disabled.
FinishAfterEnd ==
  /\ apc = "idle" /\ lifecycle = "finished" /\ ~enabled
  /\ StartSync("idle")
  /\ UNCHANGED <<held, rate, finishVars, wetVars, audioOutside>>

ClearFinish == lifecycle' = "processing" /\ finishGen' = 0 /\ finishLeft' = 0

Reset ==
  /\ apc = "idle"
  /\ ClearFinish
  /\ SteadyWet(IF enabled /\ Matches(owned) THEN "full" ELSE "dry") /\ dryWait' = FALSE
  /\ UNCHANGED <<held, rate, flow, audioOutside>>

SetSampleRate ==
  /\ apc = "idle"
  /\ \E r \in Rates : rate' = r
  /\ ClearFinish
  /\ SteadyWet("dry") /\ dryWait' = FALSE
  /\ UNCHANGED <<held, flow, audioOutside>>

\* `ConvolverProcessor::new`: take the consumer lease.
NewProcessor ==
  /\ apc = "none" /\ ~consumerActive
  /\ consumerActive' = TRUE
  /\ Goto("idle")
  /\ UNCHANGED <<slots, enabled, latestPublished, drained, backpressured, counters, ctl,
                 held, rate, finishVars, wetVars, freed, teardowns>>

\* `Drop for ConvolverProcessor`: free the local owners, acknowledge, and only
\* then release the lease.  Dropped kernels are counted nowhere.
DropProcessor ==
  /\ apc = "idle" /\ teardowns < MaxTeardowns
  /\ teardowns' = teardowns + 1
  /\ freed' = freed \cup Released({owned, incoming, pendingRetire})
  /\ owned' = NoKernel /\ incoming' = NoKernel /\ pendingRetire' = NoKernel
  /\ apc' = "ackEmpty" /\ after' = "release" /\ UNCHANGED <<flushNext, ackGen>>
  /\ UNCHANGED <<slots, controlSide, backpressured, latestAdopted, adopted, discarded,
                 retiredCount, rate, finishVars, wetVars>>

ReleaseLease ==
  /\ apc = "release"
  /\ consumerActive' = FALSE
  /\ Goto("none")
  /\ rate' = DefaultRate /\ ClearFinish /\ SteadyWet("dry") /\ dryWait' = FALSE
  /\ UNCHANGED <<slots, enabled, latestPublished, drained, backpressured, counters, ctl,
                 held, freed, teardowns>>

Process == ProcessEnabled \/ ProcessDisabled \/ ProcessFadeOut
Finish == FinishFirst \/ FinishAgain \/ FinishAfterEnd

ControlNext ==
  \/ \E c \in Controllers :
       \/ BeginPublish(c) \/ BeginReclaim(c) \/ BeginCheck(c)
       \/ PublishReclaimFirst(c) \/ PublishSwap(c) \/ PublishStore(c) \/ PublishSupersede(c)
       \/ ReclaimAndUnlock(c)
       \/ CheckEnabled(c) \/ CheckSlots(c) \/ CheckDrained(c) \/ RecheckSlots(c)
       \/ AnswerQuiescent(c)
  \/ SetEnabled

AudioNext ==
  \/ Process \/ RenderKernel \/ SyncStep
  \/ Finish \/ BeginFinish \/ DrainTail
  \/ Reset \/ SetSampleRate \/ NewProcessor \/ DropProcessor \/ ReleaseLease

Next == ControlNext \/ AudioNext

Spec == Init /\ [][Next]_vars

\* A call that has begun returns, on either side.
CallsReturn ==
  /\ WF_vars(SyncStep \/ RenderKernel \/ BeginFinish \/ DrainTail \/ ReleaseLease)
  /\ \A c \in Controllers :
       WF_vars(PublishReclaimFirst(c) \/ PublishSwap(c) \/ PublishStore(c)
               \/ PublishSupersede(c) \/ ReclaimAndUnlock(c) \/ CheckEnabled(c)
               \/ CheckSlots(c) \/ CheckDrained(c) \/ RecheckSlots(c) \/ AnswerQuiescent(c))

\* The host keeps rendering a stream, polls `finish` at its end, and some
\* control thread keeps getting the gate to call `reclaim_retired`.
HostKeepsRunning ==
  /\ SF_vars(Process) /\ WF_vars(Finish)
  /\ SF_vars(\E c \in Controllers : BeginReclaim(c))

FairSpec == Spec /\ CallsReturn /\ HostKeepsRunning

-----------------------------------------------------------------------------
(* Properties.                                                             *)

AudioLabels == {"none", "idle", "flush", "ownedRate", "take", "incomingRate", "enabled",
                "hold", "adopt", "replaced", "ackEmpty", "ackLoad", "ackRecheck",
                "ackStore", "kernel", "beginFinish", "drain", "release"}
ControlLabels == {"idle", "reclaimFirst", "swap", "store", "supersede", "reclaim",
                  "readEnabled", "readSlots", "readDrained", "recheck", "quiescent"}

OwnersType ==
  /\ published \in Slot /\ retired \in Slot /\ replaced \in Slot
  /\ owned \in Slot /\ incoming \in Slot /\ pendingRetire \in Slot
  /\ freed \subseteq 1 .. MaxKernels
GenerationsType ==
  /\ latestPublished \in 0 .. MaxKernels /\ drained \in 0 .. MaxKernels
  /\ latestAdopted \in 0 .. MaxKernels /\ cgen \in 0 .. MaxKernels
  /\ ackGen \in 0 .. MaxKernels /\ finishGen \in 0 .. MaxKernels
CountersType ==
  /\ adopted \in Nat /\ superseded \in Nat /\ discarded \in Nat
  /\ retiredCount \in Nat /\ reclaimed \in Nat /\ teardowns \in Nat
ControlType ==
  /\ enabled \in BOOLEAN /\ consumerActive \in BOOLEAN /\ backpressured \in BOOLEAN
  /\ gate \in Controllers \cup {NoOne} /\ cpc \in [Controllers -> ControlLabels]
FlowType ==
  /\ apc \in AudioLabels
  /\ flushNext \in {"idle", "ownedRate", "take", "enabled", "hold", "replaced"}
  /\ after \in {"idle", "kernel", "beginFinish", "release"}
StreamType ==
  /\ rate \in Rates
  /\ lifecycle \in {"processing", "finishing", "finished"} /\ finishLeft \in Nat
  /\ level \in {"dry", "mid", "full"} /\ target \in {"dry", "full"} /\ ramp \in Nat
  /\ dryWait \in BOOLEAN

\* Every variable has its type: slots hold a kernel or nothing, generations
\* stay within the publications made, program counters within their code.
TypeOK ==
  OwnersType /\ GenerationsType /\ CountersType /\ ControlType /\ FlowType /\ StreamType

\* Generations handed out: a swapped-in kernel counts before it is stored.
Issued == 1 .. latestPublished + (IF \E c \in Controllers : cpc[c] = "store" THEN 1 ELSE 0)

\* The generation each owner holds, 0 for none.
GenAt == [published |-> published.gen, retired |-> retired.gen, owned |-> owned.gen,
          incoming |-> incoming.gen, pendingRetire |-> pendingRetire.gen,
          replaced |-> replaced.gen]
Owners == {"published", "retired", "owned", "incoming", "pendingRetire", "replaced"}

\* No kernel has two owners, none is reachable after its memory was released,
\* and none is lost: an audio step that overwrote a local owner would drop a
\* kernel on the audio thread, and it would be missing here (handoff.rs).
UniqueOwnership ==
  /\ \A p, q \in Owners : p # q /\ GenAt[p] # 0 => GenAt[p] # GenAt[q]
  /\ \A p \in Owners : GenAt[p] \notin freed
  /\ Issued = freed \cup ({GenAt[p] : p \in Owners} \ {0})

\* `is_quiescent` answers TRUE only when every kernel ever published has been
\* released and neither side holds one, whatever the audio callback did
\* between the reads of the check.
QuiescentMeansEmpty ==
  \A c \in Controllers :
    cpc[c] = "quiescent" => SlotsEmpty /\ HoldsNothing /\ freed = 1 .. latestPublished

\* The processor exists and its destructor has not begun.
Attached == "release" \notin {apc, after}

\* While a promised tail drains, no publication, toggle or retirement takes the
\* kernel away: `finish` never meets its "finish-locked" Backend errors.
FinishLockHolds == Attached /\ lifecycle = "finishing" /\ finishLeft > 0 => FinishLocked

AtRest == gate = NoOne /\ apc \in {"idle", "none"}

Present(S) == Cardinality({k \in S : k # NoKernel})
Saturating(a, b) == IF a >= b THEN a - b ELSE 0

\* `status().pending_reclamations`
PendingReclamations == Saturating(retiredCount, reclaimed)

\* control.rs documents `pending_reclamations` as the number of retired kernels
\* that await reclamation by a control thread.
PendingReclamationsExact == AtRest => PendingReclamations = Present({retired, pendingRetire})

\* Disabling fades first: when `process` itself saw the disabled flag, the sync
\* that takes the kernel away runs only once the wet level has reached zero.
FadesBeforeRetiring ==
  apc = "enabled" /\ after = "idle" /\ lifecycle = "processing" /\ Matches(owned)
    => level = "dry"

\* No wet level survives the kernel it was reached with: the next kernel would
\* start at that level instead of fading in.
WetNeedsKernel == Attached /\ level # "dry" => Matches(owned)

\* `audio_idle` is never claimed between operations while the audio side still
\* holds a kernel or one waits for it.
IdleIsTruthful == AtRest /\ drained = latestPublished => HoldsNothing /\ published = NoKernel

\* pipeline.rs documents `set_convolution_enabled` as bypassing "without
\* discarding the loaded kernel": an adopted kernel is given up only for a
\* newer one, a rate change, or with its processor.
BypassKeepsKernel ==
  [][owned # NoKernel /\ owned' = NoKernel => Mismatches(owned) \/ teardowns' # teardowns]_owned

\* Once convolution stays disabled on a running stream and publishing has
\* stopped, every kernel is given back and reclaimed and `is_quiescent` holds.
EventuallyQuiescent ==
  <>[](~enabled /\ consumerActive)
    => <>[](SlotsEmpty /\ HoldsNothing /\ drained = latestPublished)

\* Every publication is eventually adopted, superseded or discarded while the
\* consumer lives, in spite of a full retirement slot.
PublicationsResolve ==
  <>[](consumerActive /\ (enabled => lifecycle = "processing"))
    => <>[](published = NoKernel /\ incoming = NoKernel)
=============================================================================
