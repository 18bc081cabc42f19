----------------------- MODULE ConvolverHandoffProofs -----------------------
(* Proofs about ConvolverHandoff for any number of control threads, rates,  *)
(* publications, ramp and tail lengths, callback sizes and teardowns.      *)
EXTENDS ConvolverHandoff, TLAPS

-----------------------------------------------------------------------------
(* The inductive invariant.                                                *)

\* Only the thread that holds the gate is inside a control operation.
GateInv == \A c \in Controllers : cpc[c] # "idle" <=> gate = c

\* What a publication in progress knows.
PublishInv ==
  /\ \A c \in Controllers :
       /\ cpc[c] \in {"reclaimFirst", "swap", "store"} => latestPublished < MaxKernels
       /\ cpc[c] = "store" => cgen = latestPublished + 1
  /\ replaced # NoKernel => \E c \in Controllers : cpc[c] \in {"store", "supersede"}

Storing == \E c \in Controllers : cpc[c] = "store"

\* UniqueOwnership, owner by owner.
ExclusiveInv ==
  /\ published.gen # 0 => published.gen \notin {retired.gen, owned.gen, incoming.gen,
                                                pendingRetire.gen, replaced.gen}
  /\ retired.gen # 0 => retired.gen \notin {owned.gen, incoming.gen, pendingRetire.gen,
                                            replaced.gen}
  /\ owned.gen # 0 => owned.gen \notin {incoming.gen, pendingRetire.gen, replaced.gen}
  /\ incoming.gen # 0 => incoming.gen \notin {pendingRetire.gen, replaced.gen}
  /\ pendingRetire.gen # 0 => pendingRetire.gen # replaced.gen

NotFreedInv ==
  /\ published.gen \notin freed /\ retired.gen \notin freed /\ owned.gen \notin freed
  /\ incoming.gen \notin freed /\ pendingRetire.gen \notin freed /\ replaced.gen \notin freed

Alive(g) == g \in {published.gen, retired.gen, owned.gen, incoming.gen,
                   pendingRetire.gen, replaced.gen}
LastIssued == latestPublished + (IF Storing THEN 1 ELSE 0)
CoverInv ==
  \A g \in Nat \ {0} : g <= LastIssued <=> g \in freed \/ Alive(g)

\* A kernel outside the retirement path is newer than any acknowledged
\* generation, so an acknowledgement of the latest one leaves none.
Acknowledging == apc \in {"ackEmpty", "ackLoad", "ackRecheck", "ackStore"}
DrainInv ==
  /\ drained <= latestPublished /\ ackGen <= latestPublished
  /\ published.gen # 0 => published.gen > drained
  /\ owned.gen # 0 => owned.gen > drained
  /\ incoming.gen # 0 => incoming.gen > drained
  /\ pendingRetire.gen # 0 => pendingRetire.gen > drained
  /\ Acknowledging => HoldsNothing
  /\ apc = "ackStore" /\ published.gen # 0 => published.gen > ackGen

\* What each read of a quiescence check has established.
CheckInv ==
  \A c \in Controllers :
    /\ cpc[c] = "readDrained" => published = NoKernel
    /\ cpc[c] = "recheck" => published = NoKernel /\ HoldsNothing
    /\ cpc[c] = "quiescent" => SlotsEmpty /\ HoldsNothing

IInv == TypeOK /\ GateInv /\ PublishInv /\ ExclusiveInv /\ NotFreedInv /\ CoverInv
        /\ DrainInv /\ CheckInv

-----------------------------------------------------------------------------
(* Slots.                                                                  *)

\* A slot is empty exactly when its generation is 0.
LEMMA EmptySlot == ASSUME NEW k \in Slot PROVE k = NoKernel <=> k.gen = 0
  BY HandoffAssumption DEF Slot, Kernel, NoKernel

\* The generation of a slot is a number, 0 when it is empty.
LEMMA SlotGen == ASSUME NEW k \in Slot PROVE k.gen \in 0 .. MaxKernels /\ k.gen \in Nat
  BY HandoffAssumption DEF Slot, Kernel, NoKernel

\* The empty slot.
LEMMA NoKernelSlot == NoKernel \in Slot /\ NoKernel.gen = 0
  BY DEF Slot, NoKernel

\* Dropping the contents of slots releases generations only.
LEMMA ReleasedType == ASSUME NEW S \in SUBSET Slot PROVE Released(S) \subseteq 1 .. MaxKernels
  BY DEF Released, Slot, Kernel

\* The invariant holds before any publication.
LEMMA InitIInv == Init => IInv
  <1> SUFFICES ASSUME Init PROVE IInv
    OBVIOUS
  <1> USE HandoffAssumption, ControllersAssumption DEF Init, NoKernel
  <1>1. TypeOK
    <2>1. NoKernel \in Slot
      BY DEF Slot
    <2>2. OwnersType /\ GenerationsType /\ CountersType
      BY <2>1 DEF OwnersType, GenerationsType, CountersType
    <2>3. ControlType /\ FlowType /\ StreamType
      BY DEF ControlType, FlowType, StreamType, ControlLabels, AudioLabels
    <2>4. QED
      BY <2>2, <2>3 DEF TypeOK
  <1>2. GateInv /\ PublishInv /\ CheckInv
    BY DEF GateInv, PublishInv, CheckInv
  <1>3. ExclusiveInv /\ NotFreedInv /\ DrainInv
    BY DEF ExclusiveInv, NotFreedInv, DrainInv, Acknowledging
  <1>4. CoverInv
    BY DEF CoverInv, Alive, LastIssued, Storing
  <1>5. QED
    BY <1>1, <1>2, <1>3, <1>4 DEF IInv

-----------------------------------------------------------------------------
(* What the two sides may do to kernels.                                   *)

\* The moves of kernel ownership that the audio side makes.
KeepOwners == UNCHANGED <<published, retired, owned, incoming, pendingRetire, freed>>
MoveToSlot ==
  /\ retired = NoKernel /\ retired' = pendingRetire /\ pendingRetire' = NoKernel
  /\ UNCHANGED <<published, owned, incoming, freed>>
MoveOwnedOut ==
  /\ pendingRetire = NoKernel /\ pendingRetire' = owned /\ owned' = NoKernel
  /\ UNCHANGED <<published, retired, incoming, freed>>
MoveIncomingOut ==
  /\ pendingRetire = NoKernel /\ pendingRetire' = incoming /\ incoming' = NoKernel
  /\ UNCHANGED <<published, retired, owned, freed>>
MoveIn ==
  /\ incoming = NoKernel /\ incoming' = published /\ published' = NoKernel
  /\ UNCHANGED <<retired, owned, pendingRetire, freed>>
MoveAdopt ==
  /\ owned = NoKernel /\ owned' = incoming /\ incoming' = NoKernel
  /\ UNCHANGED <<published, retired, pendingRetire, freed>>
MoveReplace ==
  /\ pendingRetire = NoKernel
  /\ pendingRetire' = owned /\ owned' = incoming /\ incoming' = NoKernel
  /\ UNCHANGED <<published, retired, freed>>
MoveTeardown ==
  /\ owned' = NoKernel /\ incoming' = NoKernel /\ pendingRetire' = NoKernel
  /\ freed' = freed \cup Released({owned, incoming, pendingRetire})
  /\ UNCHANGED <<published, retired>>

\* An audio step makes one of these moves and leaves the control side alone.
LEMMA AudioMoves ==
  ASSUME AudioNext
  PROVE  /\ UNCHANGED <<enabled, latestPublished, superseded, reclaimed, gate, cpc, cgen, replaced>>
         /\ \/ KeepOwners \/ MoveToSlot \/ MoveOwnedOut \/ MoveIncomingOut \/ MoveIn
            \/ MoveAdopt \/ MoveReplace \/ MoveTeardown
  <1> USE DEF slots, held, ctl, counters, controlSide, audioOutside,
        KeepOwners, MoveToSlot, MoveOwnedOut, MoveIncomingOut, MoveIn, MoveAdopt,
        MoveReplace, MoveTeardown
  <1>1. CASE SyncStep
    BY <1>1 DEF SyncStep, FlushRetired, RetireMismatchedOwned, TakePublished,
       DiscardMismatchedIncoming, SyncDisabled, ReportHeld, SyncEnabled, SkipAdoption,
       AdoptFirst, AdoptReplacement, ReportReplaced, AckCheckEmpty, AckLoad, AckRecheck,
       AckStore, AckStep, RetireOwned, DiscardIncoming, KeepHeld
  <1>2. CASE Process \/ RenderKernel
    BY <1>2 DEF Process, ProcessEnabled, ProcessDisabled, ProcessFadeOut, RenderKernel
  <1>3. CASE Finish \/ BeginFinish \/ DrainTail \/ Reset \/ SetSampleRate
    BY <1>3 DEF Finish, FinishFirst, FinishAgain, FinishAfterEnd, BeginFinish, DrainTail,
       Reset, SetSampleRate
  <1>4. CASE NewProcessor \/ DropProcessor \/ ReleaseLease
    BY <1>4 DEF NewProcessor, DropProcessor, ReleaseLease
  <1>5. QED
    BY <1>1, <1>2, <1>3, <1>4 DEF AudioNext

\* A control step frees the retired or the displaced kernel, or swaps one in.
KeepSlots == UNCHANGED <<published, retired, replaced, freed, latestPublished>>
FreeRetired ==
  /\ retired' = NoKernel /\ freed' = freed \cup Released({retired})
  /\ UNCHANGED <<published, replaced, latestPublished>>
SwapIn(c) ==
  /\ cpc[c] = "swap" /\ cpc' = [cpc EXCEPT ![c] = "store"]
  /\ \E r \in Rates : published' = [gen |-> latestPublished + 1, rate |-> r]
  /\ replaced' = published /\ cgen' = latestPublished + 1
  /\ UNCHANGED <<retired, freed, latestPublished>>
StoreLatest(c) ==
  /\ cpc[c] = "store" /\ cpc' = [cpc EXCEPT ![c] = "supersede"]
  /\ latestPublished' = cgen /\ UNCHANGED <<published, retired, replaced, freed>>
FreeReplaced(c) ==
  /\ cpc[c] = "supersede" /\ cpc' = [cpc EXCEPT ![c] = "reclaim"]
  /\ replaced' = NoKernel /\ freed' = freed \cup Released({replaced})
  /\ UNCHANGED <<published, retired, latestPublished>>

\* A step that neither enters nor leaves the part of a publication between the
\* swap and the disposal of the displaced kernel.
Elsewhere(c) ==
  /\ \E l \in ControlLabels \ {"store", "supersede"} : cpc' = [cpc EXCEPT ![c] = l]
  /\ cpc[c] \notin {"store", "supersede"}

\* A control step touches none of the audio side, and makes one of these moves.
LEMMA ControlMoves ==
  ASSUME ControlNext
  PROVE  /\ UNCHANGED <<owned, incoming, pendingRetire, rate, apc, flushNext, after, ackGen,
                        lifecycle, finishGen, finishLeft, level, ramp, target, dryWait,
                        consumerActive, latestAdopted, adopted, discarded, retiredCount,
                        drained, backpressured, teardowns>>
         /\ \/ KeepSlots /\ UNCHANGED cpc
            \/ \E c \in Controllers :
                 \/ (KeepSlots \/ FreeRetired) /\ Elsewhere(c)
                 \/ SwapIn(c) \/ StoreLatest(c) \/ FreeReplaced(c)
  <1> USE DEF slots, held, counters, audio, flow, finishVars, wetVars, ControlStep, ControlLabels,
        KeepSlots, FreeRetired, SwapIn, StoreLatest, FreeReplaced, Elsewhere
  <1>1. CASE SetEnabled
    BY <1>1 DEF SetEnabled, ctl
  <1>2. ASSUME NEW c \in Controllers, BeginPublish(c) \/ BeginReclaim(c) \/ BeginCheck(c)
        PROVE KeepSlots /\ Elsewhere(c)
    BY <1>2 DEF BeginPublish, BeginReclaim, BeginCheck, LockGate
  <1>3. ASSUME NEW c \in Controllers, PublishReclaimFirst(c) \/ ReclaimAndUnlock(c)
        PROVE FreeRetired /\ Elsewhere(c)
    BY <1>3 DEF PublishReclaimFirst, ReclaimAndUnlock, ReclaimRetired
  <1>4. ASSUME NEW c \in Controllers, PublishSwap(c) PROVE SwapIn(c)
    BY <1>4 DEF PublishSwap
  <1>5. ASSUME NEW c \in Controllers, PublishStore(c) PROVE StoreLatest(c)
    BY <1>5 DEF PublishStore
  <1>6. ASSUME NEW c \in Controllers, PublishSupersede(c) PROVE FreeReplaced(c)
    BY <1>6 DEF PublishSupersede
  <1>7. ASSUME NEW c \in Controllers,
               CheckEnabled(c) \/ CheckSlots(c) \/ CheckDrained(c) \/ RecheckSlots(c)
               \/ AnswerQuiescent(c)
        PROVE KeepSlots /\ Elsewhere(c)
    BY <1>7 DEF CheckEnabled, CheckSlots, CheckDrained, RecheckSlots, AnswerQuiescent, CheckStep
  <1>8. UNCHANGED <<owned, incoming, pendingRetire, rate, apc, flushNext, after, ackGen,
                    lifecycle, finishGen, finishLeft, level, ramp, target, dryWait,
                    consumerActive, latestAdopted, adopted, discarded, retiredCount,
                    drained, backpressured, teardowns>>
    BY DEF ControlNext, SetEnabled, BeginPublish, BeginReclaim, BeginCheck, LockGate,
       PublishReclaimFirst, PublishSwap, PublishStore, PublishSupersede, ReclaimAndUnlock,
       ReclaimRetired, CheckEnabled, CheckSlots, CheckDrained, RecheckSlots, AnswerQuiescent,
       CheckStep
  <1>9. QED
    BY <1>1, <1>2, <1>3, <1>4, <1>5, <1>6, <1>7, <1>8 DEF ControlNext

-----------------------------------------------------------------------------
(* Type correctness, group by group.                                       *)

\* Owners keep holding kernels of published generations.
LEMMA OwnersStep ==
  ASSUME OwnersType, GenerationsType, PublishInv, ControlNext \/ AudioNext
  PROVE  OwnersType'
  <1> USE NoKernelSlot, ReleasedType DEF OwnersType
  <1>1. CASE AudioNext
    BY <1>1, AudioMoves DEF KeepOwners, MoveToSlot, MoveOwnedOut, MoveIncomingOut, MoveIn,
       MoveAdopt, MoveReplace, MoveTeardown
  <1>2. CASE ControlNext
    <2>1. ASSUME NEW c \in Controllers, SwapIn(c) PROVE published' \in Slot
      <3>1. latestPublished + 1 \in 1 .. MaxKernels
        BY <2>1, HandoffAssumption DEF SwapIn, PublishInv, GenerationsType
      <3>2. QED
        BY <2>1, <3>1 DEF SwapIn, Slot, Kernel
    <2>2. UNCHANGED <<owned, incoming, pendingRetire>>
      BY <1>2, ControlMoves
    <2>3. CASE KeepSlots
      BY <2>2, <2>3 DEF KeepSlots
    <2>4. CASE FreeRetired
      BY <2>2, <2>4 DEF FreeRetired
    <2>5. ASSUME NEW c \in Controllers, SwapIn(c) \/ StoreLatest(c) \/ FreeReplaced(c)
          PROVE OwnersType'
      BY <2>1, <2>2, <2>5 DEF SwapIn, StoreLatest, FreeReplaced
    <2>6. QED
      BY <1>2, <2>3, <2>4, <2>5, ControlMoves
  <1>3. QED
    BY <1>1, <1>2

\* Generations stay within the publications made.
LEMMA GenerationsStep ==
  ASSUME GenerationsType, OwnersType, PublishInv, ControlNext \/ AudioNext
  PROVE  GenerationsType'
  <1> USE HandoffAssumption DEF GenerationsType
  <1>1. owned.gen \in 0 .. MaxKernels /\ incoming.gen \in 0 .. MaxKernels
    BY SlotGen DEF OwnersType
  <1>2. CASE AudioNext
    <2>1. latestPublished' = latestPublished /\ cgen' = cgen
      BY <1>2, AudioMoves
    <2>2. drained' \in 0 .. MaxKernels /\ ackGen' \in 0 .. MaxKernels
      BY <1>2 DEF AudioNext, Process, ProcessEnabled, ProcessDisabled, ProcessFadeOut,
         RenderKernel, SyncStep, FlushRetired, RetireMismatchedOwned, TakePublished,
         DiscardMismatchedIncoming, SyncDisabled, ReportHeld, SyncEnabled, SkipAdoption,
         AdoptFirst, AdoptReplacement, ReportReplaced, AckCheckEmpty, AckLoad, AckRecheck,
         AckStore, AckStep, Finish, FinishFirst, FinishAgain, FinishAfterEnd, BeginFinish,
         DrainTail, Reset, SetSampleRate, NewProcessor, DropProcessor, ReleaseLease,
         audioOutside, controlSide, flow, StartSync, Goto, GotoFlush, Return
    <2>3. latestAdopted' \in 0 .. MaxKernels
      BY <1>1, <1>2 DEF AudioNext, Process, ProcessEnabled, ProcessDisabled, ProcessFadeOut,
         RenderKernel, SyncStep, FlushRetired, RetireMismatchedOwned, TakePublished,
         DiscardMismatchedIncoming, SyncDisabled, ReportHeld, SyncEnabled, SkipAdoption,
         AdoptFirst, AdoptReplacement, ReportReplaced, AckCheckEmpty, AckLoad, AckRecheck,
         AckStore, AckStep, Finish, FinishFirst, FinishAgain, FinishAfterEnd, BeginFinish,
         DrainTail, Reset, SetSampleRate, NewProcessor, DropProcessor, ReleaseLease,
         audioOutside, counters
    <2>4. finishGen' \in 0 .. MaxKernels
      BY <1>1, <1>2 DEF AudioNext, Process, ProcessEnabled, ProcessDisabled, ProcessFadeOut,
         RenderKernel, SyncStep, FlushRetired, RetireMismatchedOwned, TakePublished,
         DiscardMismatchedIncoming, SyncDisabled, ReportHeld, SyncEnabled, SkipAdoption,
         AdoptFirst, AdoptReplacement, ReportReplaced, AckCheckEmpty, AckLoad, AckRecheck,
         AckStore, AckStep, Finish, FinishFirst, FinishAgain, FinishAfterEnd, BeginFinish,
         DrainTail, Reset, SetSampleRate, NewProcessor, DropProcessor, ReleaseLease,
         finishVars, ClearFinish
    <2>5. QED
      BY <2>1, <2>2, <2>3, <2>4
  <1>3. CASE ControlNext
    <2>1. UNCHANGED <<drained, ackGen, latestAdopted, finishGen>>
      BY <1>3, ControlMoves
    <2>2. latestPublished' \in 0 .. MaxKernels
      BY <1>3, ControlMoves DEF KeepSlots, FreeRetired, SwapIn, StoreLatest, FreeReplaced
    <2>3. cgen' \in 0 .. MaxKernels
      BY <1>3 DEF PublishInv, ControlNext, SetEnabled, ctl, BeginPublish, BeginReclaim,
         BeginCheck, LockGate, PublishReclaimFirst, PublishSwap, ControlStep, PublishStore,
         PublishSupersede, ReclaimAndUnlock, ReclaimRetired, CheckEnabled, CheckSlots,
         CheckDrained, RecheckSlots, AnswerQuiescent, CheckStep
    <2>4. QED
      BY <2>1, <2>2, <2>3
  <1>4. QED
    BY <1>2, <1>3

\* Counters stay natural numbers.
LEMMA CountersStep == ASSUME CountersType, ControlNext \/ AudioNext PROVE CountersType'
  <1> USE DEF CountersType
  <1>1. CASE ControlNext
    BY <1>1, ControlMoves DEF ControlNext, SetEnabled, BeginPublish, BeginReclaim, BeginCheck,
       LockGate, PublishReclaimFirst, PublishSwap, PublishStore, PublishSupersede,
       ReclaimAndUnlock, ReclaimRetired, CheckEnabled, CheckSlots, CheckDrained, RecheckSlots,
       AnswerQuiescent, CheckStep, counters
  <1>2. CASE AudioNext
    BY <1>2, AudioMoves DEF AudioNext, Process, ProcessEnabled, ProcessDisabled,
       ProcessFadeOut, RenderKernel, SyncStep, FlushRetired, RetireMismatchedOwned,
       TakePublished, DiscardMismatchedIncoming, SyncDisabled, ReportHeld, SyncEnabled,
       SkipAdoption, AdoptFirst, AdoptReplacement, ReportReplaced, AckCheckEmpty, AckLoad,
       AckRecheck, AckStore, AckStep, Finish, FinishFirst, FinishAgain, FinishAfterEnd,
       BeginFinish, DrainTail, Reset, SetSampleRate, NewProcessor, DropProcessor,
       ReleaseLease, audioOutside, controlSide, counters, KeepHeld, RetireOwned,
       DiscardIncoming
  <1>3. QED
    BY <1>1, <1>2

\* The gate, the flags and the control program counters stay typed.
LEMMA ControlTypeStep == ASSUME ControlType, ControlNext \/ AudioNext PROVE ControlType'
  <1> USE DEF ControlType
  <1>1. CASE ControlNext
    <2>1. UNCHANGED <<consumerActive, backpressured>>
      BY <1>1, ControlMoves
    <2>2. cpc' \in [Controllers -> ControlLabels]
      BY <1>1, ControlMoves DEF Elsewhere, SwapIn, StoreLatest, FreeReplaced, ControlLabels
    <2>3. enabled' \in BOOLEAN /\ gate' \in Controllers \cup {NoOne}
      BY <1>1 DEF ControlNext, SetEnabled, ctl, BeginPublish, BeginReclaim, BeginCheck,
         LockGate, PublishReclaimFirst, PublishSwap, PublishStore, PublishSupersede,
         ReclaimAndUnlock, ReclaimRetired, CheckEnabled, CheckSlots, CheckDrained,
         RecheckSlots, AnswerQuiescent, CheckStep
    <2>4. QED
      BY <2>1, <2>2, <2>3
  <1>2. CASE AudioNext
    <2>1. UNCHANGED <<enabled, gate, cpc>>
      BY <1>2, AudioMoves
    <2>2. consumerActive' \in BOOLEAN
      BY <1>2 DEF AudioNext, Process, ProcessEnabled, ProcessDisabled,
         ProcessFadeOut, RenderKernel, SyncStep, FlushRetired, RetireMismatchedOwned,
         TakePublished, DiscardMismatchedIncoming, SyncDisabled, ReportHeld, SyncEnabled,
         SkipAdoption, AdoptFirst, AdoptReplacement, ReportReplaced, AckCheckEmpty, AckLoad,
         AckRecheck, AckStore, AckStep, Finish, FinishFirst, FinishAgain, FinishAfterEnd,
         BeginFinish, DrainTail, Reset, SetSampleRate, NewProcessor, DropProcessor,
         ReleaseLease, audioOutside, controlSide
    <2>3. backpressured' \in BOOLEAN
      BY <1>2 DEF AudioNext, Process, ProcessEnabled, ProcessDisabled,
         ProcessFadeOut, RenderKernel, SyncStep, FlushRetired, RetireMismatchedOwned,
         TakePublished, DiscardMismatchedIncoming, SyncDisabled, ReportHeld, SyncEnabled,
         SkipAdoption, AdoptFirst, AdoptReplacement, ReportReplaced, AckCheckEmpty, AckLoad,
         AckRecheck, AckStore, AckStep, Finish, FinishFirst, FinishAgain, FinishAfterEnd,
         BeginFinish, DrainTail, Reset, SetSampleRate, NewProcessor, DropProcessor,
         ReleaseLease, audioOutside, controlSide,
         HoldsNothing, Mismatches
    <2>4. QED
      BY <2>1, <2>2, <2>3
  <1>3. QED
    BY <1>1, <1>2

\* The audio program counter stays within the code of the consumer.
LEMMA FlowStep == ASSUME FlowType, ControlNext \/ AudioNext PROVE FlowType'
  <1> USE DEF FlowType
  <1>1. CASE ControlNext
    BY <1>1, ControlMoves
  <1>2. CASE AudioNext
    <2> USE DEF AudioLabels, Goto, GotoFlush, StartSync, Return, flow
    <2>1. CASE SyncStep
      BY <2>1 DEF SyncStep, FlushRetired, RetireMismatchedOwned, TakePublished,
         DiscardMismatchedIncoming, SyncDisabled, ReportHeld, SyncEnabled, SkipAdoption,
         AdoptFirst, AdoptReplacement, ReportReplaced, AckCheckEmpty, AckLoad, AckRecheck,
         AckStore, AckStep
    <2>2. CASE Process \/ RenderKernel
      BY <2>2 DEF Process, ProcessEnabled, ProcessDisabled, ProcessFadeOut, RenderKernel
    <2>3. CASE Finish \/ BeginFinish \/ DrainTail \/ Reset \/ SetSampleRate
      BY <2>3 DEF Finish, FinishFirst, FinishAgain, FinishAfterEnd, BeginFinish, DrainTail,
         Reset, SetSampleRate
    <2>4. CASE NewProcessor \/ DropProcessor \/ ReleaseLease
      BY <2>4 DEF NewProcessor, DropProcessor, ReleaseLease
    <2>5. QED
      BY <1>2, <2>1, <2>2, <2>3, <2>4 DEF AudioNext
  <1>3. QED
    BY <1>1, <1>2

\* Wet-ramp helpers keep the ramp typed whatever the block size.
RampType ==
  level \in {"dry", "mid", "full"} /\ target \in {"dry", "full"} /\ ramp \in Nat

\* `advance_transition` keeps the ramp typed.
LEMMA AdvanceType ==
  ASSUME NEW t \in {"dry", "full"}, NEW l \in {"dry", "mid", "full"}, NEW left \in Nat,
         NEW n \in Nat, AdvanceTransition(l, left, t, n)
  PROVE  RampType'
  BY DEF AdvanceTransition, RampType

\* So do `set_steady_wet` and `begin_transition`.
LEMMA BeginType ==
  ASSUME RampType, NEW t \in {"dry", "full"}, NEW n \in Nat,
         SteadyWet(t) \/ BeginTransition(t) \/ BeginAndAdvance(t, n)
  PROVE  RampType'
  <1>1. CASE SteadyWet(t) \/ BeginTransition(t)
    BY <1>1, HandoffAssumption DEF SteadyWet, BeginTransition, RampType
  <1>2. CASE BeginAndAdvance(t, n) /\ level = t
    BY <1>2 DEF BeginAndAdvance, SteadyWet, RampType
  <1>3. CASE BeginAndAdvance(t, n) /\ level # t
    <2>1. AdvanceTransition(level, RampBlocks, t, n) /\ RampBlocks \in Nat
      BY <1>3, HandoffAssumption DEF BeginAndAdvance
    <2>2. QED
      BY <2>1, AdvanceType DEF RampType
  <1>4. QED
    BY <1>1, <1>2, <1>3

\* No step leaves the ramp untyped.
LEMMA RampStep ==
  ASSUME RampType, finishLeft \in Nat, ControlNext \/ AudioNext
  PROVE  RampType'
  <1>1. CASE ControlNext
    BY <1>1, ControlMoves DEF RampType
  <1>2. CASE SyncStep
    <2>1. UNCHANGED <<level, ramp, target>> \/ SteadyWet("dry") \/ SteadyWet("full")
          \/ BeginTransition("full")
      BY <1>2 DEF SyncStep, FlushRetired, RetireMismatchedOwned, TakePublished,
         DiscardMismatchedIncoming, SyncDisabled, ReportHeld, SyncEnabled, SkipAdoption,
         AdoptFirst, AdoptReplacement, ReportReplaced, AckCheckEmpty, AckLoad, AckRecheck,
         AckStore, AckStep, wetVars
    <2>2. QED
      BY <2>1, BeginType DEF RampType
  <1>3. CASE AudioNext /\ ~SyncStep
    <2>1. \/ UNCHANGED <<level, ramp, target>> \/ SteadyWet("dry") \/ SteadyWet("full")
          \/ \E n \in Blocks : BeginAndAdvance("dry", n) \/ BeginAndAdvance("full", n)
          \/ \E n \in Nat : AdvanceTransition(level, ramp, target, n)
      <3>1. CASE Process
        BY <1>3, <3>1, HandoffAssumption
           DEF Process, ProcessEnabled, ProcessDisabled, ProcessFadeOut, wetVars
      <3>2. CASE RenderKernel
        BY <3>2, HandoffAssumption DEF RenderKernel
      <3>3. CASE DrainTail
        BY <3>3, HandoffAssumption DEF DrainTail, Min2
      <3>4. CASE Finish \/ BeginFinish \/ Reset \/ SetSampleRate \/ NewProcessor
                 \/ DropProcessor \/ ReleaseLease
        BY <3>4 DEF Finish, FinishFirst, FinishAgain, FinishAfterEnd, BeginFinish, Reset,
           SetSampleRate, NewProcessor, DropProcessor, ReleaseLease, wetVars
      <3>5. QED
        BY <1>3, <3>1, <3>2, <3>3, <3>4 DEF AudioNext
    <2>2. QED
      BY <2>1, BeginType, AdvanceType, HandoffAssumption DEF RampType
  <1>4. QED
    BY <1>1, <1>2, <1>3

\* The stream rate, the finish state and the wet ramp stay typed.
LEMMA StreamStep == ASSUME StreamType, ControlNext \/ AudioNext PROVE StreamType'
  <1>1. RampType'
    BY RampStep DEF StreamType, RampType
  <1>2. CASE ControlNext
    BY <1>2, ControlMoves DEF StreamType
  <1>3. CASE AudioNext
    <2> USE <1>3, HandoffAssumption
        DEF StreamType, AudioNext, Process, ProcessEnabled, ProcessDisabled, ProcessFadeOut,
        RenderKernel, SyncStep, FlushRetired, RetireMismatchedOwned, TakePublished,
        DiscardMismatchedIncoming, SyncDisabled, ReportHeld, SyncEnabled, SkipAdoption,
        AdoptFirst, AdoptReplacement, ReportReplaced, AckCheckEmpty, AckLoad, AckRecheck,
        AckStore, AckStep, Finish, FinishFirst, FinishAgain, FinishAfterEnd, BeginFinish,
        DrainTail, Reset, SetSampleRate, NewProcessor, DropProcessor, ReleaseLease,
        finishVars, wetVars
    <2>1. rate' \in Rates
      OBVIOUS
    <2>2. lifecycle' \in {"processing", "finishing", "finished"}
      BY DEF ClearFinish
    <2>3. finishLeft' \in Nat
      BY DEF ClearFinish, Min2
    <2>4. dryWait' \in BOOLEAN
      OBVIOUS
    <2>5. QED
      BY <1>1, <2>1, <2>2, <2>3, <2>4 DEF RampType
  <1>4. QED
    BY <1>2, <1>3

\* Type correctness is inductive given what a publication knows.
LEMMA TypeStep == ASSUME TypeOK, PublishInv, [Next]_vars PROVE TypeOK'
  <1>1. CASE UNCHANGED vars
    BY <1>1 DEF vars, TypeOK, OwnersType, GenerationsType, CountersType, ControlType, FlowType,
       StreamType, slots, counters, ctl, audio, held, flow, finishVars, wetVars
  <1>2. CASE ControlNext \/ AudioNext
    BY <1>2, OwnersStep, GenerationsStep, CountersStep, ControlTypeStep, FlowStep, StreamStep
       DEF TypeOK
  <1>3. QED
    BY <1>1, <1>2 DEF Next

-----------------------------------------------------------------------------
(* The gate and the publication in progress.                               *)

\* The gate serialises control operations.
LEMMA GateStep == ASSUME TypeOK, GateInv, ControlNext \/ AudioNext PROVE GateInv'
  <1> USE ControllersAssumption DEF GateInv, TypeOK, ControlType
  <1>1. CASE AudioNext
    BY <1>1, AudioMoves
  <1>2. CASE SetEnabled
    BY <1>2 DEF SetEnabled, ctl
  <1>3. ASSUME NEW c \in Controllers, BeginPublish(c) \/ BeginReclaim(c) \/ BeginCheck(c)
        PROVE GateInv'
    BY <1>3 DEF BeginPublish, BeginReclaim, BeginCheck, LockGate, ControlStep
  <1>4. ASSUME NEW c \in Controllers,
               PublishReclaimFirst(c) \/ PublishSwap(c) \/ PublishStore(c)
               \/ PublishSupersede(c) \/ ReclaimAndUnlock(c)
        PROVE GateInv'
    BY <1>4 DEF PublishReclaimFirst, PublishSwap, PublishStore, PublishSupersede,
       ReclaimAndUnlock, ControlStep
  <1>5. ASSUME NEW c \in Controllers,
               CheckEnabled(c) \/ CheckSlots(c) \/ CheckDrained(c) \/ RecheckSlots(c)
               \/ AnswerQuiescent(c)
        PROVE GateInv'
    BY <1>5 DEF CheckEnabled, CheckSlots, CheckDrained, RecheckSlots, AnswerQuiescent,
       CheckStep, ControlStep
  <1>6. QED
    BY <1>1, <1>2, <1>3, <1>4, <1>5 DEF ControlNext, Next

\* A publication keeps what it knows while it holds the gate.
LEMMA PublishStep ==
  ASSUME TypeOK, GateInv, PublishInv, ControlNext \/ AudioNext
  PROVE  PublishInv'
  <1> USE DEF PublishInv, TypeOK, ControlType, GenerationsType
  <1>1. CASE AudioNext
    BY <1>1, AudioMoves
  <1>2. CASE SetEnabled
    BY <1>2 DEF SetEnabled, ctl
  <1>3. ASSUME NEW c \in Controllers, BeginPublish(c) \/ BeginReclaim(c) \/ BeginCheck(c)
        PROVE PublishInv'
    BY <1>3 DEF GateInv, BeginPublish, BeginReclaim, BeginCheck, LockGate, ControlStep
  <1>4. ASSUME NEW c \in Controllers, PublishReclaimFirst(c) \/ ReclaimAndUnlock(c)
        PROVE PublishInv'
    BY <1>4 DEF GateInv, PublishReclaimFirst, ReclaimAndUnlock, ReclaimRetired, ControlStep
  <1>5. ASSUME NEW c \in Controllers, PublishSwap(c) PROVE PublishInv'
    BY <1>5 DEF GateInv, PublishSwap, ControlStep
  <1>6. ASSUME NEW c \in Controllers, PublishStore(c) PROVE PublishInv'
    BY <1>6 DEF GateInv, PublishStore, ControlStep
  <1>7. ASSUME NEW c \in Controllers, PublishSupersede(c) PROVE PublishInv'
    BY <1>7 DEF GateInv, PublishSupersede, ControlStep
  <1>8. ASSUME NEW c \in Controllers,
               CheckEnabled(c) \/ CheckSlots(c) \/ CheckDrained(c) \/ RecheckSlots(c)
               \/ AnswerQuiescent(c)
        PROVE PublishInv'
    BY <1>8 DEF CheckEnabled, CheckSlots, CheckDrained, RecheckSlots, AnswerQuiescent,
       CheckStep, ControlStep
  <1>9. QED
    BY <1>1, <1>2, <1>3, <1>4, <1>5, <1>6, <1>7, <1>8 DEF ControlNext

-----------------------------------------------------------------------------
(* Ownership.                                                              *)

OwnershipInv == ExclusiveInv /\ NotFreedInv /\ CoverInv

\* Audio moves permute the owners or release at teardown.
LEMMA AudioOwnership ==
  ASSUME OwnersType, GenerationsType, OwnershipInv, AudioNext
  PROVE  OwnershipInv'
  <1>1. /\ published.gen \in Nat /\ retired.gen \in Nat /\ owned.gen \in Nat
        /\ incoming.gen \in Nat /\ pendingRetire.gen \in Nat /\ replaced.gen \in Nat
    BY SlotGen DEF OwnersType
  <1>2. LastIssued' = LastIssued /\ replaced' = replaced
    BY AudioMoves DEF LastIssued, Storing
  <1> USE <1>1, <1>2, NoKernelSlot DEF OwnershipInv, ExclusiveInv, NotFreedInv, CoverInv, Alive
  <1>3. CASE KeepOwners
    BY <1>3 DEF KeepOwners
  <1>4. CASE MoveToSlot
    BY <1>4 DEF MoveToSlot
  <1>5. CASE MoveOwnedOut
    BY <1>5 DEF MoveOwnedOut
  <1>6. CASE MoveIncomingOut
    BY <1>6 DEF MoveIncomingOut
  <1>7. CASE MoveIn
    BY <1>7 DEF MoveIn
  <1>8. CASE MoveAdopt
    BY <1>8 DEF MoveAdopt
  <1>9. CASE MoveReplace
    BY <1>9 DEF MoveReplace
  <1>10. CASE MoveTeardown
    <2>1. \A g \in Nat \ {0} :
            g \in Released({owned, incoming, pendingRetire})
              <=> g \in {owned.gen, incoming.gen, pendingRetire.gen}
      BY DEF Released, OwnersType, Slot, Kernel, NoKernel
    <2>2. 0 \notin Released({owned, incoming, pendingRetire})
      BY DEF Released, OwnersType, Slot, Kernel, NoKernel
    <2>3. /\ owned'.gen = 0 /\ incoming'.gen = 0 /\ pendingRetire'.gen = 0
          /\ published'.gen = published.gen /\ retired'.gen = retired.gen
          /\ replaced'.gen = replaced.gen
      BY <1>10 DEF MoveTeardown
    <2>4. \A g \in Nat :
            g \in freed'
              <=> (g \in freed \/ (g # 0 /\ g \in {owned.gen, incoming.gen, pendingRetire.gen}))
      BY <1>10, <2>1, <2>2 DEF MoveTeardown
    <2>5. ExclusiveInv'
      BY <2>3
    <2>6. NotFreedInv'
      <3>1. 0 \notin freed /\ 0 \notin freed'
        BY <1>10, <2>2 DEF OwnersType, MoveTeardown
      <3>2. QED
        BY <2>3, <2>4, <3>1
    <2>7. CoverInv'
      <3>1. ASSUME NEW g \in Nat \ {0}
            PROVE  g <= LastIssued <=> g \in freed' \/ Alive(g)'
        BY <2>3, <2>4
      <3>2. QED
        BY <1>2, <3>1
    <2>8. QED
      BY <2>5, <2>6, <2>7
  <1>11. QED
    BY <1>3, <1>4, <1>5, <1>6, <1>7, <1>8, <1>9, <1>10, AudioMoves

\* A control move frees a kernel nobody else holds, or installs a new one.
LEMMA ControlOwnership ==
  ASSUME TypeOK, GateInv, PublishInv, OwnershipInv, ControlNext
  PROVE  OwnershipInv'
  <1>1. /\ published.gen \in Nat /\ retired.gen \in Nat /\ owned.gen \in Nat
        /\ incoming.gen \in Nat /\ pendingRetire.gen \in Nat /\ replaced.gen \in Nat
        /\ latestPublished \in Nat /\ 0 \notin freed
    BY SlotGen, HandoffAssumption DEF TypeOK, OwnersType, GenerationsType
  <1>2. owned' = owned /\ incoming' = incoming /\ pendingRetire' = pendingRetire
    BY ControlMoves
  <1>3. ASSUME NEW k \in {retired, replaced}
        PROVE  \A g \in Nat : g \in Released({k}) <=> (g # 0 /\ g = k.gen)
    BY DEF Released, TypeOK, OwnersType, Slot, Kernel, NoKernel
  <1>4. CASE KeepSlots /\ Storing' = Storing
    BY <1>1, <1>2, <1>4 DEF KeepSlots, OwnershipInv, ExclusiveInv, NotFreedInv, CoverInv, Alive,
       LastIssued
  <1>5. CASE FreeRetired /\ Storing' = Storing
    <2>1. LastIssued' = LastIssued /\ retired'.gen = 0 /\ published' = published
          /\ replaced' = replaced
      BY <1>5, NoKernelSlot DEF FreeRetired, LastIssued
    <2>2. \A g \in Nat : g \in freed' <=> (g \in freed \/ (g # 0 /\ g = retired.gen))
      BY <1>3, <1>5 DEF FreeRetired
    <2>3. QED
      BY <1>1, <1>2, <2>1, <2>2 DEF OwnershipInv, ExclusiveInv, NotFreedInv, CoverInv, Alive
  <1>6. ASSUME NEW c \in Controllers, SwapIn(c) PROVE OwnershipInv'
    <2>1. ~Storing /\ Storing'
      BY <1>6 DEF SwapIn, Storing, GateInv, TypeOK, ControlType
    <2>2. LastIssued = latestPublished /\ LastIssued' = latestPublished + 1
      BY <1>1, <1>6, <2>1 DEF SwapIn, LastIssued
    <2>3. /\ published'.gen = latestPublished + 1 /\ replaced'.gen = published.gen
          /\ retired' = retired /\ freed' = freed
      BY <1>6 DEF SwapIn
    <2>4. replaced.gen = 0
      BY <1>6, NoKernelSlot DEF SwapIn, PublishInv, GateInv, TypeOK, ControlType
    <2>5. \A g \in Nat \ {0} : g <= latestPublished <=> g \in freed \/ Alive(g)
      BY <2>2 DEF OwnershipInv, CoverInv
    <2>6. latestPublished + 1 \notin freed /\ ~Alive(latestPublished + 1)
      BY <1>1, <2>5
    <2>7. ExclusiveInv' /\ NotFreedInv'
      BY <1>1, <1>2, <2>3, <2>4, <2>6 DEF OwnershipInv, ExclusiveInv, NotFreedInv, Alive
    <2>8. CoverInv'
      BY <1>1, <1>2, <2>2, <2>3, <2>4, <2>5 DEF CoverInv, Alive
    <2>9. QED
      BY <2>7, <2>8 DEF OwnershipInv
  <1>7. ASSUME NEW c \in Controllers, StoreLatest(c) PROVE OwnershipInv'
    <2>1. Storing /\ ~Storing'
      BY <1>7 DEF StoreLatest, Storing, GateInv, TypeOK, ControlType
    <2>2. LastIssued' = LastIssued
      BY <1>1, <1>7, <2>1 DEF StoreLatest, PublishInv, LastIssued
    <2>3. QED
      BY <1>2, <1>7, <2>2 DEF StoreLatest, OwnershipInv, ExclusiveInv, NotFreedInv, CoverInv, Alive
  <1>8. ASSUME NEW c \in Controllers, FreeReplaced(c) PROVE OwnershipInv'
    <2>1. ~Storing /\ ~Storing'
      BY <1>8 DEF FreeReplaced, Storing, GateInv, TypeOK, ControlType
    <2>2. LastIssued' = LastIssued /\ replaced'.gen = 0 /\ published' = published
          /\ retired' = retired
      BY <1>8, <2>1, NoKernelSlot DEF FreeReplaced, LastIssued
    <2>3. \A g \in Nat : g \in freed' <=> (g \in freed \/ (g # 0 /\ g = replaced.gen))
      BY <1>3, <1>8 DEF FreeReplaced
    <2>4. QED
      BY <1>1, <1>2, <2>2, <2>3 DEF OwnershipInv, ExclusiveInv, NotFreedInv, CoverInv, Alive
  <1>9. ASSUME NEW c \in Controllers, Elsewhere(c) PROVE Storing' = Storing
    BY <1>9 DEF Elsewhere, Storing, GateInv, TypeOK, ControlType
  <1>10. CASE KeepSlots /\ UNCHANGED cpc
    BY <1>4, <1>10 DEF Storing
  <1>11. QED
    BY <1>4, <1>5, <1>6, <1>7, <1>8, <1>9, <1>10, ControlMoves

-----------------------------------------------------------------------------
(* Acknowledged generations.                                               *)

\* The acknowledgement state after an audio step: either nothing moves, or one
\* of its four steps is taken, or one is begun by a consumer that holds nothing.
LEMMA AckMoves ==
  ASSUME AudioNext, FlowType
  PROVE  /\ \/ drained' = drained
            \/ apc = "ackStore" /\ drained' = ackGen /\ KeepOwners /\ ~Acknowledging'
         /\ ackGen' \in {ackGen, 0, latestPublished}
         /\ Acknowledging' => HoldsNothing' \/ (Acknowledging /\ KeepOwners)
         /\ apc' = "ackStore" => published' = NoKernel
  <1> USE DEF Acknowledging, KeepOwners, HoldsNothing, Goto, GotoFlush, StartSync, Return, flow,
        slots, held, controlSide, audioOutside, FlowType
  <1>1. CASE SyncStep
    <2>1. CASE AckCheckEmpty \/ AckLoad \/ AckRecheck \/ AckStore
      BY <2>1 DEF AckCheckEmpty, AckLoad, AckRecheck, AckStore, AckStep
    <2>2. CASE ReportHeld
      BY <2>2 DEF ReportHeld
    <2>3. CASE FlushRetired \/ RetireMismatchedOwned \/ TakePublished
               \/ DiscardMismatchedIncoming \/ SyncDisabled \/ SyncEnabled \/ SkipAdoption
               \/ AdoptFirst \/ AdoptReplacement \/ ReportReplaced
      BY <2>3 DEF FlushRetired, RetireMismatchedOwned, TakePublished,
         DiscardMismatchedIncoming, SyncDisabled, SyncEnabled, SkipAdoption, AdoptFirst,
         AdoptReplacement, ReportReplaced
    <2>4. QED
      BY <1>1, <2>1, <2>2, <2>3 DEF SyncStep
  <1>2. CASE Process \/ RenderKernel
    BY <1>2 DEF Process, ProcessEnabled, ProcessDisabled, ProcessFadeOut, RenderKernel
  <1>3. CASE Finish \/ BeginFinish \/ DrainTail \/ Reset \/ SetSampleRate
    BY <1>3 DEF Finish, FinishFirst, FinishAgain, FinishAfterEnd, BeginFinish, DrainTail,
       Reset, SetSampleRate
  <1>4. CASE NewProcessor \/ DropProcessor \/ ReleaseLease
    BY <1>4 DEF NewProcessor, DropProcessor, ReleaseLease
  <1>5. QED
    BY <1>1, <1>2, <1>3, <1>4 DEF AudioNext

\* Acknowledgements never cover a kernel the audio side can still adopt.
LEMMA DrainStep ==
  ASSUME TypeOK, PublishInv, DrainInv, ControlNext \/ AudioNext
  PROVE  DrainInv'
  <1>1. /\ published.gen \in Nat /\ owned.gen \in Nat /\ incoming.gen \in Nat
        /\ pendingRetire.gen \in Nat /\ latestPublished \in Nat /\ drained \in Nat
        /\ ackGen \in Nat /\ NoKernel.gen = 0
    BY SlotGen, NoKernelSlot, HandoffAssumption DEF TypeOK, OwnersType, GenerationsType
  <1>2. CASE AudioNext
    <2>1. latestPublished' = latestPublished
      BY <1>2, AudioMoves
    <2>2. FlowType
      BY DEF TypeOK
    <2>3. drained' <= latestPublished /\ ackGen' <= latestPublished
      BY <1>1, <1>2, <2>2, AckMoves DEF DrainInv
    <2>4. /\ published'.gen # 0 => published'.gen > drained'
          /\ owned'.gen # 0 => owned'.gen > drained'
          /\ incoming'.gen # 0 => incoming'.gen > drained'
          /\ pendingRetire'.gen # 0 => pendingRetire'.gen > drained'
      <3>1. CASE drained' = drained
        BY <1>1, <1>2, <3>1, AudioMoves
           DEF DrainInv, KeepOwners, MoveToSlot, MoveOwnedOut, MoveIncomingOut, MoveIn,
               MoveAdopt, MoveReplace, MoveTeardown
      <3>2. CASE apc = "ackStore" /\ drained' = ackGen /\ KeepOwners
        BY <1>1, <3>2 DEF DrainInv, KeepOwners, Acknowledging, HoldsNothing
      <3>3. QED
        BY <1>2, <2>2, <3>1, <3>2, AckMoves
    <2>5. Acknowledging' => HoldsNothing'
      BY <1>2, <2>2, AckMoves DEF DrainInv, KeepOwners, HoldsNothing
    <2>6. apc' = "ackStore" => published'.gen = 0
      BY <1>1, <1>2, <2>2, AckMoves
    <2>7. QED
      BY <2>1, <2>3, <2>4, <2>5, <2>6 DEF DrainInv
  <1>3. CASE ControlNext
    <2>1. UNCHANGED <<owned, incoming, pendingRetire, drained, ackGen, apc>>
      BY <1>3, ControlMoves
    <2>2. CASE UNCHANGED <<published, latestPublished>>
      BY <2>1, <2>2 DEF DrainInv, Acknowledging, HoldsNothing
    <2>3. ASSUME NEW c \in Controllers, SwapIn(c) PROVE DrainInv'
      <3>1. published'.gen = latestPublished + 1 /\ latestPublished' = latestPublished
        BY <2>3 DEF SwapIn
      <3>2. QED
        BY <1>1, <2>1, <3>1 DEF DrainInv, Acknowledging, HoldsNothing
    <2>4. ASSUME NEW c \in Controllers, StoreLatest(c) PROVE DrainInv'
      <3>1. latestPublished' = latestPublished + 1 /\ published' = published
        BY <2>4 DEF StoreLatest, PublishInv
      <3>2. QED
        BY <1>1, <2>1, <3>1 DEF DrainInv, Acknowledging, HoldsNothing
    <2>5. QED
      BY <1>3, <2>2, <2>3, <2>4, ControlMoves DEF KeepSlots, FreeRetired, FreeReplaced
  <1>4. QED
    BY <1>2, <1>3

-----------------------------------------------------------------------------
(* The quiescence check.                                                   *)

\* No audio step puts a kernel anywhere once all the places it moves kernels
\* between are empty.
LEMMA AudioKeepsEmpty ==
  ASSUME AudioNext
  PROVE  /\ published = NoKernel => published' = NoKernel
         /\ published = NoKernel /\ HoldsNothing => HoldsNothing'
         /\ SlotsEmpty /\ HoldsNothing => SlotsEmpty'
  BY AudioMoves DEF HoldsNothing, SlotsEmpty, KeepOwners, MoveToSlot, MoveOwnedOut,
     MoveIncomingOut, MoveIn, MoveAdopt, MoveReplace, MoveTeardown

\* When the acknowledged generation is the latest and nothing is published,
\* no kernel is left with the audio side.
LEMMA DrainedMeansHeldNothing ==
  ASSUME TypeOK, GateInv, CoverInv, DrainInv, NEW c \in Controllers,
         cpc[c] = "readDrained", drained = latestPublished
  PROVE  HoldsNothing
  <1>1. ~Storing
    BY DEF Storing, GateInv
  <1>2. /\ latestPublished \in Nat
        /\ owned.gen \in Nat /\ incoming.gen \in Nat /\ pendingRetire.gen \in Nat
    BY SlotGen, HandoffAssumption DEF TypeOK, OwnersType, GenerationsType
  <1>3. \A g \in Nat \ {0} : Alive(g) => g <= latestPublished
    BY <1>1, <1>2 DEF CoverInv, LastIssued
  <1>4. owned.gen = 0 /\ incoming.gen = 0 /\ pendingRetire.gen = 0
    BY <1>2, <1>3 DEF DrainInv, Alive
  <1>5. QED
    BY <1>4, EmptySlot DEF HoldsNothing, TypeOK, OwnersType

\* What a quiescence check has established stays true until it answers.
LEMMA CheckStepInv ==
  ASSUME TypeOK, GateInv, CoverInv, DrainInv, CheckInv, ControlNext \/ AudioNext
  PROVE  CheckInv'
  <1> USE DEF TypeOK, ControlType
  <1>1. CASE AudioNext
    BY <1>1, AudioMoves, AudioKeepsEmpty DEF CheckInv, SlotsEmpty, HoldsNothing
  <1>2. CASE ControlNext
    <2>1. HoldsNothing' = HoldsNothing
      BY <1>2, ControlMoves DEF HoldsNothing
    <2>2. CASE SetEnabled
      BY <2>1, <2>2 DEF SetEnabled, ctl, slots, CheckInv, SlotsEmpty
    <2>3. ASSUME NEW c \in Controllers, BeginPublish(c) \/ BeginReclaim(c) \/ BeginCheck(c)
          PROVE CheckInv'
      BY <2>1, <2>3 DEF BeginPublish, BeginReclaim, BeginCheck, LockGate, ControlStep, slots,
         CheckInv, SlotsEmpty
    <2>4. ASSUME NEW c \in Controllers,
                 PublishReclaimFirst(c) \/ PublishSwap(c) \/ PublishStore(c)
                 \/ PublishSupersede(c) \/ ReclaimAndUnlock(c)
          PROVE CheckInv'
      BY <2>4 DEF PublishReclaimFirst, PublishSwap, PublishStore, PublishSupersede,
         ReclaimAndUnlock, ControlStep, CheckInv, GateInv
    <2>5. ASSUME NEW c \in Controllers, CheckDrained(c) PROVE CheckInv'
      <3>1. drained = latestPublished => HoldsNothing
        BY <2>5, DrainedMeansHeldNothing DEF CheckDrained, CheckStep, ControlStep
      <3>2. QED
        BY <2>1, <2>5, <3>1 DEF CheckDrained, CheckStep, ControlStep, slots, CheckInv,
           SlotsEmpty
    <2>6. ASSUME NEW c \in Controllers,
                 CheckEnabled(c) \/ CheckSlots(c) \/ RecheckSlots(c) \/ AnswerQuiescent(c)
          PROVE CheckInv'
      BY <2>1, <2>6 DEF CheckEnabled, CheckSlots, RecheckSlots, AnswerQuiescent, CheckStep,
         ControlStep, slots, CheckInv, SlotsEmpty
    <2>7. QED
      BY <1>2, <2>2, <2>3, <2>4, <2>5, <2>6 DEF ControlNext
  <1>3. QED
    BY <1>1, <1>2

-----------------------------------------------------------------------------
(* The theorems.                                                           *)

\* The invariant is inductive.
LEMMA IInvStep == ASSUME IInv, [Next]_vars PROVE IInv'
  <1> USE DEF IInv
  <1>1. TypeOK'
    BY TypeStep
  <1>2. CASE UNCHANGED vars
    <2>1. UNCHANGED <<published, retired, replaced, owned, incoming, pendingRetire, freed,
                      latestPublished, drained, gate, cpc, cgen, apc, ackGen>>
      BY <1>2 DEF vars, slots, ctl, audio, held, flow
    <2>2. GateInv' /\ PublishInv' /\ CheckInv'
      BY <2>1 DEF GateInv, PublishInv, CheckInv, SlotsEmpty, HoldsNothing
    <2>3. ExclusiveInv' /\ NotFreedInv' /\ CoverInv' /\ DrainInv'
      BY <2>1 DEF ExclusiveInv, NotFreedInv, CoverInv, DrainInv, Alive, LastIssued, Storing,
         Acknowledging, HoldsNothing
    <2>4. QED
      BY <1>1, <2>2, <2>3
  <1>3. CASE ControlNext \/ AudioNext
    <2>1. GateInv' /\ PublishInv' /\ DrainInv' /\ CheckInv'
      BY <1>3, GateStep, PublishStep, DrainStep, CheckStepInv
    <2>2. OwnershipInv'
      BY <1>3, AudioOwnership, ControlOwnership DEF OwnershipInv, TypeOK
    <2>3. QED
      BY <1>1, <2>1, <2>2 DEF OwnershipInv
  <1>4. QED
    BY <1>2, <1>3 DEF Next

\* Every reachable state satisfies the inductive invariant.
THEOREM Invariance == Spec => []IInv
  <1>1. Init => IInv
    BY InitIInv
  <1>2. IInv /\ [Next]_vars => IInv'
    BY IInvStep
  <1>3. QED
    BY <1>1, <1>2, PTL DEF Spec

\* Every reachable state is typed: slots hold kernels of published generations
\* and both program counters stay within the code of their side.
THEOREM TypeCorrect == Spec => []TypeOK
  <1>1. IInv => TypeOK
    BY DEF IInv
  <1>2. QED
    BY <1>1, Invariance, PTL

\* The invariant contains unique ownership.
LEMMA IInvOwnership == ASSUME IInv PROVE UniqueOwnership
  <1>1. /\ published.gen \in Nat /\ retired.gen \in Nat /\ owned.gen \in Nat
        /\ incoming.gen \in Nat /\ pendingRetire.gen \in Nat /\ replaced.gen \in Nat
        /\ latestPublished \in Nat /\ freed \subseteq Nat \ {0}
    BY SlotGen, HandoffAssumption DEF IInv, TypeOK, OwnersType, GenerationsType
  <1>2. \A p, q \in Owners : p # q /\ GenAt[p] # 0 => GenAt[p] # GenAt[q]
    BY DEF IInv, ExclusiveInv, Owners, GenAt
  <1>3. \A p \in Owners : GenAt[p] \notin freed
    BY DEF IInv, NotFreedInv, Owners, GenAt
  <1>4. \A g : g \in {GenAt[p] : p \in Owners} <=> Alive(g)
    BY DEF Owners, GenAt, Alive
  <1>5. Issued = 1 .. LastIssued /\ LastIssued \in Nat
    BY <1>1 DEF Issued, LastIssued, Storing
  <1>6. \A g : g \in Issued <=> g \in Nat \ {0} /\ g <= LastIssued
    BY <1>5
  <1>7. \A g : Alive(g) => g \in Nat
    BY <1>1 DEF Alive
  <1>8. \A g \in Nat \ {0} : g <= LastIssued <=> g \in freed \/ Alive(g)
    BY DEF IInv, CoverInv
  <1>9. Issued = freed \cup ({GenAt[p] : p \in Owners} \ {0})
    BY <1>1, <1>4, <1>6, <1>7, <1>8
  <1>10. QED
    BY <1>2, <1>3, <1>9 DEF UniqueOwnership

\* Whatever publishers, toggles, rate changes, finishes and teardowns do, a
\* kernel has one owner, is never used after its release and is never lost.
THEOREM Ownership == Spec => []UniqueOwnership
  <1>1. IInv => UniqueOwnership
    BY IInvOwnership
  <1>2. QED
    BY <1>1, Invariance, PTL

\* The invariant makes a positive quiescence answer truthful.
LEMMA IInvQuiescent == ASSUME IInv PROVE QuiescentMeansEmpty
  <1> SUFFICES ASSUME NEW c \in Controllers, cpc[c] = "quiescent"
               PROVE  SlotsEmpty /\ HoldsNothing /\ freed = 1 .. latestPublished
    BY DEF QuiescentMeansEmpty
  <1>1. SlotsEmpty /\ HoldsNothing
    BY DEF IInv, CheckInv
  <1>2. ~Storing /\ replaced = NoKernel
    BY DEF IInv, GateInv, PublishInv, Storing
  <1>3. latestPublished \in Nat /\ freed \subseteq Nat \ {0}
    BY HandoffAssumption DEF IInv, TypeOK, OwnersType, GenerationsType
  <1>4. \A g \in Nat \ {0} : ~Alive(g)
    BY <1>1, <1>2, NoKernelSlot DEF Alive, SlotsEmpty, HoldsNothing
  <1>5. \A g \in Nat \ {0} : g <= latestPublished <=> g \in freed
    <2>1. LastIssued = latestPublished
      BY <1>2, <1>3 DEF LastIssued
    <2>2. \A g \in Nat \ {0} : g <= LastIssued <=> g \in freed \/ Alive(g)
      BY DEF IInv, CoverInv
    <2>3. QED
      BY <1>4, <2>1, <2>2
  <1>6. freed = 1 .. latestPublished
    <2>1. \A g : g \in 1 .. latestPublished <=> g \in Nat \ {0} /\ g <= latestPublished
      BY <1>3
    <2>2. \A g : g \in freed <=> g \in 1 .. latestPublished
      BY <1>3, <1>5, <2>1
    <2>3. QED
      BY <2>2
  <1>7. QED
    BY <1>1, <1>6

\* `is_quiescent` answers TRUE only when every kernel ever published has been
\* released, whatever the audio callback did between the reads of the check.
THEOREM Quiescence == Spec => []QuiescentMeansEmpty
  <1>1. IInv => QuiescentMeansEmpty
    BY IInvQuiescent
  <1>2. QED
    BY <1>1, Invariance, PTL

\* A consumer whose acknowledgement is up to date holds no kernel.
LEMMA IInvIdle == ASSUME IInv PROVE IdleIsTruthful
  <1> SUFFICES ASSUME AtRest, drained = latestPublished
               PROVE  HoldsNothing /\ published = NoKernel
    BY DEF IdleIsTruthful
  <1>1. ~Storing
    BY ControllersAssumption DEF AtRest, IInv, GateInv, Storing
  <1>2. /\ latestPublished \in Nat /\ published.gen \in Nat
        /\ owned.gen \in Nat /\ incoming.gen \in Nat /\ pendingRetire.gen \in Nat
    BY SlotGen, HandoffAssumption DEF IInv, TypeOK, OwnersType, GenerationsType
  <1>3. \A g \in Nat \ {0} : Alive(g) => g <= latestPublished
    BY <1>1, <1>2 DEF IInv, CoverInv, LastIssued
  <1>4. published.gen = 0 /\ owned.gen = 0 /\ incoming.gen = 0 /\ pendingRetire.gen = 0
    BY <1>2, <1>3 DEF IInv, DrainInv, Alive
  <1>5. QED
    BY <1>4, EmptySlot DEF IInv, TypeOK, OwnersType, HoldsNothing

\* `audio_idle` is never claimed between operations while the audio side holds
\* a kernel or one waits for it.
THEOREM IdleAnswer == Spec => []IdleIsTruthful
  <1>1. IInv => IdleIsTruthful
    BY IInvIdle
  <1>2. QED
    BY <1>1, Invariance, PTL

-----------------------------------------------------------------------------
(* The finish lock.                                                        *)

\* A stream that drains is in none of the calls that synchronise kernels,
\* except in the acknowledgement of its own destructor.
FinishFlow ==
  /\ lifecycle = "finishing" =>
       apc \in {"idle", "drain", "release"} \/ (Acknowledging /\ after = "release")
  /\ apc = "drain" => lifecycle = "finishing"
  /\ after = "release" => Acknowledging

\* Where an audio step may lead while a stream drains.
LEMMA FinishFlowStep ==
  ASSUME FlowType, StreamType, FinishFlow, AudioNext
  PROVE  FinishFlow'
  <1> USE DEF FinishFlow, Acknowledging, Goto, GotoFlush, StartSync, Return, flow, finishVars,
        FlowType
  <1>1. CASE SyncStep
    BY <1>1 DEF SyncStep, FlushRetired, RetireMismatchedOwned, TakePublished,
       DiscardMismatchedIncoming, SyncDisabled, ReportHeld, SyncEnabled, SkipAdoption,
       AdoptFirst, AdoptReplacement, ReportReplaced, AckCheckEmpty, AckLoad, AckRecheck,
       AckStore, AckStep
  <1>2. CASE Process \/ RenderKernel
    BY <1>2 DEF Process, ProcessEnabled, ProcessDisabled, ProcessFadeOut, RenderKernel
  <1>3. CASE Finish \/ BeginFinish \/ DrainTail \/ Reset \/ SetSampleRate
    BY <1>3 DEF Finish, FinishFirst, FinishAgain, FinishAfterEnd, BeginFinish, DrainTail,
       Reset, SetSampleRate, ClearFinish
  <1>4. CASE NewProcessor \/ DropProcessor \/ ReleaseLease
    BY <1>4 DEF NewProcessor, DropProcessor, ReleaseLease, ClearFinish
  <1>5. QED
    BY <1>1, <1>2, <1>3, <1>4 DEF AudioNext

\* While a stream drains, an audio step leaves the locked kernel where it is,
\* and a tail that is promised belongs to the kernel that is locked.
LEMMA FinishLockStep ==
  ASSUME FlowType, StreamType, FinishFlow, FinishLockHolds, AudioNext
  PROVE  FinishLockHolds'
  <1> USE HandoffAssumption
      DEF FinishFlow, FinishLockHolds, FinishLocked, Attached, Acknowledging, Goto, GotoFlush,
        StartSync, Return, flow, finishVars, held, FlowType, StreamType
  <1>1. CASE SyncStep
    BY <1>1 DEF SyncStep, FlushRetired, RetireMismatchedOwned, TakePublished,
       DiscardMismatchedIncoming, SyncDisabled, ReportHeld, SyncEnabled, SkipAdoption,
       AdoptFirst, AdoptReplacement, ReportReplaced, AckCheckEmpty, AckLoad, AckRecheck,
       AckStore, AckStep
  <1>2. CASE Process \/ RenderKernel
    BY <1>2 DEF Process, ProcessEnabled, ProcessDisabled, ProcessFadeOut, RenderKernel
  <1>3. CASE Finish \/ Reset \/ SetSampleRate
    BY <1>3 DEF Finish, FinishFirst, FinishAgain, FinishAfterEnd, Reset, SetSampleRate,
       ClearFinish
  <1>4. CASE BeginFinish
    <2>1. owned' = owned
      BY <1>4 DEF BeginFinish
    <2>2. finishLeft' > 0 => Matches(owned) /\ finishGen' = owned.gen
      BY <1>4 DEF BeginFinish
    <2>3. QED
      BY <2>1, <2>2 DEF Matches
  <1>5. CASE DrainTail
    <2>1. owned' = owned /\ after' = after /\ apc = "drain"
      BY <1>5 DEF DrainTail
    <2>2. finishGen' = finishGen /\ (finishLeft' > 0 => finishLeft > 0)
      BY <1>5 DEF DrainTail, Min2
    <2>3. QED
      BY <2>1, <2>2
  <1>6. CASE NewProcessor \/ DropProcessor \/ ReleaseLease
    BY <1>6 DEF NewProcessor, DropProcessor, ReleaseLease, ClearFinish
  <1>7. QED
    BY <1>1, <1>2, <1>3, <1>4, <1>5, <1>6 DEF AudioNext

\* No publication, toggle, retirement or rate change takes away the kernel
\* whose tail was promised: `finish` never meets its "finish-locked" errors.
THEOREM FinishLock == Spec => []FinishLockHolds
  <1> DEFINE Inv == FinishFlow /\ FinishLockHolds
  <1>1. Init => Inv
    BY DEF Init, FinishFlow, FinishLockHolds
  <1>2. TypeOK /\ Inv /\ [Next]_vars => Inv'
    <2> SUFFICES ASSUME TypeOK, Inv, [Next]_vars PROVE Inv'
      OBVIOUS
    <2>1. CASE AudioNext
      BY <2>1, FinishFlowStep, FinishLockStep DEF TypeOK
    <2>2. CASE ControlNext \/ UNCHANGED vars
      <3>1. UNCHANGED <<owned, apc, after, lifecycle, finishGen, finishLeft>>
        BY <2>2, ControlMoves DEF vars, audio, held, flow, finishVars
      <3>2. QED
        BY <3>1 DEF FinishFlow, Acknowledging, FinishLockHolds, FinishLocked, Attached
    <2>3. QED
      BY <2>1, <2>2 DEF Next
  <1>3. Inv => FinishLockHolds
    OBVIOUS
  <1>4. QED
    BY <1>1, <1>2, <1>3, TypeCorrect, PTL DEF Spec

-----------------------------------------------------------------------------
(* The wet level.                                                          *)

\* A promised tail is rendered by a kernel of the stream's rate.
FinishMatches == Attached /\ lifecycle = "finishing" /\ finishLeft > 0 => Matches(owned)

\* The part of a synchronisation before it has acted on the enabled flag.
BeforeEnabled ==
  \/ apc \in {"ownedRate", "take", "incomingRate", "enabled"}
  \/ apc = "flush" /\ flushNext \in {"ownedRate", "take", "enabled"}

\* `process` called this synchronisation because it saw the disabled flag, and
\* had faded before it did.
FadedInv ==
  BeforeEnabled /\ after = "idle" /\ lifecycle = "processing" /\ Matches(owned)
    => level = "dry"

WetInv == FinishFlow /\ FinishMatches /\ WetNeedsKernel /\ FadedInv

\* A ramp of positive length that has ended reached its target.
LEMMA RampEnds ==
  ASSUME NEW n \in Nat, NEW l, NEW left \in Nat \ {0}, NEW t,
         AdvanceTransition(l, left, t, n), ramp' = 0
  PROVE  level' = t
  BY DEF AdvanceTransition

\* A synchronisation gives up an audible kernel only together with its level.
LEMMA SyncWet ==
  ASSUME FlowType, StreamType, WetInv, SyncStep
  PROVE  FinishMatches' /\ WetNeedsKernel' /\ FadedInv'
  <1> USE DEF WetInv, FinishFlow, FinishMatches, WetNeedsKernel, FadedInv, BeforeEnabled,
        Attached, Acknowledging, Matches, Mismatches, Goto, GotoFlush, Return, flow, finishVars,
        wetVars, held, FlowType, StreamType
  <1>1. CASE FlushRetired \/ TakePublished \/ SyncEnabled \/ SkipAdoption \/ ReportHeld
             \/ ReportReplaced
    BY <1>1 DEF FlushRetired, TakePublished, SyncEnabled, SkipAdoption, ReportHeld,
       ReportReplaced
  <1>2. CASE RetireMismatchedOwned
    BY <1>2 DEF RetireMismatchedOwned, RetireOwned, KeepHeld
  <1>3. CASE DiscardMismatchedIncoming
    BY <1>3 DEF DiscardMismatchedIncoming, DiscardIncoming, KeepHeld
  <1>4. CASE SyncDisabled
    BY <1>4 DEF SyncDisabled, SteadyWet, RetireOwned, DiscardIncoming, KeepHeld
  <1>5. CASE AdoptFirst \/ AdoptReplacement
    BY <1>5 DEF AdoptFirst, AdoptReplacement, Adoptable
  <1>6. CASE AckCheckEmpty \/ AckLoad \/ AckRecheck \/ AckStore
    BY <1>6 DEF AckCheckEmpty, AckLoad, AckRecheck, AckStore, AckStep
  <1>7. QED
    BY <1>1, <1>2, <1>3, <1>4, <1>5, <1>6 DEF SyncStep

\* The calls of the host raise the level only over a kernel they can render, and
\* start a synchronisation that may retire it only from silence.
LEMMA HostWet ==
  ASSUME FlowType, StreamType, WetInv, AudioNext, ~SyncStep
  PROVE  FinishMatches' /\ WetNeedsKernel' /\ FadedInv'
  <1> USE HandoffAssumption
      DEF WetInv, FinishFlow, FinishMatches, WetNeedsKernel, FadedInv, BeforeEnabled, Attached,
        Acknowledging, Matches, Goto, StartSync, flow, finishVars, wetVars, held, FlowType,
        StreamType
  <1>1. CASE ProcessEnabled \/ Finish
    BY <1>1 DEF ProcessEnabled, Finish, FinishFirst, FinishAgain, FinishAfterEnd
  <1>2. CASE ProcessDisabled
    BY <1>2 DEF ProcessDisabled, SteadyWet
  <1>3. CASE ProcessFadeOut
    <2>1. /\ UNCHANGED <<owned, rate, lifecycle, finishLeft>>
          /\ apc = "idle" /\ lifecycle = "processing" /\ Matches(owned)
      BY <1>3 DEF ProcessFadeOut
    <2>2. CASE ramp' = 0
      <3>1. level' = "dry"
        BY <1>3, <2>2, RampEnds DEF ProcessFadeOut, BeginAndAdvance
      <3>2. QED
        BY <2>1, <3>1
    <2>3. CASE ramp' # 0
      <3>1. UNCHANGED <<apc, flushNext, after>>
        BY <1>3, <2>3 DEF ProcessFadeOut
      <3>2. QED
        BY <2>1, <3>1
    <2>4. QED
      BY <2>2, <2>3
  <1>4. CASE RenderKernel
    BY <1>4 DEF RenderKernel
  <1>5. CASE BeginFinish
    <2>1. /\ UNCHANGED <<owned, rate, level, after>> /\ apc = "beginFinish" /\ apc' = "drain"
          /\ finishLeft' > 0 => Matches(owned)
      BY <1>5 DEF BeginFinish
    <2>2. QED
      BY <2>1
  <1>6. CASE DrainTail
    <2>1. /\ UNCHANGED <<owned, rate, after>> /\ apc = "drain" /\ apc' = "idle"
          /\ finishLeft' > 0 => finishLeft > 0
          /\ level' # level => finishLeft > 0
      BY <1>6 DEF DrainTail, Min2
    <2>2. QED
      BY <2>1
  <1>7. CASE Reset \/ SetSampleRate
    BY <1>7 DEF Reset, SetSampleRate, ClearFinish, SteadyWet
  <1>8. CASE NewProcessor \/ DropProcessor \/ ReleaseLease
    BY <1>8 DEF NewProcessor, DropProcessor, ReleaseLease, ClearFinish, SteadyWet
  <1>9. QED
    BY <1>1, <1>2, <1>3, <1>4, <1>5, <1>6, <1>7, <1>8 DEF AudioNext, Process

\* The wet level stays tied to the kernel it was reached with.
THEOREM WetInvariance == Spec => []WetInv
  <1>1. Init => WetInv
    BY DEF Init, WetInv, FinishFlow, FinishMatches, WetNeedsKernel, FadedInv, BeforeEnabled
  <1>2. TypeOK /\ WetInv /\ [Next]_vars => WetInv'
    <2> SUFFICES ASSUME TypeOK, WetInv, [Next]_vars PROVE WetInv'
      OBVIOUS
    <2>1. CASE AudioNext
      BY <2>1, FinishFlowStep, SyncWet, HostWet DEF TypeOK, WetInv
    <2>2. CASE ControlNext \/ UNCHANGED vars
      <3>1. UNCHANGED <<owned, rate, apc, flushNext, after, lifecycle, finishLeft, level>>
        BY <2>2, ControlMoves DEF vars, audio, held, flow, finishVars, wetVars
      <3>2. QED
        BY <3>1 DEF WetInv, FinishFlow, FinishMatches, WetNeedsKernel, FadedInv, BeforeEnabled,
           Attached, Acknowledging, Matches
    <2>3. QED
      BY <2>1, <2>2 DEF Next
  <1>3. QED
    BY <1>1, <1>2, TypeCorrect, PTL DEF Spec

\* No wet level survives the kernel it was reached with.
THEOREM WetKernel == Spec => []WetNeedsKernel
  <1>1. WetInv => WetNeedsKernel
    BY DEF WetInv
  <1>2. QED
    BY <1>1, WetInvariance, PTL

\* Disabling fades first: the synchronisation that a disabled `process` starts
\* finds the kernel it is about to retire already silent.
THEOREM FadeFirst == Spec => []FadesBeforeRetiring
  <1>1. WetInv => FadesBeforeRetiring
    BY DEF WetInv, FadedInv, BeforeEnabled, FadesBeforeRetiring
  <1>2. QED
    BY <1>1, WetInvariance, PTL
=============================================================================
