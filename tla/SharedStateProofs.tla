-------------------------- MODULE SharedStateProofs --------------------------
(* Proofs about the two pieces of state that threads share without a lock,  *)
(* and about the analyzer that reads what one of them carries.               *)
(* SnapshotPublication for any number of writers, of readers, of addresses   *)
(* and of publications; that RingBuffer implements FrameWindow, for any      *)
(* capacity, any sizes of writes and reads, and any length of the stream;    *)
(* and that SpectrumAnalyzer is exact, for any window and hop, any calls and *)
(* rates, and any bands evenly spaced in the logarithm.                      *)
EXTENDS SnapshotPublication, RingBuffer, SpectrumAnalyzer, FiniteSetTheorems, SequenceTheorems,
        Integers, TLAPS

-----------------------------------------------------------------------------
(* The inductive invariant.                                                *)

WriterLabels == {"idle", "read", "markOdd", "store", "sequenceOdd", "swap", "sequenceEven", "scan"}
Holding == {"checkPointer", "checkSequence", "deref", "after", "clear"}
ReaderLabels == {"off", "idle", "before", "pointer", "hazard"} \cup Holding

SharedType ==
  /\ writer \in Writers \cup {NoOne} /\ generation \in Nat /\ current \in Nat
  /\ control \in Writers \cup {NoOne} /\ sequence \in Nat
  /\ pointer \in Addrs /\ retired \in SUBSET Addrs /\ heap \in [Addrs -> Nat]
WritingType ==
  /\ wpc \in [Writers -> WriterLabels] /\ draft \in [Writers -> Nat]
  /\ displaced \in Addrs \cup {Null} /\ scan \in SUBSET (Addrs \X Readers)
ReadingType ==
  /\ alive \in SUBSET Readers /\ hazard \in [Readers -> Addrs \cup {Null}]
  /\ rpc \in [Readers -> ReaderLabels] /\ before \in [Readers -> Nat]
  /\ loaded \in [Readers -> Addrs \cup {Null}] /\ copy \in [Readers -> Nat]
  /\ cached \in [Readers -> [val : Nat, gen : Nat]]
UiType ==
  /\ upc \in {"before", "clone", "after", "got"}
  /\ ubefore \in Nat /\ uval \in Nat /\ uafter \in Nat

\* Every variable has its type.
TypeOK == SharedType /\ WritingType /\ ReadingType /\ UiType

\* Only the holder of the writer mutex is inside a publication, and only from
\* the odd sequence to the last hazard load does it hold the control mutex.
MutexInv ==
  \A w \in Writers :
    /\ wpc[w] # "idle" <=> writer = w
    /\ wpc[w] \in {"swap", "sequenceEven", "scan"} <=> control = w

\* How far the publication in progress has come.
Stage == IF writer = NoOne THEN "idle" ELSE wpc[writer]
MarkedOdd == Stage \in {"store", "sequenceOdd", "swap", "sequenceEven", "scan"}
Stored == Stage \in {"sequenceOdd", "swap", "sequenceEven", "scan"}
Swapping == Stage \in {"swap", "sequenceEven"}
Published == generation \div 2

\* The counters of a publication in progress differ by what it has done so far.
CountInv ==
  /\ generation = 2 * Published + (IF MarkedOdd THEN 1 ELSE 0)
  /\ sequence = 2 * Published + (IF Swapping THEN 1 ELSE IF Stage = "scan" THEN 2 ELSE 0)
  /\ current = Published + (IF Stored THEN 2 ELSE 1)
  /\ Stage \in {"markOdd", "store"} => draft[writer] = Published + 2
  /\ Stored => draft[writer] = Published + 2
  /\ heap[pointer] = Published + (IF Stage \in {"sequenceEven", "scan"} THEN 2 ELSE 1)

\* Allocated boxes: the current one, the retired ones, the displaced one.
BoxInv ==
  /\ \A a \in Addrs : heap[a] # 0 <=> a = pointer \/ a \in retired \/ a = displaced
  /\ pointer \notin retired /\ pointer # displaced /\ displaced \notin retired
  /\ displaced # Null <=> Stage = "sequenceEven"
  /\ \A p \in scan : p[1] \in retired
  /\ scan # {} => Stage = "scan"

\* What each handle's slot and locals hold at each point of a load.
HandleInv ==
  \A r \in Readers :
    /\ r \in alive <=> rpc[r] # "off"
    /\ hazard[r] = IF rpc[r] \in Holding THEN loaded[r] ELSE Null
    /\ loaded[r] # Null <=> rpc[r] \in Holding \cup {"hazard"}
    /\ rpc[r] \notin {"after", "clear"} => copy[r] = 0
    /\ rpc[r] = "off" => cached[r] = Nothing

\* A box being read was the current one when its sequence was checked; the
\* retirement scan has not yet come to the reader's slot, or has spared the box.
Protected(r) ==
  /\ heap[loaded[r]] = before[r] \div 2 + 1
  /\ OfBox(loaded[r]) = {} \/ <<loaded[r], r>> \in scan

LoadInv ==
  \A r \in Readers :
    /\ before[r] % 2 = 0 /\ before[r] <= sequence /\ 2 * cached[r].gen <= sequence
    /\ cached[r] # Nothing => cached[r].val = cached[r].gen + 1
    /\ rpc[r] \in Holding \cup {"pointer", "hazard"} => 2 * cached[r].gen <= before[r]
    /\ rpc[r] = "checkSequence" /\ sequence = before[r] => pointer = loaded[r]
    /\ rpc[r] = "deref" => Protected(r)
    /\ rpc[r] = "after" => copy[r] = before[r] \div 2 + 1
    /\ rpc[r] = "clear" => copy[r] \in {0, before[r] \div 2 + 1}

\* Each retired box the scan has spared was in the slot of a handle of its own,
\* which since then holds at most that box or the current one.
Spared == {b \in retired : OfBox(b) = {}}
Vouches(f) ==
  /\ \A b \in Spared : {hazard[f[b]], loaded[f[b]]} \subseteq {Null, b, pointer}
  /\ \A b, c \in Spared : f[b] = f[c] => b = c
SparedInv ==
  /\ Stage = "scan" => \E f \in [Spared -> Readers] : Vouches(f)
  /\ control = NoOne => Cardinality(retired) <= Cardinality(Readers)

\* A snapshot cloned while the generation stood still is of that generation.
UiInv ==
  /\ ubefore % 2 = 0 /\ (upc # "before" => ubefore <= generation)
  /\ upc = "after" /\ generation = ubefore => uval = ubefore \div 2 + 1
  /\ upc = "got" => uval = ubefore \div 2 + 1

IInv == /\ TypeOK /\ MutexInv /\ CountInv /\ BoxInv /\ HandleInv /\ LoadInv /\ SparedInv
        /\ UiInv

\* The invariant holds before anything is published or read.
LEMMA InitIInv == Init => IInv
  <1> SUFFICES ASSUME Init PROVE IInv
    OBVIOUS
  <1> USE SnapshotAssumption, NamesAssumption DEF Init, Nothing
  <1>1. TypeOK
    BY DEF TypeOK, SharedType, WritingType, ReadingType, UiType, WriterLabels, ReaderLabels
  <1>2. MutexInv
    BY DEF MutexInv
  <1>3. Stage = "idle"
    BY DEF Stage
  <1>4. CountInv
    BY <1>3 DEF CountInv, Published, MarkedOdd, Stored, Swapping
  <1>5. BoxInv
    BY <1>3 DEF BoxInv
  <1>6. HandleInv
    BY DEF HandleInv, Holding
  <1>7. LoadInv
    BY DEF LoadInv, Holding
  <1>8. SparedInv
    <2>1. Cardinality(retired) = 0 /\ Cardinality(Readers) \in Nat
      BY FS_EmptySet, FS_CardinalityType
    <2>2. QED
      BY <2>1, <1>3 DEF SparedInv
  <1>9. UiInv
    BY DEF UiInv
  <1>10. QED
    BY <1>1, <1>2, <1>4, <1>5, <1>6, <1>7, <1>8, <1>9 DEF IInv

-----------------------------------------------------------------------------
(* Whose step it is.                                                       *)

Publishes(w) == LockWriter(w) \/ WriterSteps(w)
Reads(r) == Subscribe(r) \/ Poll(r) \/ ReadSteps(r) \/ DropReader(r)
Answers == UiBefore \/ UiClone \/ UiAfter \/ UiReturn

\* A writer that is not idle is the one the stage speaks of.
LEMMA StageOf ==
  ASSUME TypeOK, MutexInv, NEW w \in Writers, wpc[w] # "idle"
  PROVE  writer = w /\ writer # NoOne /\ Stage = wpc[w]
  BY NamesAssumption DEF MutexInv, Stage

\* A step of a publication is one of the publication in progress, and moves
\* its stage on.
Moves(from, to) == Stage = from /\ Stage' = to
\* Where the steps of a publication take the writer, and that they are its own.
LEMMA PublicationStages ==
  ASSUME TypeOK, MutexInv, NEW w \in Writers
  PROVE  /\ LockWriter(w) => Moves("idle", "read")
         /\ EditCopy(w) => writer = w /\ writer' = w /\ Moves("read", "markOdd")
         /\ DeclineEdit(w) => writer = w /\ Moves("read", "idle")
         /\ MarkOdd(w) => writer = w /\ writer' = w /\ Moves("markOdd", "store")
         /\ StoreCurrent(w) => writer = w /\ writer' = w /\ Moves("store", "sequenceOdd")
         /\ SequenceOdd(w) => writer = w /\ writer' = w /\ Moves("sequenceOdd", "swap")
         /\ SwapPointer(w) => writer = w /\ writer' = w /\ Moves("swap", "sequenceEven")
         /\ SequenceEven(w) => writer = w /\ writer' = w /\ Moves("sequenceEven", "scan")
         /\ ScanHazard(w) => writer = w /\ writer' = w /\ Moves("scan", "scan")
         /\ FinishPublish(w) => writer = w /\ writer' = NoOne /\ Moves("scan", "idle")
  <1> USE StageOf, NamesAssumption
      DEF Moves, Stage, WriterStep, TypeOK, SharedType, WritingType, shared
  <1>1. LockWriter(w) => Moves("idle", "read")
    BY DEF LockWriter
  <1>2. EditCopy(w) => writer = w /\ writer' = w /\ Moves("read", "markOdd")
    BY DEF EditCopy
  <1>3. DeclineEdit(w) => writer = w /\ Moves("read", "idle")
    BY DEF DeclineEdit
  <1>4. MarkOdd(w) => writer = w /\ writer' = w /\ Moves("markOdd", "store")
    BY DEF MarkOdd
  <1>5. StoreCurrent(w) => writer = w /\ writer' = w /\ Moves("store", "sequenceOdd")
    BY DEF StoreCurrent
  <1>6. SequenceOdd(w) => writer = w /\ writer' = w /\ Moves("sequenceOdd", "swap")
    BY DEF SequenceOdd
  <1>7. SwapPointer(w) => writer = w /\ writer' = w /\ Moves("swap", "sequenceEven")
    BY DEF SwapPointer
  <1>8. SequenceEven(w) => writer = w /\ writer' = w /\ Moves("sequenceEven", "scan")
    BY DEF SequenceEven
  <1>9. ScanHazard(w) => writer = w /\ writer' = w /\ Moves("scan", "scan")
    BY DEF ScanHazard
  <1>10. FinishPublish(w) => writer = w /\ writer' = NoOne /\ Moves("scan", "idle")
    BY DEF FinishPublish
  <1>11. QED
    BY <1>1, <1>2, <1>3, <1>4, <1>5, <1>6, <1>7, <1>8, <1>9, <1>10

\* A reader changes nothing that writers, the heap or control threads see.
LEMMA ReadFrame ==
  ASSUME NEW r \in Readers, Reads(r)
  PROVE  UNCHANGED <<writer, generation, current, control, sequence, pointer, retired, heap,
                     wpc, draft, displaced, scan, upc, ubefore, uval, uafter>>
  BY DEF Reads, Subscribe, Poll, ReadSteps, DropReader, LoadBefore, LoadPointer, StoreHazard,
     CheckPointer, CheckSequence, Deref, CheckAfter, ClearHazard, readElse, shared, realtime,
     writing, ui

\* A control thread that reads changes nothing but its own locals.
LEMMA AnswerFrame ==
  ASSUME Answers
  PROVE  UNCHANGED <<writer, generation, current, control, sequence, pointer, retired, heap,
                     wpc, draft, displaced, scan, alive, hazard, rpc, before, loaded, copy,
                     cached>>
  BY DEF Answers, UiBefore, UiClone, UiAfter, UiReturn, uiElse, shared, realtime, writing, reading

\* A writer changes nothing of a reader's, nor a control thread's locals.
LEMMA PublishFrame ==
  ASSUME NEW w \in Writers, Publishes(w)
  PROVE  UNCHANGED <<alive, hazard, rpc, before, loaded, copy, cached, upc, ubefore, uval, uafter>>
  BY DEF Publishes, LockWriter, WriterSteps, EditCopy, DeclineEdit, MarkOdd, StoreCurrent,
     SequenceOdd, SwapPointer, SequenceEven, ScanHazard, FinishPublish, reading, ui

\* Before and after the swap and the scan, a publication leaves boxes alone.
Preparing(w) ==
  LockWriter(w) \/ EditCopy(w) \/ DeclineEdit(w) \/ MarkOdd(w) \/ StoreCurrent(w)
\* Up to the copy's edit, a publication shares nothing.
LEMMA PrepareFrame ==
  ASSUME NEW w \in Writers, Preparing(w)
  PROVE  UNCHANGED <<control, sequence, pointer, retired, heap, displaced, scan>>
  BY DEF Preparing, LockWriter, EditCopy, DeclineEdit, MarkOdd, StoreCurrent, realtime

-----------------------------------------------------------------------------
(* Types and mutual exclusion.                                             *)

\* Publications keep every variable in its type.
LEMMA PublishType ==
  ASSUME TypeOK, MutexInv, BoxInv, NEW w \in Writers, Publishes(w)
  PROVE  TypeOK'
  <1> USE DEF TypeOK, WriterStep
  <1>0. ReadingType' /\ UiType'
    BY PublishFrame DEF ReadingType, UiType
  <1>1. CASE Preparing(w)
    <2>1. UNCHANGED <<control, sequence, pointer, retired, heap, displaced, scan>>
      BY <1>1, PrepareFrame
    <2>2. writer' \in Writers \cup {NoOne} /\ generation' \in Nat /\ current' \in Nat
      BY <1>1 DEF Preparing, LockWriter, EditCopy, DeclineEdit, MarkOdd, StoreCurrent, shared,
         SharedType, WritingType
    <2>3. wpc' \in [Writers -> WriterLabels] /\ draft' \in [Writers -> Nat]
      BY <1>1 DEF Preparing, LockWriter, EditCopy, DeclineEdit, MarkOdd, StoreCurrent,
         SharedType, WritingType, WriterLabels
    <2>4. QED
      BY <1>0, <2>1, <2>2, <2>3 DEF SharedType, WritingType
  <1> USE DEF SharedType, WritingType, WriterLabels, shared, realtime, Freed
  <1>2. CASE SequenceOdd(w)
    BY <1>0, <1>2 DEF SequenceOdd
  <1>3. CASE SwapPointer(w)
    BY <1>0, <1>3 DEF SwapPointer
  <1>4. CASE SequenceEven(w)
    <2>1. displaced \in Addrs
      BY <1>4, PublicationStages DEF Moves, BoxInv
    <2>2. (retired \cup {displaced}) \X alive \in SUBSET (Addrs \X Readers)
      BY <2>1 DEF ReadingType
    <2>3. scan' \in SUBSET (Addrs \X Readers) /\ retired' \in SUBSET Addrs
      BY <1>4, <2>1, <2>2 DEF SequenceEven
    <2>4. heap' \in [Addrs -> Nat]
      BY <1>4 DEF SequenceEven
    <2>5. sequence' \in Nat
      BY <1>4 DEF SequenceEven
    <2>6. QED
      BY <1>0, <1>4, <2>3, <2>4, <2>5 DEF SequenceEven
  <1>5. CASE ScanHazard(w)
    BY <1>0, <1>5 DEF ScanHazard, OfBox
  <1>6. CASE FinishPublish(w)
    BY <1>0, <1>6 DEF FinishPublish
  <1>7. QED
    BY <1>1, <1>2, <1>3, <1>4, <1>5, <1>6 DEF Publishes, WriterSteps, Preparing

\* Loads keep every variable in its type.
LEMMA ReadType ==
  ASSUME TypeOK, HandleInv, NEW r \in Readers, Reads(r)
  PROVE  TypeOK'
  <1>1. SharedType' /\ WritingType' /\ UiType'
    BY ReadFrame DEF TypeOK, SharedType, WritingType, UiType
  <1>2. Nothing \in [val : Nat, gen : Nat]
    BY DEF Nothing
  <1> USE <1>2 DEF TypeOK, SharedType, ReadingType, ReaderLabels, Holding, ReaderStep, NextLoad
  <1>3. CASE Subscribe(r) \/ Poll(r) \/ DropReader(r)
    BY <1>1, <1>3 DEF Subscribe, Poll, DropReader
  <1>4. CASE LoadBefore(r)
    BY <1>1, <1>4 DEF LoadBefore
  <1>5. CASE LoadPointer(r) \/ StoreHazard(r) \/ CheckPointer(r)
    BY <1>1, <1>5 DEF LoadPointer, StoreHazard, CheckPointer
  <1>6. CASE CheckSequence(r) \/ Deref(r) \/ CheckAfter(r)
    <2>1. CASE Deref(r)
      <3>1. loaded[r] \in Addrs
        BY <2>1 DEF Deref, HandleInv
      <3>2. QED
        BY <1>1, <2>1, <3>1 DEF Deref
    <2>2. CASE CheckSequence(r)
      BY <1>1, <2>2 DEF CheckSequence
    <2>3. CASE CheckAfter(r)
      BY <1>1, <2>3 DEF CheckAfter
    <2>4. QED
      BY <1>6, <2>1, <2>2, <2>3
  <1>7. CASE ClearHazard(r)
    <2>1. [val |-> copy[r], gen |-> before[r] \div 2] \in [val : Nat, gen : Nat]
      OBVIOUS
    <2>2. QED
      BY <1>1, <1>7, <2>1 DEF ClearHazard
  <1>8. QED
    BY <1>3, <1>4, <1>5, <1>6, <1>7 DEF Reads, ReadSteps

\* Answers to control threads keep every variable in its type.
LEMMA AnswerType ==
  ASSUME TypeOK, Answers
  PROVE  TypeOK'
  <1>1. SharedType' /\ WritingType' /\ ReadingType'
    BY AnswerFrame DEF TypeOK, SharedType, WritingType, ReadingType
  <1>2. UiType'
    BY DEF Answers, UiBefore, UiClone, UiAfter, UiReturn, TypeOK, UiType, SharedType
  <1>3. QED
    BY <1>1, <1>2 DEF TypeOK

\* The mutexes exclude: a publication keeps what their holders know.
LEMMA PublishMutex ==
  ASSUME TypeOK, MutexInv, NEW w \in Writers, Publishes(w)
  PROVE  MutexInv'
  <1> USE NamesAssumption DEF MutexInv, WriterStep, TypeOK, SharedType, WritingType
  <1>1. CASE Preparing(w)
    <2>1. UNCHANGED control
      BY <1>1, PrepareFrame
    <2>2. QED
      BY <1>1, <2>1 DEF Preparing, LockWriter, EditCopy, DeclineEdit, MarkOdd, StoreCurrent, shared
  <1>2. CASE SequenceOdd(w)
    BY <1>2 DEF SequenceOdd, shared
  <1>3. CASE SwapPointer(w) \/ SequenceEven(w) \/ ScanHazard(w)
    BY <1>3 DEF SwapPointer, SequenceEven, ScanHazard, shared
  <1>4. CASE FinishPublish(w)
    BY <1>4 DEF FinishPublish
  <1>5. QED
    BY <1>1, <1>2, <1>3, <1>4 DEF Publishes, WriterSteps, Preparing

-----------------------------------------------------------------------------
(* Counters and boxes.                                                     *)

\* Every step of a publication keeps the counters in step with it.
LEMMA PublishCount ==
  ASSUME TypeOK, MutexInv, CountInv, BoxInv, NEW w \in Writers, Publishes(w)
  PROVE  CountInv'
  <1> USE PublicationStages
      DEF CountInv, Published, MarkedOdd, Stored, Swapping, Moves, TypeOK, SharedType, WritingType
  <1>1. CASE Preparing(w)
    <2>1. UNCHANGED <<sequence, pointer, heap>>
      BY <1>1, PrepareFrame
    <2>2. CASE LockWriter(w)
      BY <2>1, <2>2 DEF LockWriter
    <2>3. CASE EditCopy(w)
      <3>1. draft'[w] = current + 1 /\ UNCHANGED <<generation, current>>
        BY <2>3 DEF EditCopy, shared
      <3>2. current + 1 = Published + 2
        BY <2>3
      <3>3. QED
        BY <2>1, <2>3, <3>1, <3>2
    <2>4. CASE DeclineEdit(w)
      BY <2>1, <2>4 DEF DeclineEdit
    <2>5. CASE MarkOdd(w)
      BY <2>1, <2>5 DEF MarkOdd
    <2>6. CASE StoreCurrent(w)
      BY <2>1, <2>6 DEF StoreCurrent
    <2>7. QED
      BY <1>1, <2>2, <2>3, <2>4, <2>5, <2>6 DEF Preparing
  <1>2. CASE SequenceOdd(w)
    BY <1>2 DEF SequenceOdd, shared
  <1>3. CASE SwapPointer(w)
    BY <1>3 DEF SwapPointer, shared
  <1>4. CASE SequenceEven(w)
    <2>1. heap'[pointer] = heap[pointer]
      BY <1>4 DEF SequenceEven, Freed, BoxInv
    <2>2. QED
      BY <1>4, <2>1 DEF SequenceEven, shared
  <1>5. CASE ScanHazard(w)
    <2>1. heap'[pointer] = heap[pointer]
      BY <1>5 DEF ScanHazard, Freed, BoxInv
    <2>2. UNCHANGED <<generation, current, sequence, pointer, draft>>
      BY <1>5 DEF ScanHazard, shared
    <2>3. QED
      BY <1>5, <2>1, <2>2
  <1>6. CASE FinishPublish(w)
    <2>1. Published' = Published + 1 /\ generation' = 2 * Published + 2
      BY <1>6 DEF FinishPublish
    <2>2. UNCHANGED <<current, sequence, pointer, heap>>
      BY <1>6 DEF FinishPublish
    <2>3. QED
      BY <1>6, <2>1, <2>2
  <1>7. QED
    BY <1>1, <1>2, <1>3, <1>4, <1>5, <1>6 DEF Publishes, WriterSteps, Preparing

\* Boxes are allocated, displaced, retired and freed without a leak.
LEMMA PublishBox ==
  ASSUME TypeOK, MutexInv, CountInv, BoxInv, NEW w \in Writers, Publishes(w)
  PROVE  BoxInv'
  <1> USE PublicationStages, NamesAssumption
      DEF BoxInv, Moves, TypeOK, SharedType, WritingType
  <1>1. CASE Preparing(w)
    <2>1. UNCHANGED <<pointer, retired, heap, displaced, scan>>
      BY <1>1, PrepareFrame
    <2>2. QED
      BY <1>1, <2>1 DEF Preparing
  <1>2. CASE SequenceOdd(w)
    BY <1>2 DEF SequenceOdd
  <1>3. CASE SwapPointer(w)
    <2>1. draft[w] # 0 /\ displaced = Null
      BY <1>3 DEF CountInv, Stored, Published
    <2>2. QED
      BY <1>3, <2>1 DEF SwapPointer
  <1>4. CASE SequenceEven(w)
    BY <1>4 DEF SequenceEven, Freed
  <1>5. CASE ScanHazard(w)
    <2>1. PICK p \in scan :
            /\ scan' = IF hazard[p[2]] = p[1] THEN scan \ OfBox(p[1]) ELSE scan \ {p}
            /\ LET frees == hazard[p[2]] # p[1] /\ OfBox(p[1]) = {p}
               IN /\ retired' = IF frees THEN retired \ {p[1]} ELSE retired
                  /\ heap' = IF frees THEN Freed({p[1]}) ELSE heap
      BY <1>5 DEF ScanHazard
    <2>2. UNCHANGED <<pointer, displaced>> /\ Stage = "scan" /\ Stage' = "scan"
      BY <1>5 DEF ScanHazard
    <2>3. p[1] \in retired /\ scan' \subseteq scan
      BY <2>1 DEF OfBox
    <2>4. CASE hazard[p[2]] # p[1] /\ OfBox(p[1]) = {p}
      BY <2>1, <2>2, <2>3, <2>4 DEF Freed, OfBox
    <2>5. CASE ~(hazard[p[2]] # p[1] /\ OfBox(p[1]) = {p})
      BY <2>1, <2>2, <2>3, <2>5
    <2>6. QED
      BY <2>4, <2>5
  <1>6. CASE FinishPublish(w)
    BY <1>6 DEF FinishPublish
  <1>7. QED
    BY <1>1, <1>2, <1>3, <1>4, <1>5, <1>6 DEF Publishes, WriterSteps, Preparing

-----------------------------------------------------------------------------
(* Handles and loads.                                                      *)

\* A step of a handle leaves the others alone.
LEMMA OtherHandles ==
  ASSUME TypeOK, NEW r \in Readers, Reads(r), NEW s \in Readers, s # r
  PROVE  /\ s \in alive' <=> s \in alive
         /\ hazard'[s] = hazard[s] /\ rpc'[s] = rpc[s] /\ before'[s] = before[s]
         /\ loaded'[s] = loaded[s] /\ copy'[s] = copy[s] /\ cached'[s] = cached[s]
  BY DEF Reads, Subscribe, Poll, ReadSteps, DropReader, LoadBefore, LoadPointer, StoreHazard,
     CheckPointer, CheckSequence, Deref, CheckAfter, ClearHazard, ReaderStep, TypeOK, ReadingType

\* A load keeps the slot and the locals as its position says.
LEMMA ReadHandle ==
  ASSUME TypeOK, HandleInv, NEW r \in Readers, Reads(r)
  PROVE  HandleInv'
  <1> DEFINE Here(s) ==
        /\ s \in alive <=> rpc[s] # "off"
        /\ hazard[s] = IF rpc[s] \in Holding THEN loaded[s] ELSE Null
        /\ loaded[s] # Null <=> rpc[s] \in Holding \cup {"hazard"}
        /\ rpc[s] \notin {"after", "clear"} => copy[s] = 0
        /\ rpc[s] = "off" => cached[s] = Nothing
  <1>1. ASSUME NEW s \in Readers, s # r PROVE Here(s)'
    BY <1>1, OtherHandles DEF HandleInv
  <1>2. Here(r)'
    <2> USE NamesAssumption DEF HandleInv, Holding, ReaderStep, NextLoad, TypeOK, ReadingType, SharedType
    <2>1. CASE Subscribe(r) \/ Poll(r)
      BY <2>1 DEF Subscribe, Poll
    <2>2. CASE DropReader(r)
      BY <2>2 DEF DropReader
    <2>3. CASE LoadBefore(r)
      BY <2>3 DEF LoadBefore
    <2>4. CASE LoadPointer(r)
      BY <2>4 DEF LoadPointer
    <2>5. CASE StoreHazard(r)
      BY <2>5 DEF StoreHazard
    <2>6. CASE CheckPointer(r)
      BY <2>6 DEF CheckPointer
    <2>7. CASE CheckSequence(r)
      BY <2>7 DEF CheckSequence
    <2>8. CASE Deref(r) \/ CheckAfter(r)
      BY <2>8 DEF Deref, CheckAfter
    <2>9. CASE ClearHazard(r)
      BY <2>9 DEF ClearHazard
    <2>10. QED
      BY <2>1, <2>2, <2>3, <2>4, <2>5, <2>6, <2>7, <2>8, <2>9 DEF Reads, ReadSteps
  <1>3. QED
    BY <1>1, <1>2 DEF HandleInv

\* Halves and remainders of neighbours of an even number.
LEMMA Halves ==
  ASSUME NEW n \in Nat
  PROVE  /\ (2 * n) % 2 = 0 /\ (2 * n + 1) % 2 = 1 /\ (2 * n + 2) % 2 = 0
         /\ (2 * n) \div 2 = n /\ (2 * n + 1) \div 2 = n /\ (2 * n + 2) \div 2 = n + 1
  OBVIOUS

\* The sequence is odd only around the swap; even, it numbers the current box.
LEMMA SequenceParity ==
  ASSUME TypeOK, CountInv
  PROVE  /\ sequence % 2 = IF Swapping THEN 1 ELSE 0
         /\ ~Swapping => heap[pointer] = sequence \div 2 + 1
  <1>1. Published \in Nat
    BY DEF Published, TypeOK, SharedType
  <1>2. CASE Swapping
    BY <1>1, <1>2, Halves DEF CountInv
  <1>3. CASE Stage = "scan"
    BY <1>1, <1>3, Halves DEF CountInv, Swapping
  <1>4. CASE ~Swapping /\ Stage # "scan"
    BY <1>1, <1>4, Halves DEF CountInv, Swapping
  <1>5. QED
    BY <1>2, <1>3, <1>4

\* What a load of handle s has established so far.
Established(s) ==
  /\ before[s] % 2 = 0 /\ before[s] <= sequence /\ 2 * cached[s].gen <= sequence
  /\ cached[s] # Nothing => cached[s].val = cached[s].gen + 1
  /\ rpc[s] \in Holding \cup {"pointer", "hazard"} => 2 * cached[s].gen <= before[s]
  /\ rpc[s] = "checkSequence" /\ sequence = before[s] => pointer = loaded[s]
  /\ rpc[s] = "deref" => Protected(s)
  /\ rpc[s] = "after" => copy[s] = before[s] \div 2 + 1
  /\ rpc[s] = "clear" => copy[s] \in {0, before[s] \div 2 + 1}

\* A load's own steps establish what it goes on to use.
LEMMA ReadLoad ==
  ASSUME TypeOK, CountInv, BoxInv, HandleInv, LoadInv, NEW r \in Readers, Reads(r)
  PROVE  LoadInv'
  <1>0. UNCHANGED <<sequence, pointer, heap, scan>>
    BY ReadFrame
  <1>1. ASSUME NEW s \in Readers, s # r PROVE Established(s)'
    BY <1>0, <1>1, OtherHandles DEF LoadInv, Established, Protected, OfBox
  <1>2. Established(r)'
    <2> USE <1>0 DEF Established, LoadInv, Holding, ReaderStep, NextLoad, TypeOK, ReadingType, SharedType
    <2>0. Established(r)
      OBVIOUS
    <2>1. CASE Subscribe(r) \/ Poll(r)
      BY <2>1 DEF Subscribe, Poll
    <2>2. CASE DropReader(r)
      BY <2>2 DEF DropReader, Nothing
    <2>3. CASE LoadBefore(r)
      <3>1. CASE sequence % 2 = 0
        BY <2>3, <3>1 DEF LoadBefore
      <3>2. CASE sequence % 2 # 0
        BY <2>3, <3>2 DEF LoadBefore
      <3>3. QED
        BY <3>1, <3>2
    <2>4. CASE LoadPointer(r) \/ StoreHazard(r)
      BY <2>4 DEF LoadPointer, StoreHazard
    <2>5. CASE CheckPointer(r)
      BY <2>5 DEF CheckPointer, HandleInv
    <2>6. CASE CheckSequence(r)
      <3>1. CASE sequence = before[r]
        <4>1. heap[loaded[r]] = before[r] \div 2 + 1
          BY <2>6, <3>1, SequenceParity DEF CheckSequence
        <4>2. OfBox(loaded[r]) = {}
          BY <2>6, <3>1 DEF CheckSequence, BoxInv, OfBox
        <4>3. Protected(r)'
          BY <2>6, <4>1, <4>2 DEF CheckSequence, Protected, OfBox
        <4>4. QED
          BY <2>6, <3>1, <4>3 DEF CheckSequence
      <3>2. CASE sequence # before[r]
        BY <2>6, <3>2 DEF CheckSequence, HandleInv
      <3>3. QED
        BY <3>1, <3>2
    <2>7. CASE Deref(r)
      BY <2>7 DEF Deref, Protected
    <2>8. CASE CheckAfter(r)
      BY <2>8 DEF CheckAfter
    <2>9. CASE ClearHazard(r)
      BY <2>9 DEF ClearHazard, Nothing
    <2>10. QED
      BY <2>1, <2>2, <2>3, <2>4, <2>5, <2>6, <2>7, <2>8, <2>9 DEF Reads, ReadSteps
  <1>3. QED
    BY <1>1, <1>2 DEF LoadInv, Established

\* No step of a publication takes away what a load has established: the
\* sequence moves before the pointer does, and no box in a slot is freed.
LEMMA PublishLoad ==
  ASSUME TypeOK, MutexInv, CountInv, BoxInv, HandleInv, LoadInv, NEW w \in Writers, Publishes(w)
  PROVE  LoadInv'
  <1> SUFFICES ASSUME NEW r \in Readers PROVE Established(r)'
    BY DEF LoadInv, Established
  <1>0. UNCHANGED <<hazard, rpc, before, loaded, copy, cached>> /\ Established(r)
    BY PublishFrame DEF LoadInv, Established
  <1>1. CASE UNCHANGED <<sequence, pointer, heap, scan>>
    BY <1>0, <1>1 DEF Established, Protected, OfBox
  <1> USE <1>0, PublicationStages DEF Established, Moves
  <1>2. CASE SequenceOdd(w)
    <2>1. sequence' = sequence + 1
      BY <1>2 DEF SequenceOdd
    <2>2. Protected(r)' <=> Protected(r)
      BY <1>2 DEF SequenceOdd, Protected, OfBox
    <2>3. QED
      BY <2>1, <2>2 DEF TypeOK, SharedType, ReadingType
  <1>3. CASE SwapPointer(w)
    <2>1. UNCHANGED sequence /\ sequence % 2 = 1
      BY <1>3, SequenceParity DEF SwapPointer, Swapping
    <2>2. rpc[r] = "deref" => Protected(r)'
      BY <1>3 DEF SwapPointer, Protected, OfBox, TypeOK, SharedType, ReadingType
    <2>3. QED
      BY <2>1, <2>2 DEF TypeOK, SharedType, ReadingType
  <1>4. CASE SequenceEven(w)
    <2>1. sequence' \in Nat /\ sequence' > sequence /\ UNCHANGED pointer
      BY <1>4 DEF SequenceEven, TypeOK, SharedType
    <2>2. ASSUME rpc[r] = "deref" PROVE Protected(r)'
      <3>1. r \in alive /\ loaded[r] \in Addrs /\ heap[loaded[r]] # 0
        BY <2>2 DEF HandleInv, Holding, Protected, TypeOK, ReadingType
      <3>2. heap' = heap /\ scan' = (retired \cup {displaced}) \X alive
        BY <1>4, <3>1 DEF SequenceEven
      <3>3. loaded[r] \in retired \cup {displaced} => <<loaded[r], r>> \in scan'
        BY <3>1, <3>2
      <3>4. loaded[r] \notin retired \cup {displaced} => OfBox(loaded[r])' = {}
        BY <3>2 DEF OfBox
      <3>5. QED
        BY <2>2, <3>2, <3>3, <3>4 DEF Protected
    <2>3. QED
      BY <2>1, <2>2 DEF TypeOK, SharedType, ReadingType
  <1>5. CASE ScanHazard(w)
    <2>1. UNCHANGED <<sequence, pointer>>
      BY <1>5 DEF ScanHazard
    <2>2. ASSUME rpc[r] = "deref" PROVE Protected(r)'
      <3>0. hazard[r] = loaded[r] /\ Protected(r)
        BY <2>2 DEF HandleInv, Holding
      <3>1. PICK p \in scan :
              /\ scan' = IF hazard[p[2]] = p[1] THEN scan \ OfBox(p[1]) ELSE scan \ {p}
              /\ LET frees == hazard[p[2]] # p[1] /\ OfBox(p[1]) = {p}
                 IN heap' = IF frees THEN Freed({p[1]}) ELSE heap
        BY <1>5 DEF ScanHazard
      <3>2. CASE p[1] # loaded[r]
        <4>1. heap'[loaded[r]] = heap[loaded[r]]
          BY <2>2, <3>0, <3>1, <3>2 DEF Freed, HandleInv, Holding, TypeOK, ReadingType
        <4>2. OfBox(loaded[r])' = OfBox(loaded[r])
          BY <3>1, <3>2 DEF OfBox
        <4>3. <<loaded[r], r>> \in scan' <=> <<loaded[r], r>> \in scan
          BY <3>1, <3>2 DEF OfBox
        <4>4. QED
          BY <3>0, <4>1, <4>2, <4>3 DEF Protected
      <3>3. CASE p[1] = loaded[r] /\ hazard[p[2]] = p[1]
        BY <3>0, <3>1, <3>3 DEF Protected, OfBox
      <3>4. CASE p[1] = loaded[r] /\ hazard[p[2]] # p[1]
        <4>1. <<loaded[r], r>> \in scan /\ p # <<loaded[r], r>>
          BY <3>0, <3>4 DEF Protected, OfBox
        <4>2. <<loaded[r], r>> \in OfBox(p[1])
          BY <3>4, <4>1 DEF OfBox
        <4>3. OfBox(p[1]) # {p}
          BY <4>1, <4>2
        <4>4. QED
          BY <3>0, <3>1, <3>4, <4>1, <4>3 DEF Protected
      <3>5. QED
        BY <3>2, <3>3, <3>4
    <2>3. QED
      BY <2>1, <2>2
  <1>6. CASE FinishPublish(w)
    <2>1. UNCHANGED <<sequence, pointer, heap, scan>>
      BY <1>6 DEF FinishPublish
    <2>2. QED
      BY <1>1, <2>1
  <1>7. CASE Preparing(w)
    BY <1>1, <1>7, PrepareFrame
  <1>8. QED
    BY <1>2, <1>3, <1>4, <1>5, <1>6, <1>7 DEF Publishes, WriterSteps, Preparing

-----------------------------------------------------------------------------
(* What the scan spares, and what a control thread reads.                  *)

\* The vouchers depend only on the boxes and the slots.
LEMMA SparedFrame ==
  ASSUME SparedInv, UNCHANGED <<writer, wpc, control, pointer, retired, scan, hazard, loaded>>
  PROVE  SparedInv'
  <1>1. Stage' = Stage /\ Spared' = Spared
    BY DEF Stage, Spared, OfBox
  <1>2. ASSUME NEW f \in [Spared -> Readers], Vouches(f) PROVE Vouches(f)'
    BY <1>1, <1>2 DEF Vouches
  <1>3. QED
    BY <1>1, <1>2 DEF SparedInv

\* Each spared box keeps the voucher it has, and frees nobody's.
LEMMA ReadSpared ==
  ASSUME TypeOK, BoxInv, HandleInv, SparedInv, NEW r \in Readers, Reads(r)
  PROVE  SparedInv'
  <1>1. UNCHANGED <<writer, wpc, control, pointer, retired, scan>>
    BY ReadFrame
  <1>2. Stage' = Stage /\ Spared' = Spared
    BY <1>1 DEF Stage, Spared, OfBox
  <1>3. {hazard'[r], loaded'[r]} \subseteq {Null, hazard[r], loaded[r], pointer}
    <2> USE DEF ReaderStep, TypeOK, ReadingType
    <2>1. CASE Subscribe(r) \/ Poll(r) \/ DropReader(r)
      BY <2>1 DEF Subscribe, Poll, DropReader
    <2>2. CASE ReadSteps(r)
      BY <2>2 DEF ReadSteps, LoadBefore, LoadPointer, StoreHazard, CheckPointer, CheckSequence,
         Deref, CheckAfter, ClearHazard
    <2>3. QED
      BY <2>1, <2>2 DEF Reads
  <1>4. ASSUME NEW f \in [Spared -> Readers], Vouches(f) PROVE Vouches(f)'
    <2>1. ASSUME NEW b \in Spared
          PROVE {hazard'[f[b]], loaded'[f[b]]} \subseteq {Null, b, pointer}
      <3>1. f[b] \in Readers /\ {hazard[f[b]], loaded[f[b]]} \subseteq {Null, b, pointer}
        BY <1>4, <2>1 DEF Vouches
      <3>2. CASE f[b] = r
        BY <1>3, <3>1, <3>2
      <3>3. CASE f[b] # r
        BY <3>1, <3>3, OtherHandles
      <3>4. QED
        BY <3>2, <3>3
    <2>2. QED
      BY <1>1, <1>2, <1>4, <2>1 DEF Vouches
  <1>5. Stage' = "scan" => \E f \in [Spared' -> Readers] : Vouches(f)'
    BY <1>2, <1>4 DEF SparedInv
  <1>6. QED
    BY <1>1, <1>5 DEF SparedInv

\* A publication retires at most one box for each handle.
LEMMA PublishSpared ==
  ASSUME TypeOK, MutexInv, BoxInv, HandleInv, SparedInv, NEW w \in Writers, Publishes(w)
  PROVE  SparedInv'
  <1> USE PublicationStages, NamesAssumption DEF Moves
  <1>0. UNCHANGED <<hazard, loaded>>
    BY PublishFrame
  <1>1. CASE Preparing(w)
    <2>1. UNCHANGED <<control, retired>> /\ Stage' # "scan"
      BY <1>1, PrepareFrame DEF Preparing
    <2>2. QED
      BY <2>1 DEF SparedInv
  <1>2. CASE SequenceOdd(w) \/ SwapPointer(w)
    BY <1>2 DEF SequenceOdd, SwapPointer, SparedInv, MutexInv, WriterStep
  <1>3. CASE SequenceEven(w)
    <2>1. control' = control /\ control = w
      BY <1>3 DEF SequenceEven, MutexInv, WriterStep
    <2>2. Spared' = {}
      <3>1. CASE alive = {}
        BY <1>3, <3>1 DEF SequenceEven, Spared
      <3>2. CASE alive # {}
        <4>1. PICK r : r \in alive
          BY <3>2
        <4>2. ASSUME NEW b \in retired' PROVE <<b, r>> \in OfBox(b)'
          BY <1>3, <4>1, <4>2 DEF SequenceEven, OfBox
        <4>3. QED
          BY <4>2 DEF Spared
      <3>3. QED
        BY <3>1, <3>2
    <2>3. [x \in {} |-> w] \in [Spared' -> Readers] /\ Vouches([x \in {} |-> w])'
      BY <2>2 DEF Vouches
    <2>4. QED
      BY <2>1, <2>3 DEF SparedInv
  <1>4. CASE ScanHazard(w)
    <2>1. control' = control /\ control = w /\ pointer' = pointer
      BY <1>4 DEF ScanHazard, MutexInv
    <2>2. PICK f \in [Spared -> Readers] : Vouches(f)
      BY <1>4 DEF SparedInv
    <2>3. PICK p \in scan :
            /\ scan' = IF hazard[p[2]] = p[1] THEN scan \ OfBox(p[1]) ELSE scan \ {p}
            /\ LET frees == hazard[p[2]] # p[1] /\ OfBox(p[1]) = {p}
               IN retired' = IF frees THEN retired \ {p[1]} ELSE retired
      BY <1>4 DEF ScanHazard
    <2>4. p[1] \in retired /\ p[2] \in Readers /\ p \in OfBox(p[1])
      BY <2>3 DEF BoxInv, TypeOK, WritingType, OfBox
    <2>5. ASSUME NEW b \in Addrs, b # p[1] PROVE b \in Spared' <=> b \in Spared
      BY <2>3, <2>5 DEF Spared, OfBox
    <2>6. p[1] \notin Spared
      BY <2>4 DEF Spared
    <2>7. CASE hazard[p[2]] # p[1]
      <3>1. p[1] \notin Spared'
        <4>1. CASE OfBox(p[1]) = {p}
          BY <2>3, <2>7, <4>1 DEF Spared
        <4>2. CASE OfBox(p[1]) # {p}
          <5>1. PICK q \in OfBox(p[1]) : q # p
            BY <2>4, <4>2
          <5>2. q \in OfBox(p[1])'
            BY <2>3, <2>7, <5>1 DEF OfBox
          <5>3. QED
            BY <5>2 DEF Spared
        <4>3. QED
          BY <4>1, <4>2
      <3>2. Spared' = Spared
        BY <2>5, <2>6, <3>1, <2>3 DEF Spared, TypeOK, SharedType
      <3>3. Vouches(f)'
        BY <1>0, <2>1, <2>2, <3>2 DEF Vouches
      <3>4. QED
        BY <2>1, <2>2, <3>2, <3>3 DEF SparedInv
    <2>8. CASE hazard[p[2]] = p[1]
      <3>0. PICK g : g = [b \in Spared \cup {p[1]} |-> IF b = p[1] THEN p[2] ELSE f[b]]
        OBVIOUS
      <3>1. Spared' = Spared \cup {p[1]}
        <4>1. p[1] \in Spared'
          BY <2>3, <2>4, <2>8 DEF Spared, OfBox
        <4>2. QED
          BY <2>5, <2>3, <4>1 DEF Spared, TypeOK, SharedType
      <3>2. g \in [Spared' -> Readers]
        BY <2>2, <2>4, <3>0, <3>1
      <3>3. loaded[p[2]] = p[1] /\ p[1] # pointer /\ p[1] # Null
        BY <2>4, <2>8 DEF HandleInv, BoxInv, TypeOK, SharedType
      <3>4. ASSUME NEW b \in Spared PROVE f[b] # p[2]
        BY <2>2, <2>6, <2>8, <3>3 DEF Vouches
      <3>5. Vouches(g)'
        <4>1. ASSUME NEW b \in Spared'
              PROVE {hazard[g[b]], loaded[g[b]]} \subseteq {Null, b, pointer}
          BY <2>2, <2>8, <3>0, <3>1, <3>3 DEF Vouches
        <4>2. ASSUME NEW b \in Spared', NEW c \in Spared', g[b] = g[c] PROVE b = c
          BY <2>2, <3>0, <3>1, <3>4, <4>2 DEF Vouches
        <4>3. QED
          BY <1>0, <2>1, <4>1, <4>2 DEF Vouches
      <3>6. QED
        BY <2>1, <3>2, <3>5 DEF SparedInv
    <2>9. QED
      BY <2>7, <2>8
  <1>5. CASE FinishPublish(w)
    <2>1. Stage' # "scan" /\ retired' = retired
      BY <1>5 DEF FinishPublish
    <2>2. Spared = retired
      BY <1>5 DEF FinishPublish, Spared, OfBox
    <2>3. PICK f \in [retired -> Readers] : Vouches(f)
      BY <1>5, <2>2 DEF SparedInv
    <2>4. f \in Injection(retired, Readers)
      BY <2>2, <2>3 DEF Vouches, Injection, IsInjective
    <2>5. Cardinality(retired) <= Cardinality(Readers)
      BY <2>4, SnapshotAssumption, FS_Injection DEF ExistsInjection
    <2>6. QED
      BY <2>1, <2>5 DEF SparedInv
  <1>6. QED
    BY <1>1, <1>2, <1>3, <1>4, <1>5 DEF Publishes, WriterSteps, Preparing

\* Publications keep what a control thread's locals say.
LEMMA PublishUi ==
  ASSUME TypeOK, MutexInv, CountInv, UiInv, NEW w \in Writers, Publishes(w)
  PROVE  UiInv'
  <1>0. UNCHANGED <<upc, ubefore, uval, uafter>>
    BY PublishFrame
  <1>1. generation' = generation \/ MarkOdd(w) \/ FinishPublish(w)
    BY DEF Publishes, LockWriter, WriterSteps, EditCopy, DeclineEdit, StoreCurrent, SequenceOdd,
       SwapPointer, SequenceEven, ScanHazard, shared
  <1>2. generation' \in Nat /\ generation' >= generation
        /\ (generation' # generation => generation' > generation)
    <2>1. Published \in Nat /\ generation \in Nat
      BY DEF Published, TypeOK, SharedType
    <2>2. CASE MarkOdd(w)
      BY <2>1, <2>2 DEF MarkOdd
    <2>3. CASE FinishPublish(w)
      <3>1. generation = 2 * Published + 1 /\ generation' = 2 * Published + 2
        BY <2>3, PublicationStages DEF FinishPublish, CountInv, MarkedOdd, Published, Moves
      <3>2. QED
        BY <2>1, <3>1
    <2>4. QED
      BY <1>1, <2>1, <2>2, <2>3
  <1>3. QED
    BY <1>0, <1>2 DEF UiInv, TypeOK, SharedType, UiType

\* A control thread's answer belongs to the generation it returns with it.
LEMMA AnswerUi ==
  ASSUME TypeOK, CountInv, UiInv, Answers
  PROVE  UiInv'
  <1> USE AnswerFrame DEF UiInv, TypeOK, SharedType, UiType
  <1>1. CASE UiBefore
    BY <1>1 DEF UiBefore
  <1>2. CASE UiClone
    <2>1. generation % 2 = 0 => current = generation \div 2 + 1
      BY Halves DEF CountInv, MarkedOdd, Stored, Published
    <2>2. QED
      BY <1>2, <2>1 DEF UiClone
  <1>3. CASE UiAfter
    BY <1>3 DEF UiAfter
  <1>4. CASE UiReturn
    BY <1>4 DEF UiReturn
  <1>5. QED
    BY <1>1, <1>2, <1>3, <1>4 DEF Answers

-----------------------------------------------------------------------------
(* The theorems.                                                           *)

\* Every step keeps the invariant.
LEMMA NextIInv == IInv /\ [Next]_vars => IInv'
  <1> SUFFICES ASSUME IInv, [Next]_vars PROVE IInv'
    OBVIOUS
  <1> USE DEF IInv
  <1>1. ASSUME NEW w \in Writers, Publishes(w) PROVE IInv'
    <2>1. HandleInv'
      BY <1>1, PublishFrame DEF HandleInv
    <2>2. QED
      BY <1>1, <2>1, PublishType, PublishMutex, PublishCount, PublishBox, PublishLoad,
         PublishSpared, PublishUi
  <1>2. ASSUME NEW r \in Readers, Reads(r) PROVE IInv'
    <2>1. MutexInv' /\ CountInv' /\ UiInv'
      BY <1>2, ReadFrame
         DEF MutexInv, CountInv, UiInv, Published, MarkedOdd, Stored, Swapping, Stage
    <2>2. BoxInv'
      BY <1>2, ReadFrame DEF BoxInv, Stage
    <2>3. QED
      BY <1>2, <2>1, <2>2, ReadType, ReadHandle, ReadLoad, ReadSpared
  <1>3. ASSUME Answers PROVE IInv'
    <2>1. MutexInv' /\ CountInv'
      BY <1>3, AnswerFrame DEF MutexInv, CountInv, Published, MarkedOdd, Stored, Swapping, Stage
    <2>2. BoxInv' /\ HandleInv' /\ LoadInv'
      BY <1>3, AnswerFrame DEF BoxInv, HandleInv, LoadInv, Protected, OfBox, Stage
    <2>3. SparedInv'
      BY <1>3, AnswerFrame, SparedFrame
    <2>4. QED
      BY <1>3, <2>1, <2>2, <2>3, AnswerType, AnswerUi
  <1>4. CASE UNCHANGED vars
    <2> USE <1>4 DEF vars, shared, realtime, writing, reading, ui
    <2>1. TypeOK' /\ MutexInv'
      BY DEF TypeOK, SharedType, WritingType, ReadingType, UiType, MutexInv
    <2>2. CountInv' /\ UiInv' /\ BoxInv'
      BY DEF CountInv, UiInv, BoxInv, Published, MarkedOdd, Stored, Swapping, Stage
    <2>3. HandleInv' /\ LoadInv'
      BY DEF HandleInv, LoadInv, Protected, OfBox
    <2>4. SparedInv'
      BY SparedFrame
    <2>5. QED
      BY <2>1, <2>2, <2>3, <2>4
  <1>5. QED
    BY <1>1, <1>2, <1>3, <1>4 DEF Next, Publishes, Reads, Answers

\* The invariant holds in every reachable state of a cell.
LEMMA SpecIInv == Spec => []IInv
  BY InitIInv, NextIInv, PTL DEF Spec

\* Every variable keeps its type.
THEOREM TypeCorrect == Spec => []TypeOK
  <1>1. IInv => TypeOK
    BY DEF IInv
  <1>2. QED
    BY <1>1, SpecIInv, PTL

\* A realtime callback never reads a box that the publisher has freed or
\* reused, no box leaks, and every handle keeps at most one retired box alive
\* (`RealtimeSnapshot::publish` and its hazard slots).
THEOREM MemorySafety == Spec => []NoUseAfterFree
  <1>1. IInv => NoUseAfterFree
    <2> SUFFICES ASSUME IInv PROVE NoUseAfterFree
      OBVIOUS
    <2>1. \A r \in Readers : rpc[r] = "deref" => heap[loaded[r]] = before[r] \div 2 + 1
      BY DEF IInv, LoadInv, Protected
    <2>2. {a \in Addrs : heap[a] # 0} = {pointer} \cup retired \cup ({displaced} \ {Null})
      BY NamesAssumption DEF IInv, BoxInv, TypeOK, SharedType, WritingType
    <2>3. control = NoOne => Cardinality(retired) <= Cardinality(Readers)
      BY DEF IInv, SparedInv
    <2>4. QED
      BY <2>1, <2>2, <2>3 DEF NoUseAfterFree
  <1>2. QED
    BY <1>1, SpecIInv, PTL

\* A callback's cache and a control thread's answer pair a snapshot with its
\* own generation, and the snapshot contains every edit published until then.
THEOREM Coherence == Spec => []Coherent
  <1>1. IInv => Coherent
    BY DEF IInv, LoadInv, UiInv, Coherent
  <1>2. QED
    BY <1>1, SpecIInv, PTL

\* A live handle never returns an older snapshot than it returned before.
THEOREM Monotone == Spec => NeverGoesBack
  <1> DEFINE Forward ==
        \A r \in Readers : r \in alive /\ r \in alive' => cached'[r].gen >= cached[r].gen
  <1>1. IInv /\ [Next]_vars => [Forward]_<<cached, alive>>
    <2> SUFFICES ASSUME IInv, [Next]_vars, NEW r \in Readers, r \in alive, r \in alive',
                        <<cached, alive>>' # <<cached, alive>>
                 PROVE cached'[r].gen >= cached[r].gen
      OBVIOUS
    <2> USE DEF IInv
    <2>1. PICK s \in Readers : Reads(s)
      BY PublishFrame, AnswerFrame
         DEF Next, Publishes, Reads, Answers, vars, reading
    <2>2. CASE s # r
      BY <2>1, <2>2, OtherHandles DEF TypeOK, ReadingType
    <2>3. CASE s = r /\ cached'[r] = cached[r]
      BY <2>3 DEF TypeOK, ReadingType
    <2>4. CASE s = r /\ DropReader(r)
      BY <2>4 DEF DropReader
    <2>5. CASE s = r /\ ClearHazard(r)
      <3>1. 2 * cached[r].gen <= before[r]
        BY <2>5 DEF ClearHazard, ReaderStep, LoadInv, Holding
      <3>2. cached'[r] = cached[r] \/ cached'[r].gen = before[r] \div 2
        BY <2>5 DEF ClearHazard, TypeOK, ReadingType
      <3>3. cached[r].gen \in Nat /\ before[r] \in Nat
        BY DEF TypeOK, ReadingType
      <3>4. QED
        BY <3>1, <3>2, <3>3
    <2>6. QED
      BY <2>1, <2>2, <2>3, <2>4, <2>5
         DEF Reads, ReadSteps, Subscribe, Poll, LoadBefore, LoadPointer, StoreHazard,
             CheckPointer, CheckSequence, Deref, CheckAfter
  <1>2. QED
    BY <1>1, SpecIInv, PTL DEF Spec, NeverGoesBack


-----------------------------------------------------------------------------
(* Remainders.                                                             *)

\* Quotient and remainder.
LEMMA Division ==
  ASSUME NEW a \in Int, NEW m \in Nat \ {0}
  PROVE  /\ a \div m \in Int /\ (a % m) \in Nat /\ (a % m) < m
         /\ a = m * (a \div m) + (a % m)
  OBVIOUS

\* A multiple of m that is smaller than m is 0.
LEMMA SmallMultiple ==
  ASSUME NEW m \in Nat \ {0}, NEW k \in Int, m * k < m, m * k > - m
  PROVE  k = 0
  <1>1. k >= 1 => m * k >= m
    OBVIOUS
  <1>2. k <= - 1 => m * k <= - m
    OBVIOUS
  <1>3. QED
    BY <1>1, <1>2

\* A remainder is the only one.
LEMMA Remainder ==
  ASSUME NEW m \in Nat \ {0}, NEW q \in Int, NEW r \in Nat, r < m
  PROVE  (m * q + r) % m = r
  <1> DEFINE a == m * q + r
             k == (a \div m) - q
  <1>1. a \in Int
    OBVIOUS
  <1>2. a \div m \in Int /\ (a % m) \in Nat /\ (a % m) < m /\ a = m * (a \div m) + (a % m)
    BY <1>1, Division
  <1> HIDE DEF a
  <1>3. a = m * q + r
    BY DEF a
  <1>4. m * k = m * (a \div m) - m * q
    BY <1>2
  <1>5. m * k = r - (a % m)
    BY <1>2, <1>3, <1>4
  <1>6. k = 0
    <2>1. k \in Int /\ m * k < m /\ m * k > - m
      BY <1>2, <1>5
    <2>2. QED
      BY ONLY <2>1, m \in Nat \ {0}, SmallMultiple
  <1>7. a % m = r
    BY <1>2, <1>3, <1>6
  <1>8. QED
    BY <1>7 DEF a

\* The slot d frames further is d slots further around the ring.
LEMMA SlotDistance ==
  ASSUME NEW m \in Nat \ {0}, NEW a \in Nat, NEW d \in Nat, d < m
  PROVE  (((a + d) % m) + m - (a % m)) % m = d
  <1> DEFINE q == a \div m
             r == (a % m)
  <1>1. q \in Int /\ r \in Nat /\ r < m /\ a = m * q + r
    BY Division
  <1> HIDE DEF q, r
  <1>2. CASE r + d < m
    <2>1. a + d = m * q + (r + d)
      BY <1>1
    <2>2. (a + d) % m = r + d
      BY <1>1, <1>2, <2>1, Remainder
    <2>3. ((a + d) % m) + m - r = m * 1 + d
      BY <1>1, <2>2
    <2>4. (m * 1 + d) % m = d
      BY Remainder
    <2>5. QED
      BY <2>3, <2>4 DEF r
  <1>3. CASE r + d >= m
    <2>1. a + d = m * (q + 1) + (r + d - m)
      BY <1>1
    <2>2. r + d - m \in Nat /\ r + d - m < m
      BY <1>1, <1>3
    <2>3. (a + d) % m = r + d - m
      <3>1. q + 1 \in Int
        BY <1>1
      <3>2. (m * (q + 1) + (r + d - m)) % m = r + d - m
        BY <2>2, <3>1, Remainder
      <3>3. QED
        BY <2>1, <3>2
    <2>4. ((a + d) % m) + m - r = m * 0 + d
      BY <1>1, <2>3
    <2>5. (m * 0 + d) % m = d
      BY Remainder
    <2>6. QED
      BY <2>4, <2>5 DEF r
  <1>4. QED
    BY <1>1, <1>2, <1>3

\* One turn of the ring returns to the same slot.
LEMMA FullTurn ==
  ASSUME NEW m \in Nat \ {0}, NEW a \in Nat
  PROVE  (a + m) % m = (a % m)
  <1> DEFINE q == a \div m
             r == (a % m)
  <1>1. q \in Int /\ r \in Nat /\ r < m /\ a = m * q + r
    BY Division
  <1> HIDE DEF q, r
  <1>2. a + m = m * (q + 1) + r
    BY <1>1
  <1>3. (m * (q + 1) + r) % m = r
    BY <1>1, Remainder
  <1>4. QED
    BY <1>2, <1>3 DEF r

\* The start of a block may be computed from the slot it would have had.
LEMMA SkippedStart ==
  ASSUME NEW m \in Nat \ {0}, NEW a \in Nat, NEW d \in Nat
  PROVE  ((a % m) + d) % m = (a + d) % m
  <1> DEFINE q == a \div m
             r == (a % m)
  <1>1. q \in Int /\ r \in Nat /\ a = m * q + r
    BY Division
  <1> HIDE DEF q, r
  <1> DEFINE p == (r + d) \div m
             s == (r + d) % m
  <1>2. p \in Int /\ s \in Nat /\ s < m /\ r + d = m * p + s
    BY <1>1, Division
  <1> HIDE DEF p, s
  <1>3. a + d = m * (q + p) + s
    BY <1>1, <1>2
  <1>4. (m * (q + p) + s) % m = s
    <2>1. q + p \in Int
      BY <1>1, <1>2
    <2>2. QED
      BY <1>2, <2>1, Remainder
  <1>5. QED
    BY <1>3, <1>4 DEF r, s

-----------------------------------------------------------------------------
(* The inductive invariant: the buffer holds the frames not yet consumed.   *)

CountersInv ==
  /\ framesWritten \in Nat /\ framesConsumed \in Nat /\ overflowCount \in Nat
  /\ readPos \in Nat /\ unadvanced \in Nat
  /\ readPos = framesConsumed + unadvanced
  /\ readPos <= framesWritten /\ framesWritten <= framesConsumed + Capacity
HeldInv ==
  /\ DOMAIN data = Slots
  /\ \A i \in Nat : framesConsumed <= i /\ i < framesWritten => data[i % Capacity] = i + 1
RingInv == CountersInv /\ HeldInv

\* A slot is a position of the storage.
LEMMA SlotOf == ASSUME NEW i \in Nat PROVE i % Capacity \in Slots /\ i % Capacity \in Nat
  BY Division, RingAssumption DEF Slots

\* An empty ring satisfies the invariant.
LEMMA InitRing == RingInit => RingInv
  BY RingAssumption DEF RingInit, RingInv, CountersInv, HeldInv, Slots

\* What a write does to the positions when the client has advanced.
LEMMA WritePositions ==
  ASSUME RingInv, ~LateAdvance, NEW k \in Sizes, Write(k)
  PROVE  /\ k \in Nat /\ unadvanced = 0 /\ readPos = framesConsumed
         /\ framesWritten' = framesWritten + k
         /\ framesConsumed' = Larger(framesConsumed, SaturatingSub(framesWritten + k, Capacity))
         /\ readPos' = framesConsumed' /\ unadvanced' = 0 /\ UNCHANGED output
         /\ reported' = (framesConsumed' > framesConsumed)
         /\ overflowCount' \in Nat
  <1> USE RingAssumption DEF RingInv, CountersInv, Larger, SaturatingSub
  <1>1. k \in Nat /\ unadvanced = 0 /\ readPos = framesConsumed
    BY DEF Write
  <1>2. CASE k = 0
    BY <1>1, <1>2 DEF Write
  <1>3. CASE k > 0
    <2>1. Overflow(k) = SaturatingSub(framesWritten + k, framesConsumed + Capacity)
      BY <1>1, <1>3 DEF Overflow
    <2>2. QED
      BY <1>1, <1>3, <2>1 DEF Write
  <1>4. QED
    BY <1>1, <1>2, <1>3

\* After a write the buffer holds every frame not yet consumed, each in the slot
\* its number says: the new ones are copied, the kept ones not overwritten.
LEMMA WriteHolds ==
  ASSUME RingInv, ~LateAdvance, NEW k \in Sizes, Write(k)
  PROVE  HeldInv'
  <1> USE RingAssumption
  <1>1. k \in Nat /\ framesWritten \in Nat /\ framesConsumed \in Nat /\ Capacity \in Nat \ {0}
        /\ framesWritten <= framesConsumed + Capacity
    BY WritePositions DEF RingInv, CountersInv
  <1>2. /\ framesWritten' = framesWritten + k
        /\ framesConsumed' >= framesConsumed /\ framesConsumed' \in Nat
        /\ framesConsumed' >= framesWritten + k - Capacity
    BY <1>1, WritePositions DEF Larger, SaturatingSub
  <1>3. CASE k = 0
    BY <1>1, <1>2, <1>3 DEF Write, RingInv, HeldInv
  <1>4. CASE k > 0
    <2> DEFINE kept == Smaller(k, Capacity)
               start == framesWritten + (k - kept)
               place(s) == (s + Capacity - (start % Capacity)) % Capacity
    <2>1. kept \in Nat /\ kept <= k /\ kept <= Capacity /\ start \in Nat
          /\ (kept = k \/ kept = Capacity)
      BY <1>1 DEF Smaller
    <2>2. data' = [s \in Slots |-> IF place(s) < kept THEN start + place(s) + 1 ELSE data[s]]
      <3>1. ((framesWritten % Capacity) + (k - kept)) % Capacity = start % Capacity
        <4>1. k - kept \in Nat
          BY <1>1, <2>1
        <4>2. QED
          BY <1>1, <4>1, SkippedStart
      <3>2. QED
        BY <1>4, <3>1 DEF Write, Copied
    <2> HIDE DEF kept
    <2>3. ASSUME NEW i \in Nat, framesConsumed' <= i, i < framesWritten'
          PROVE  data'[i % Capacity] = i + 1
      <3>1. i % Capacity \in Slots
        BY SlotOf
      <3>2. CASE i >= start
        <4>1. i - start \in Nat /\ i - start < Capacity /\ i - start < kept
              /\ start + (i - start) = i
          BY <1>1, <1>2, <2>1, <2>3, <3>2
        <4>2. place(i % Capacity) = i - start
          BY <1>1, <2>1, <4>1, SlotDistance
        <4>3. QED
          BY <2>2, <3>1, <4>1, <4>2
      <3>3. CASE i < start
        <4>1. kept = k /\ start = framesWritten
          BY <1>1, <1>2, <2>1, <2>3, <3>3
        <4> DEFINE d == i + Capacity - start
        <4>2. d \in Nat /\ d < Capacity /\ d >= kept /\ start + d = i + Capacity
          BY <1>1, <1>2, <2>1, <2>3, <3>3, <4>1
        <4>3. (start + d) % Capacity = i % Capacity
          BY <1>1, <4>2, FullTurn
        <4>4. place(i % Capacity) = d
          BY <1>1, <2>1, <4>2, <4>3, SlotDistance
        <4>5. data'[i % Capacity] = data[i % Capacity]
          BY <2>1, <2>2, <3>1, <4>2, <4>4
        <4>6. framesConsumed <= i /\ i < framesWritten
          BY <1>1, <1>2, <2>3, <3>3, <4>1
        <4>7. QED
          BY <4>5, <4>6 DEF RingInv, HeldInv
      <3>4. QED
        BY <2>1, <3>2, <3>3
    <2>4. QED
      BY <2>2, <2>3 DEF HeldInv
  <1>5. QED
    BY <1>1, <1>3, <1>4

\* Every step keeps the buffer's contents, if reads are advanced before writes.
LEMMA NextRing == ~LateAdvance /\ RingInv /\ [RingNext]_ringVars => RingInv'
  <1> SUFFICES ASSUME ~LateAdvance, RingInv, [RingNext]_ringVars PROVE RingInv'
    OBVIOUS
  <1> USE RingAssumption DEF RingInv
  <1>1. ASSUME NEW k \in Sizes, Write(k) PROVE RingInv'
    <2>1. CountersInv'
      BY <1>1, WritePositions DEF CountersInv, Larger, SaturatingSub
    <2>2. QED
      BY <1>1, <2>1, WriteHolds
  <1>2. ASSUME NEW k \in Sizes, Read(k) PROVE RingInv'
    <2>1. CountersInv'
      BY <1>2 DEF Read, CountersInv, Smaller, SaturatingSub
    <2>2. HeldInv'
      BY <1>2 DEF Read, HeldInv
    <2>3. QED
      BY <2>1, <2>2
  <1>3. CASE AdvanceReadPos
    <2>1. CountersInv'
      BY <1>3 DEF AdvanceReadPos, CountersInv
    <2>2. HeldInv'
      <3>1. /\ UNCHANGED <<data, framesWritten>> /\ framesConsumed \in Nat
            /\ framesConsumed' \in Nat /\ framesConsumed' >= framesConsumed
        BY <1>3 DEF AdvanceReadPos, CountersInv
      <3>2. ASSUME NEW i \in Nat, framesConsumed' <= i PROVE framesConsumed <= i
        BY <3>1, <3>2
      <3>3. QED
        BY <3>1, <3>2 DEF HeldInv
    <2>3. QED
      BY <2>1, <2>2
  <1>4. CASE UNCHANGED ringVars
    BY <1>4 DEF ringVars, CountersInv, HeldInv
  <1>5. QED
    BY <1>1, <1>2, <1>3, <1>4 DEF RingNext

-----------------------------------------------------------------------------
(* Refinement.                                                             *)

\* A write appends to the window and drops what no longer fits.
LEMMA WriteStep ==
  ASSUME RingInv, ~LateAdvance, NEW k \in Sizes, Write(k)
  PROVE  Promised!Write(k)
  <1>1. Promised!Larger(readPos, Promised!Lacking(framesWritten + k, Capacity))
          = Larger(framesConsumed, SaturatingSub(framesWritten + k, Capacity))
    BY WritePositions DEF Promised!Larger, Promised!Lacking, Larger, SaturatingSub
  <1>2. QED
    BY <1>1, WritePositions DEF Promised!Write

\* A read delivers the oldest frames of the window.
LEMMA ReadDelivers ==
  ASSUME RingInv, NEW k \in Sizes, Read(k)
  PROVE  Promised!Read(k)
  <1> DEFINE n == Smaller(k, SaturatingSub(framesWritten, readPos))
  <1>1. unadvanced = 0 /\ readPos = framesConsumed /\ framesWritten \in Nat /\ readPos \in Nat
        /\ readPos <= framesWritten /\ k \in Nat
    BY RingAssumption DEF Read, RingInv, CountersInv
  <1>2. n \in Nat /\ n <= framesWritten - readPos
        /\ n = Promised!Smaller(k, framesWritten - readPos)
    BY <1>1 DEF Smaller, SaturatingSub, Promised!Smaller
  <1>3. output' = [i \in 1 .. n |-> data[(readPos + i - 1) % Capacity]] /\ readPos' = readPos + n
        /\ UNCHANGED <<framesWritten, reported>>
    BY DEF Read
  <1> HIDE DEF n
  <1>4. ASSUME NEW i \in 1 .. n PROVE data[(readPos + i - 1) % Capacity] = readPos + i
    <2>1. readPos + i - 1 \in Nat /\ framesConsumed <= readPos + i - 1
          /\ readPos + i - 1 < framesWritten
      BY <1>1, <1>2
    <2>2. QED
      BY <1>1, <2>1 DEF RingInv, HeldInv
  <1>5. output' = [i \in 1 .. n |-> readPos + i]
    BY <1>3, <1>4
  <1>6. QED
    BY <1>2, <1>3, <1>5 DEF Promised!Read

\* The ring buffer delivers the stream: reads return consecutive frames from the
\* oldest one neither delivered nor reported lost, and a write reports a loss
\* exactly when it drops unread frames, when the client advances before the next
\* write (`RingBuffer::write`, `read`, `advance_read_pos`).
THEOREM RingImplementsWindow == ~LateAdvance /\ RingSpec => ImplementsWindow
  <1> SUFFICES ASSUME ~LateAdvance PROVE RingSpec => ImplementsWindow
    OBVIOUS
  <1>1. RingInit => RingInv /\ Promised!Init
    BY InitRing DEF RingInit, Promised!Init
  <1>2. RingInv /\ [RingNext]_ringVars => RingInv'
    BY NextRing
  <1>3. RingInv /\ [RingNext]_ringVars => [Promised!Next]_(Promised!windowVars)
    <2> SUFFICES ASSUME RingInv, [RingNext]_ringVars
                 PROVE  [Promised!Next]_(Promised!windowVars)
      OBVIOUS
    <2>1. CASE \E k \in Sizes : Write(k) \/ Read(k)
      BY <2>1, WriteStep, ReadDelivers DEF Promised!Next
    <2>2. CASE AdvanceReadPos \/ UNCHANGED ringVars
      BY <2>2 DEF AdvanceReadPos, ringVars, Promised!windowVars
    <2>3. QED
      BY <2>1, <2>2 DEF RingNext
  <1>4. QED
    BY <1>1, <1>2, <1>3, PTL DEF RingSpec, ImplementsWindow, Promised!Spec

-----------------------------------------------------------------------------
(* The spectrum analyzer.                                                  *)

\* A run of numbers from n + 1 on.
Run(s, n, size) == s \in Seq(Nat) /\ Len(s) = size /\ \A k \in 1..size : s[k] = n + k

\* A decimator after n samples.
DecimatorHolds(d, n) ==
  /\ d.pending = (IF n % 2 = 1 THEN <<n>> ELSE <<>>)
  /\ d.even \in Seq(Nat) /\ Len(d.even) = EvenHistory
  /\ \A i \in 1..EvenHistory : d.even[i] = Atleast0(2 * ((n \div 2) - EvenHistory + i) - 1)
  /\ d.odd \in Seq(Nat) /\ Len(d.odd) = OddHistory
  /\ \A i \in 1..OddHistory : d.odd[i] = Atleast0(2 * ((n \div 2) - OddHistory + i))

ChainHolds ==
  Multi => /\ DecimatorHolds(chain[1], consumed) /\ DecimatorHolds(chain[2], consumed \div 2)
           /\ DecimatorHolds(chain[3], consumed \div 4) /\ DecimatorHolds(chain[4], consumed \div 8)

\* A ring after m samples, and a tier of that decimation and hop after n samples.
RingKeeps(cells, m) ==
  DOMAIN cells = 0..FftSize - 1
    /\ \A p \in m - FftSize + 1..m : p > 0 => cells[(p - 1) % FftSize] = p
TierHolds(tier, d, hop, n) ==
  /\ DOMAIN tier = {"ring", "pos", "filled", "since"}
  /\ RingKeeps(tier.ring, n \div d) /\ tier.pos = (n \div d) % FftSize
  /\ tier.filled = (IF n < FftSize * d THEN n \div d ELSE FftSize)
  /\ tier.since = (IF n < FftSize * d THEN 0 ELSE (n - FftSize * d) % hop)

\* What is shown of a tier after n samples.
LastOf(d, hop, n) == n - ((n - FftSize * d) % hop)
ShowsWindow(band, d, hop, n) ==
  IF n < FftSize * d THEN band.window = <<>> /\ band.at = 0
  ELSE /\ band.at = LastOf(d, hop, n)
       /\ band.window = [i \in 1..FftSize |-> (band.at \div d) - FftSize + i]
PeakHolds(band, config, rate, holdFor, begun) ==
  /\ DOMAIN band = {"window", "at", "smooth", "peak", "hold", "top", "topAt"}
  /\ {band.smooth, band.peak, band.top} \subseteq Int /\ {band.at, band.topAt, band.hold} \subseteq Nat
  /\ band.topAt <= band.at /\ band.peak >= band.smooth
  /\ ~begun => band = [window |-> band.window, at |-> 0, smooth |-> config.low, peak |-> config.low,
                       hold |-> 0, top |-> config.low, topAt |-> 0]
  /\ config.hold > 0 =>
       /\ band.peak = band.top - DecayOf(rate, Atleast0(band.at - band.topAt - holdFor))
       /\ begun => band.hold = Atleast0(holdFor - (band.at - band.topAt))

RatesInUse == {rate \in AnalyzeRates \cup {config.rate : config \in Analyzers} : rate > MinRate}
AnalyzerHolds ==
  /\ DOMAIN analyzer = {"config", "rate", "binRate", "holdFor"}
  /\ analyzer.config \in Analyzers /\ ValidConfig(analyzer.config)
  /\ analyzer.rate \in RatesInUse /\ analyzer.binRate = analyzer.rate /\ analyzer.holdFor \in Nat
TiersHold ==
  /\ DOMAIN tiers = Tiers
  /\ \A t \in Tiers : TierHolds(tiers[t], Decimation(t), HopOf(t), consumed)
BandsHold ==
  /\ DOMAIN bands = Tiers
  /\ \A t \in Tiers :
       /\ ShowsWindow(bands[t], Decimation(t), HopOf(t), consumed)
       /\ PeakHolds(bands[t], analyzer.config, analyzer.rate, analyzer.holdFor,
                    consumed >= FftSize * Decimation(t))
DuePositions == {n \in pushing.from + 1..consumed : \E t \in Tiers : DueAt(t, n)}
PushingHolds ==
  /\ DOMAIN pushing = {"left", "published", "from"} /\ {pushing.left, pushing.from} \subseteq Nat
  /\ consumed \in Nat /\ pushing.from <= consumed /\ pushing.published = Cardinality(DuePositions)
  /\ valid = \E t \in Tiers : consumed >= FftSize * Decimation(t)

SpectrumInv == AnalyzerHolds /\ TiersHold /\ ChainHolds /\ BandsHold /\ PushingHolds

SpectrumSpec == SpectrumInit /\ [][SpectrumNext]_spectrumVars

\* Of two multiples the greater has the greater factor.
LEMMA FactorLess ==
  ASSUME NEW d \in Nat \ {0}, NEW x \in Int, NEW y \in Int, d * x < d * y
  PROVE  x < y
<1> SUFFICES ASSUME y <= x PROVE d * y <= d * x
  <2>1. d * x \in Int /\ d * y \in Int
    OBVIOUS
  <2> QED BY <2>1
<1>1. x - y \in Nat /\ d * (x - y) \in Nat
  OBVIOUS
<1>2. d * x = d * y + d * (x - y)
  OBVIOUS
<1>3. d * x \in Int /\ d * y \in Int
  OBVIOUS
<1> QED BY <1>1, <1>2, <1>3

\* The quotient of an integer, rounded down, and its remainder.
LEMMA Floor ==
  ASSUME NEW a \in Int, NEW d \in Nat \ {0}
  PROVE  /\ a \div d \in Int /\ a % d \in 0..d - 1
         /\ a = d * (a \div d) + (a % d)
OBVIOUS

LEMMA FloorIs ==
  ASSUME NEW d \in Nat \ {0}, NEW q \in Int, NEW r \in 0..d - 1, NEW a \in Int, a = d * q + r
  PROVE  a \div d = q /\ a % d = r
<1> DEFINE k == a \div d
           m == a % d
<1>1. k \in Int /\ m \in 0..d - 1 /\ a = d * k + m
  BY Floor
<1> HIDE DEF k, m
<1>2. d * k \in Int /\ d * q \in Int /\ d * (k + 1) = d * k + d /\ d * (q + 1) = d * q + d
  BY <1>1
<1>3. d * k < d * (q + 1) /\ d * q < d * (k + 1)
  BY <1>1, <1>2
<1>4. k < q + 1
  BY <1>1, <1>3, FactorLess
<1>5. q < k + 1
  BY <1>1, <1>3, FactorLess
<1>6. k = q
  BY <1>1, <1>4, <1>5
<1>7. m = r
  BY <1>1, <1>2, <1>6
<1> QED BY <1>6, <1>7 DEF k, m

\* Positions fewer than d apart have places of their own in a ring of d; a place moves on
\* with its position.
LEMMA PlacesApart ==
  ASSUME NEW d \in Nat \ {0}, NEW a \in Int, NEW b \in Int, a < b, b - a < d
  PROVE  a % d # b % d
<1> DEFINE x == a \div d
           y == b \div d
           r == a % d
           s == b % d
<1>1. x \in Int /\ y \in Int /\ r \in 0..d - 1 /\ s \in 0..d - 1 /\ a = d * x + r /\ b = d * y + s
  BY Floor
<1> HIDE DEF x, y, r, s
<1> SUFFICES ASSUME r = s PROVE FALSE
  BY DEF r, s
<1>2. d * x \in Int /\ d * y \in Int /\ d * (x + 1) = d * x + d
  BY <1>1
<1>3. d * x < d * y /\ d * y < d * (x + 1)
  BY <1>1, <1>2
<1>4. x < y
  BY <1>1, <1>3, FactorLess
<1>5. y < x + 1
  <2> DEFINE z == x + 1
  <2>1. z \in Int /\ d * y < d * z
    BY <1>1, <1>3
  <2> HIDE DEF z
  <2>2. y < z
    BY <1>1, <2>1, FactorLess
  <2> QED BY <2>2 DEF z
<1> QED BY <1>1, <1>4, <1>5

LEMMA PlaceAfter ==
  ASSUME NEW d \in Nat \ {0}, NEW a \in Int, NEW x \in Int
  PROVE  ((a % d) + x) % d = (a + x) % d
<1> DEFINE k == a \div d
           r == a % d
           e == r + x
           m == e \div d
           s == e % d
           q == k + m
           b == a + x
<1>1. k \in Int /\ r \in 0..d - 1 /\ a = d * k + r
  BY Floor
<1> HIDE DEF k, r
<1>2. e \in Int
  BY <1>1
<1> HIDE DEF e
<1>3. m \in Int /\ s \in 0..d - 1 /\ e = d * m + s
  BY <1>2, Floor
<1> HIDE DEF m, s
<1>4. q \in Int /\ b \in Int /\ b = d * q + s
  <2>1. d * k \in Int /\ d * m \in Int /\ d * (k + m) = d * k + d * m
    BY <1>1, <1>3
  <2> QED BY <1>1, <1>2, <1>3, <2>1 DEF e
<1> HIDE DEF q, b
<1>5. b % d = s
  BY <1>3, <1>4, FloorIs
<1> QED BY <1>5 DEF b, s, e, r
\* What is known of the constants.
LEMMA SpectrumSizes ==
  /\ FftSize \in Nat \ {0} /\ PushStep \in Nat \ {0} /\ EvenHistory \in Nat \ {0}
  /\ OddHistory = 2 * EvenHistory + 1 /\ OddHistory \in Nat \ {0}
<1>1. {FftSize, PushStep, EvenHistory, AlphaUnit, DecayPerSecond} \subseteq Nat \ {0}
  BY SpectrumAssumption, Zenon
<1> QED BY <1>1 DEF OddHistory

LEMMA SubSeqIs ==
  ASSUME NEW s \in Seq(Nat), NEW a \in Nat \ {0}, NEW b \in Nat, a <= b + 1, b <= Len(s)
  PROVE  /\ SubSeq(s, a, b) \in Seq(Nat) /\ Len(SubSeq(s, a, b)) = b - a + 1
         /\ \A i \in 1..b - a + 1 : SubSeq(s, a, b)[i] = s[a + i - 1]
<1>1. \A i \in a..b : s[i] \in Nat
  <2> SUFFICES ASSUME NEW i \in a..b PROVE s[i] \in Nat
    OBVIOUS
  <2>1. i \in 1..Len(s)
    OBVIOUS
  <2> QED BY <2>1, ElementOfSeq
<1>2. a \in Int /\ b \in Int
  OBVIOUS
<1>3. /\ SubSeq(s, a, b) \in Seq(Nat) /\ Len(SubSeq(s, a, b)) = IF a <= b THEN b - a + 1 ELSE 0
      /\ \A i \in 1..b - a + 1 : SubSeq(s, a, b)[i] = s[a + i - 1]
  BY <1>1, <1>2, SubSeqProperties
<1>4. (IF a <= b THEN b - a + 1 ELSE 0) = b - a + 1
  OBVIOUS
<1> QED BY <1>3, <1>4

LEMMA RunJoins ==
  ASSUME NEW n \in Nat, NEW x \in Nat, NEW y \in Nat, NEW s, Run(s, n, x), NEW u, Run(u, n + x, y)
  PROVE  Run(s \o u, n, x + y)
<1>1. /\ s \in Seq(Nat) /\ u \in Seq(Nat) /\ Len(s) = x /\ Len(u) = y
      /\ \A k \in 1..x : s[k] = n + k
      /\ \A k \in 1..y : u[k] = n + x + k
  BY DEF Run
<1>2. /\ s \o u \in Seq(Nat) /\ Len(s \o u) = x + y
      /\ \A i \in 1..x + y : (s \o u)[i] = IF i <= x THEN s[i] ELSE u[i - x]
  BY <1>1, ConcatProperties
<1>3. ASSUME NEW i \in 1..x + y PROVE (s \o u)[i] = n + i
  <2>1. CASE i <= x
    BY <1>1, <1>2, <2>1
  <2>2. CASE ~(i <= x)
    <3>1. i - x \in 1..y /\ n + x + (i - x) = n + i
      BY <2>2
    <3> QED BY <1>1, <1>2, <2>2, <3>1
  <2> QED BY <2>1, <2>2
<1> QED BY <1>2, <1>3 DEF Run

\* The pending sample and the input.
LEMMA PendingJoins ==
  ASSUME NEW n \in Nat, NEW size \in Nat, NEW d, DecimatorHolds(d, n), NEW input, Run(input, n, size)
  PROVE  Run(d.pending \o input, 2 * (n \div 2), (n % 2) + size)
<1> DEFINE h == 2 * (n \div 2)
           r == n % 2
<1>1. h \in Nat /\ r \in {0, 1} /\ r \in Nat /\ h + r = n
  OBVIOUS
<1>2. Run(d.pending, h, r)
  <2>1. d.pending = IF r = 1 THEN <<n>> ELSE <<>>
    BY DEF DecimatorHolds
  <2> HIDE DEF h, r
  <2>2. CASE r = 1
    <3>1. d.pending = <<n>> /\ n = h + 1
      BY <1>1, <2>1, <2>2
    <3>2. <<n>> \in Seq(Nat) /\ Len(<<n>>) = 1 /\ <<n>>[1] = n
      OBVIOUS
    <3> QED BY <1>1, <2>2, <3>1, <3>2 DEF Run
  <2>3. CASE r = 0
    <3>1. d.pending = <<>>
      BY <2>1, <2>3
    <3>2. <<>> \in Seq(Nat) /\ Len(<<>>) = 0
      OBVIOUS
    <3> QED BY <2>3, <3>1, <3>2 DEF Run
  <2> QED BY <1>1, <2>2, <2>3
<1> HIDE DEF h, r
<1>3. Run(input, h + r, size)
  BY <1>1
<1>4. Run(d.pending \o input, h, r + size)
  BY <1>1, <1>2, <1>3, RunJoins
<1> QED BY <1>4 DEF h, r

\* The histories, with the pairs of the input.
Joins(all, past, more) ==
  /\ all \in Seq(Nat) /\ Len(all) = Len(past) + Len(more)
  /\ \A x \in 1..Len(past) : all[x] = past[x]
  /\ \A k \in 1..Len(more) : all[Len(past) + k] = more[k]
LEMMA HistoryJoins ==
  ASSUME NEW past \in Seq(Nat), NEW more \in Seq(Nat)
  PROVE  Joins(past \o more, past, more)
<1> DEFINE size == Len(past)
           pairs == Len(more)
           all == past \o more
<1>1. /\ all \in Seq(Nat) /\ Len(all) = size + pairs
      /\ \A i \in 1..size + pairs : all[i] = IF i <= size THEN past[i] ELSE more[i - size]
  BY ConcatProperties
<1>2. size \in Nat /\ pairs \in Nat
  OBVIOUS
<1> HIDE DEF all, size, pairs
<1>3. ASSUME NEW x \in 1..size PROVE all[x] = past[x]
  <2>1. x \in 1..size + pairs /\ x <= size
    BY <1>2
  <2> QED BY <1>1, <2>1
<1>4. ASSUME NEW k \in 1..pairs PROVE all[size + k] = more[k]
  <2>1. size + k \in 1..size + pairs /\ ~(size + k <= size) /\ (size + k) - size = k
    BY <1>2
  <2> QED BY <1>1, <2>1
<1>5. Joins(all, past, more)
  BY <1>1, <1>3, <1>4 DEF Joins, size, pairs
<1> QED BY <1>5 DEF all

\* What a filter makes of its histories.
LEMMA FilteredIs ==
  ASSUME NEW p \in Nat, NEW evens \in Seq(Nat), NEW odds \in Seq(Nat),
         Len(odds) = OddHistory + 1, Len(evens) = EvenHistory + 1,
         evens[1] = Atleast0(2 * (p - EvenHistory) - 1),
         \A j \in 1..OddHistory + 1 : odds[j] = Atleast0(2 * (p - OddHistory - 1 + j))
  PROVE  Filtered(evens, odds) = p
<1> DEFINE o == OddHistory
<1>1. o \in Nat /\ Len(odds) = o + 1 /\ p \in Int
  BY SpectrumSizes
<1> HIDE DEF o
<1>2. \A j \in 1..o + 1 : odds[j] = Atleast0(2 * (p - o - 1 + j))
  BY DEF o
<1>3. odds[Len(odds)] = 2 * p
  <2>1. o + 1 \in 1..o + 1 /\ p - o - 1 + (o + 1) = p /\ 2 * p >= 0
    <3>1. o \in Nat /\ p \in Nat
      BY <1>1
    <3> QED BY ONLY <3>1
  <2>2. odds[o + 1] = Atleast0(2 * (p - o - 1 + (o + 1)))
    BY <1>2, <2>1
  <2> QED BY <1>1, <2>1, <2>2 DEF Atleast0
<1>4. odds[Len(odds)] \div 2 = p
  BY <1>3
<1>5. ASSUME NEW i \in 0..o PROVE odds[Len(odds) - i] = Atleast0(2 * (p - i))
  <2> DEFINE j == o + 1 - i
  <2>1. j \in 1..o + 1 /\ p - o - 1 + j = p - i /\ Len(odds) - i = j
    BY <1>1
  <2> HIDE DEF j
  <2>2. odds[j] = Atleast0(2 * (p - o - 1 + j))
    BY <1>2, <2>1
  <2> QED BY <2>1, <2>2
<1> QED BY <1>4, <1>5 DEF Filtered, o

LEMMA Decimates ==
  ASSUME NEW n \in Nat, NEW size \in Nat, NEW d, DecimatorHolds(d, n), NEW input, Run(input, n, size)
  PROVE  LET r == Decimated(d, input)
         IN /\ DecimatorHolds(r.state, n + size)
            /\ Run(r.out, n \div 2, ((n + size) \div 2) - (n \div 2))
<1> DEFINE h == n \div 2
           rest == n % 2
           all == d.pending \o input
           total == rest + size
           pairs == Len(all) \div 2
           ne == OfPairs(all, 1)
           no == OfPairs(all, 0)
           evens == d.even \o ne
           odds == d.odd \o no
           e == EvenHistory
           o == OddHistory
           out == FilteredPairs(evens, odds, pairs)
           state == [pending |-> SubSeq(all, 2 * pairs + 1, Len(all)),
                     even |-> SubSeq(evens, pairs + 1, pairs + e),
                     odd |-> SubSeq(odds, pairs + 1, pairs + o)]
           after == n + size
<1>1. Run(all, 2 * h, total)
  BY PendingJoins
<1>2. Len(all) = total
  BY <1>1 DEF Run
<1>3. Decimated(d, input) = [out |-> out, state |-> state]
  BY DEF Decimated
<1>4. /\ h \in Nat /\ rest \in {0, 1} /\ n = 2 * h + rest /\ total \in Nat /\ pairs \in Nat
      /\ after \div 2 = h + pairs /\ after = 2 * h + total /\ after \in Nat
      /\ total = 2 * pairs + (after % 2) /\ after % 2 \in {0, 1}
  <2>1. pairs = total \div 2
    BY <1>2
  <2> HIDE DEF all, pairs
  <2> QED BY <2>1
<1>5. e \in Nat \ {0} /\ o \in Nat \ {0}
  BY SpectrumSizes
<1> DEFINE First(k) == all[2 * k - 1]
           Second(k) == all[2 * k]
           Made(k) == Filtered(SubSeq(evens, k, k + e), SubSeq(odds, k, k + o))
<1>6. ne = [k \in 1..pairs |-> First(k)]
  BY DEF OfPairs
<1>7. no = [k \in 1..pairs |-> Second(k)]
  <2>1. \A k \in 1..pairs : 2 * k - 0 = 2 * k
    BY <1>4
  <2> HIDE DEF all
  <2> QED BY <2>1 DEF OfPairs
<1>8. out = [k \in 1..pairs |-> Made(k)]
  <2> HIDE DEF evens, odds, pairs
  <2> QED BY DEF FilteredPairs
<1> HIDE DEF h, rest, total, pairs, all, after, ne, no, out
<1>9. /\ all \in Seq(Nat) /\ \A k \in 1..total : all[k] = 2 * h + k
  BY <1>1 DEF Run
<1>10. /\ DOMAIN ne = 1..pairs /\ \A k \in 1..pairs : ne[k] = 2 * h + 2 * k - 1 /\ ne[k] \in Nat
       /\ DOMAIN no = 1..pairs /\ \A k \in 1..pairs : no[k] = 2 * h + 2 * k /\ no[k] \in Nat
  <2>1. ASSUME NEW k \in 1..pairs PROVE ne[k] = 2 * h + 2 * k - 1 /\ no[k] = 2 * h + 2 * k
                                        /\ ne[k] \in Nat /\ no[k] \in Nat
    <3>1. 2 * k - 1 \in 1..total /\ 2 * k \in 1..total
      BY <1>4
    <3>2. all[2 * k - 1] = 2 * h + (2 * k - 1) /\ all[2 * k] = 2 * h + 2 * k
      BY <1>9, <3>1
    <3>3. ne[k] = all[2 * k - 1] /\ no[k] = all[2 * k]
      BY <1>6, <1>7
    <3> HIDE DEF First, Second
    <3> QED BY <1>4, <3>2, <3>3
  <2>2. DOMAIN ne = 1..pairs /\ DOMAIN no = 1..pairs
    <3> HIDE DEF First, Second
    <3> QED BY <1>6, <1>7
  <2> QED BY <2>1, <2>2
<1>11. ne \in Seq(Nat) /\ no \in Seq(Nat) /\ Len(ne) = pairs /\ Len(no) = pairs
  <2> HIDE DEF First, Second
  <2>1. ne \in [1..pairs -> Nat] /\ no \in [1..pairs -> Nat]
    <3>1. \A k \in 1..pairs : First(k) \in Nat /\ Second(k) \in Nat
      BY <1>10, <1>6, <1>7
    <3> QED BY <1>6, <1>7, <3>1
  <2>2. ne \in Seq(Nat) /\ no \in Seq(Nat)
    BY <1>4, <2>1
  <2> QED BY <1>4, <1>10, <2>2, LenProperties
<1> HIDE DEF First, Second
<1>12. /\ d.even \in Seq(Nat) /\ Len(d.even) = e
       /\ \A i \in 1..e : d.even[i] = Atleast0(2 * (h - e + i) - 1)
       /\ d.odd \in Seq(Nat) /\ Len(d.odd) = o
       /\ \A i \in 1..o : d.odd[i] = Atleast0(2 * (h - o + i))
  BY DEF DecimatorHolds, h
<1> HIDE DEF e, o
<1>13. /\ evens \in Seq(Nat) /\ Len(evens) = e + pairs
       /\ \A x \in 1..e : evens[x] = d.even[x]
       /\ \A k \in 1..pairs : evens[e + k] = ne[k]
  <2> HIDE DEF evens
  <2>1. Joins(d.even \o ne, d.even, ne)
    BY <1>11, <1>12, HistoryJoins, Zenon
  <2>2. Joins(evens, d.even, ne)
    BY <2>1, Zenon DEF evens
  <2> QED BY <1>11, <1>12, <2>2 DEF Joins
<1>14. /\ odds \in Seq(Nat) /\ Len(odds) = o + pairs
       /\ \A x \in 1..o : odds[x] = d.odd[x]
       /\ \A k \in 1..pairs : odds[o + k] = no[k]
  <2> HIDE DEF odds
  <2>1. Joins(d.odd \o no, d.odd, no)
    BY <1>11, <1>12, HistoryJoins, Zenon
  <2>2. Joins(odds, d.odd, no)
    BY <2>1, Zenon DEF odds
  <2> QED BY <1>11, <1>12, <2>2 DEF Joins
<1> HIDE DEF evens, odds
<1>15. ASSUME NEW x \in 1..e + pairs PROVE evens[x] = Atleast0(2 * (h - e + x) - 1)
  <2>1. CASE x <= e
    <3>1. x \in 1..e
      BY <1>4, <1>5, <2>1
    <3> QED BY <1>12, <1>13, <3>1
  <2>2. CASE ~(x <= e)
    <3> DEFINE k == x - e
    <3>1. k \in 1..pairs /\ e + k = x
      BY <1>4, <1>5, <2>2
    <3>2. 2 * (h - e + x) - 1 = 2 * h + 2 * k - 1 /\ 2 * h + 2 * k - 1 \in Nat
      BY <1>4, <1>5, <3>1
    <3> HIDE DEF k
    <3> QED BY <1>10, <1>13, <3>1, <3>2 DEF Atleast0
  <2> QED BY <2>1, <2>2
<1>16. ASSUME NEW x \in 1..o + pairs PROVE odds[x] = Atleast0(2 * (h - o + x))
  <2>1. CASE x <= o
    <3>1. x \in 1..o
      BY <1>4, <1>5, <2>1
    <3> QED BY <1>12, <1>14, <3>1
  <2>2. CASE ~(x <= o)
    <3> DEFINE k == x - o
    <3>1. k \in 1..pairs /\ o + k = x
      BY <1>4, <1>5, <2>2
    <3>2. 2 * (h - o + x) = 2 * h + 2 * k /\ 2 * h + 2 * k \in Nat
      BY <1>4, <1>5, <3>1
    <3> HIDE DEF k
    <3> QED BY <1>10, <1>14, <3>1, <3>2 DEF Atleast0
  <2> QED BY <2>1, <2>2
<1>17. ASSUME NEW k \in 1..pairs PROVE out[k] = h + k
  <2> DEFINE p == h + k
             u == SubSeq(evens, k, k + e)
             w == SubSeq(odds, k, k + o)
  <2>1. /\ u \in Seq(Nat) /\ Len(u) = e + 1 /\ \A i \in 1..e + 1 : u[i] = evens[k + i - 1]
    <3> DEFINE b == k + e
    <3>1. k \in Nat \ {0} /\ b \in Nat /\ k <= b + 1 /\ b <= Len(evens) /\ b - k + 1 = e + 1
      BY <1>4, <1>5, <1>13
    <3> HIDE DEF b
    <3>2. /\ SubSeq(evens, k, b) \in Seq(Nat) /\ Len(SubSeq(evens, k, b)) = b - k + 1
          /\ \A i \in 1..b - k + 1 : SubSeq(evens, k, b)[i] = evens[k + i - 1]
      BY <1>13, <3>1, SubSeqIs
    <3> QED BY <3>1, <3>2 DEF b
  <2>2. /\ w \in Seq(Nat) /\ Len(w) = o + 1 /\ \A i \in 1..o + 1 : w[i] = odds[k + i - 1]
    <3> DEFINE b == k + o
    <3>1. k \in Nat \ {0} /\ b \in Nat /\ k <= b + 1 /\ b <= Len(odds) /\ b - k + 1 = o + 1
      BY <1>4, <1>5, <1>14
    <3> HIDE DEF b
    <3>2. /\ SubSeq(odds, k, b) \in Seq(Nat) /\ Len(SubSeq(odds, k, b)) = b - k + 1
          /\ \A i \in 1..b - k + 1 : SubSeq(odds, k, b)[i] = odds[k + i - 1]
      BY <1>14, <3>1, SubSeqIs
    <3> QED BY <3>1, <3>2 DEF b
  <2> HIDE DEF u, w
  <2>3. u[1] = Atleast0(2 * (p - e) - 1)
    <3>1. 1 \in 1..e + 1 /\ k + 1 - 1 = k /\ k \in 1..e + pairs /\ h - e + k = p - e
      BY <1>4, <1>5
    <3>2. u[1] = evens[k]
      BY <2>1, <3>1
    <3>3. evens[k] = Atleast0(2 * (h - e + k) - 1)
      BY <1>15, <3>1
    <3> QED BY <3>1, <3>2, <3>3
  <2>4. ASSUME NEW j \in 1..o + 1 PROVE w[j] = Atleast0(2 * (p - o - 1 + j))
    <3> DEFINE x == k + j - 1
    <3>1. x \in 1..o + pairs /\ h - o + x = p - o - 1 + j
      BY <1>4, <1>5
    <3>2. w[j] = odds[x]
      BY <2>2
    <3> HIDE DEF x
    <3>3. odds[x] = Atleast0(2 * (h - o + x))
      BY <1>16, <3>1
    <3> QED BY <3>1, <3>2, <3>3
  <2>5. p \in Nat
    BY <1>4
  <2> HIDE DEF p
  <2>6. Filtered(u, w) = p
    BY <2>1, <2>2, <2>3, <2>4, <2>5, FilteredIs DEF e, o
  <2>7. out[k] = Made(k)
    <3> HIDE DEF Made
    <3> QED BY <1>8
  <2> QED BY <2>6, <2>7 DEF u, w, p, Made
<1>18. Run(out, h, pairs)
  <2> HIDE DEF Made
  <2>1. DOMAIN out = 1..pairs
    BY <1>8
  <2>2. \A k \in 1..pairs : out[k] = h + k /\ out[k] \in Nat
    BY <1>4, <1>17
  <2>3. out \in Seq(Nat)
    <3>1. \A k \in 1..pairs : Made(k) \in Nat
      BY <1>8, <2>2
    <3> QED BY <1>4, <1>8, <3>1
  <2>4. Len(out) = pairs
    BY <1>4, <2>1, <2>3
  <2> QED BY <2>2, <2>3, <2>4 DEF Run
<1>19. state.pending = IF after % 2 = 1 THEN <<after>> ELSE <<>>
  <2> DEFINE a == 2 * pairs + 1
             u == SubSeq(all, a, total)
             r == after % 2
  <2>1. a \in Nat \ {0} /\ total \in Nat /\ a <= total + 1 /\ total - a + 1 = r
    BY <1>4
  <2>2. all \in Seq(Nat) /\ total <= Len(all)
    BY <1>4, <1>2, <1>9
  <2> HIDE DEF a, r
  <2>3. u \in Seq(Nat) /\ Len(u) = total - a + 1 /\ \A i \in 1..total - a + 1 : u[i] = all[a + i - 1]
    BY <2>1, <2>2, SubSeqIs
  <2>4. state.pending = u
    BY <1>2 DEF a
  <2> HIDE DEF u, state
  <2>5. CASE r = 1
    <3>1. Len(u) = 1 /\ u[1] = all[a] /\ a = total
      BY <2>1, <2>3, <2>5
    <3>2. all[total] = after
      <4>1. total \in 1..total
        BY <2>1, <3>1
      <4> QED BY <1>4, <1>9, <4>1
    <3>3. u = <<after>>
      <4> DEFINE v == <<after>>
      <4>1. v \in Seq(Nat) /\ Len(v) = 1 /\ v[1] = after
        BY <1>4
      <4> HIDE DEF v
      <4>2. ASSUME NEW i \in 1..Len(u) PROVE u[i] = v[i]
        <5>1. i = 1
          BY <3>1
        <5> QED BY <3>1, <3>2, <4>1, <5>1
      <4>3. u = v
        BY <2>3, <3>1, <4>1, <4>2, SeqEqual
      <4> QED BY <4>3 DEF v
    <3> QED BY <2>4, <2>5, <3>3 DEF r
  <2>6. CASE r = 0
    <3>1. u = <<>>
      BY <2>1, <2>3, <2>6
    <3> QED BY <2>4, <2>6, <3>1 DEF r
  <2> QED BY <1>4, <2>5, <2>6 DEF r
<1>20. /\ state.even \in Seq(Nat) /\ Len(state.even) = e
       /\ \A i \in 1..e : state.even[i] = Atleast0(2 * ((after \div 2) - e + i) - 1)
  <2> DEFINE a == pairs + 1
             b == pairs + e
             u == SubSeq(evens, a, b)
  <2>1. a \in Nat \ {0} /\ b \in Nat /\ a <= b + 1 /\ b <= Len(evens) /\ b - a + 1 = e
    BY <1>4, <1>5, <1>13
  <2>2. state.even = u
    OBVIOUS
  <2> HIDE DEF a, b, state
  <2>3. u \in Seq(Nat) /\ Len(u) = b - a + 1 /\ \A i \in 1..b - a + 1 : u[i] = evens[a + i - 1]
    BY <1>13, <2>1, SubSeqIs
  <2> HIDE DEF u
  <2>4. ASSUME NEW i \in 1..e PROVE u[i] = Atleast0(2 * ((after \div 2) - e + i) - 1)
    <3> DEFINE x == pairs + i
    <3>1. x \in 1..e + pairs /\ a + i - 1 = x /\ h - e + x = (after \div 2) - e + i
      BY <1>4, <1>5 DEF a
    <3> HIDE DEF x
    <3>2. u[i] = evens[x]
      BY <2>1, <2>3, <3>1
    <3>3. evens[x] = Atleast0(2 * (h - e + x) - 1)
      BY <1>15, <3>1
    <3> QED BY <3>1, <3>2, <3>3
  <2> QED BY <2>1, <2>2, <2>3, <2>4
<1>21. /\ state.odd \in Seq(Nat) /\ Len(state.odd) = o
       /\ \A i \in 1..o : state.odd[i] = Atleast0(2 * ((after \div 2) - o + i))
  <2> DEFINE a == pairs + 1
             b == pairs + o
             u == SubSeq(odds, a, b)
  <2>1. a \in Nat \ {0} /\ b \in Nat /\ a <= b + 1 /\ b <= Len(odds) /\ b - a + 1 = o
    <3>1. pairs \in Nat /\ o \in Nat \ {0} /\ Len(odds) = o + pairs
      BY <1>4, <1>5, <1>14
    <3> HIDE DEF state
    <3> QED BY ONLY <3>1
  <2>2. state.odd = u
    OBVIOUS
  <2> HIDE DEF a, b, state
  <2>3. u \in Seq(Nat) /\ Len(u) = b - a + 1 /\ \A i \in 1..b - a + 1 : u[i] = odds[a + i - 1]
    BY <1>14, <2>1, SubSeqIs
  <2> HIDE DEF u
  <2>4. ASSUME NEW i \in 1..o PROVE u[i] = Atleast0(2 * ((after \div 2) - o + i))
    <3> DEFINE x == pairs + i
    <3>1. x \in 1..o + pairs /\ a + i - 1 = x /\ h - o + x = (after \div 2) - o + i
      BY <1>4, <1>5 DEF a
    <3> HIDE DEF x
    <3>2. u[i] = odds[x]
      BY <2>1, <2>3, <3>1
    <3>3. odds[x] = Atleast0(2 * (h - o + x))
      BY <1>16, <3>1
    <3> QED BY <3>1, <3>2, <3>3
  <2> QED BY <2>1, <2>2, <2>3, <2>4
<1> HIDE DEF state
<1>22. DecimatorHolds(state, after)
  BY <1>19, <1>20, <1>21 DEF DecimatorHolds, e, o
<1>23. (after \div 2) - h = pairs
  BY <1>4
<1> DEFINE r == Decimated(d, input)
<1>24. r.out = out /\ r.state = state
  BY <1>3
<1> HIDE DEF r
<1>25. DecimatorHolds(r.state, after) /\ Run(r.out, h, (after \div 2) - h)
  BY <1>18, <1>22, <1>23, <1>24
<1> QED BY <1>25 DEF r, after, h

-----------------------------------------------------------------------------
\* Halves of halves.
LEMMA HalvesAgain ==
  ASSUME NEW n \in Nat
  PROVE  /\ n \div 2 \in Nat /\ n \div 4 \in Nat /\ n \div 8 \in Nat /\ n \div 16 \in Nat
         /\ (n \div 2) \div 2 = n \div 4 /\ (n \div 4) \div 2 = n \div 8 /\ (n \div 8) \div 2 = n \div 16
OBVIOUS

LEMMA DivisionGrows ==
  ASSUME NEW n \in Nat, NEW size \in Nat, NEW d \in {1, 2, 4, 8, 16}
  PROVE  (n + size) \div d - (n \div d) \in 0..size
OBVIOUS

\* One decimator of the chain, in terms of the samples before and after it.
DecimatesTo(c, input, n, after) ==
  LET r == Decimated(c, input)
  IN DecimatorHolds(r.state, after) /\ Run(r.out, n \div 2, (after \div 2) - (n \div 2))
LEMMA DecimatesOn ==
  ASSUME NEW n \in Nat, NEW after \in Nat, n <= after, NEW c, DecimatorHolds(c, n),
         NEW input, Run(input, n, after - n)
  PROVE  DecimatesTo(c, input, n, after)
<1> DEFINE size == after - n
<1>1. size \in Nat /\ n + size = after
  OBVIOUS
<1>2. Run(input, n, size)
  OBVIOUS
<1> HIDE DEF size
<1> DEFINE r == Decimated(c, input)
<1>3. DecimatorHolds(r.state, n + size) /\ Run(r.out, n \div 2, ((n + size) \div 2) - (n \div 2))
  BY <1>1, <1>2, Decimates
<1> HIDE DEF r
<1>4. DecimatorHolds(r.state, after) /\ Run(r.out, n \div 2, (after \div 2) - (n \div 2))
  BY <1>1, <1>3
<1> QED BY <1>4 DEF DecimatesTo, r

\* The whole chain.
ChainIs(c, n) ==
  /\ DecimatorHolds(c[1], n) /\ DecimatorHolds(c[2], n \div 2)
  /\ DecimatorHolds(c[3], n \div 4) /\ DecimatorHolds(c[4], n \div 8)
FeedsAre(feeds, n, after) ==
  /\ Run(feeds[1], n, after - n) /\ Run(feeds[2], n \div 4, (after \div 4) - (n \div 4))
  /\ Run(feeds[3], n \div 16, (after \div 16) - (n \div 16))
LEMMA ChainAdvances ==
  ASSUME NEW n \in Nat, NEW after \in Nat, n <= after, ChainIs(chain, n),
         NEW input, Run(input, n, after - n)
  PROVE  ChainIs(Chained(input).state, after) /\ FeedsAre(Chained(input).outs, n, after)
<1> DEFINE d1 == Decimated(chain[1], input)
           d2 == Decimated(chain[2], d1.out)
           d3 == Decimated(chain[3], d2.out)
           d4 == Decimated(chain[4], d3.out)
<1>1. Chained(input) = [outs |-> <<input, d2.out, d4.out>>,
                        state |-> <<d1.state, d2.state, d3.state, d4.state>>]
  BY DEF Chained
<1> DEFINE n2 == n \div 2
           n4 == n \div 4
           n8 == n \div 8
           n16 == n \div 16
           a2 == after \div 2
           a4 == after \div 4
           a8 == after \div 8
           a16 == after \div 16
<1>2. /\ {n, n2, n4, n8, n16, after, a2, a4, a8, a16} \subseteq Nat
      /\ n \div 2 = n2 /\ n2 \div 2 = n4 /\ n4 \div 2 = n8 /\ n8 \div 2 = n16
      /\ after \div 2 = a2 /\ a2 \div 2 = a4 /\ a4 \div 2 = a8 /\ a8 \div 2 = a16
  BY HalvesAgain
<1>3. n <= after /\ n2 <= a2 /\ n4 <= a4 /\ n8 <= a8
  OBVIOUS
<1>4. DecimatorHolds(chain[1], n) /\ DecimatorHolds(chain[2], n2) /\ DecimatorHolds(chain[3], n4)
      /\ DecimatorHolds(chain[4], n8)
  BY DEF ChainIs
<1> HIDE DEF n2, n4, n8, n16, a2, a4, a8, a16, d1, d2, d3, d4
<1>5. DecimatorHolds(d1.state, after) /\ Run(d1.out, n2, a2 - n2)
  <2>1. DecimatesTo(chain[1], input, n, after)
    BY <1>2, <1>3, <1>4, DecimatesOn
  <2> QED BY <1>2, <2>1 DEF DecimatesTo, d1
<1>6. DecimatorHolds(d2.state, a2) /\ Run(d2.out, n4, a4 - n4)
  <2>1. DecimatesTo(chain[2], d1.out, n2, a2)
    BY <1>2, <1>3, <1>4, <1>5, DecimatesOn
  <2> QED BY <1>2, <2>1 DEF DecimatesTo, d2
<1>7. DecimatorHolds(d3.state, a4) /\ Run(d3.out, n8, a8 - n8)
  <2>1. DecimatesTo(chain[3], d2.out, n4, a4)
    BY <1>2, <1>3, <1>4, <1>6, DecimatesOn
  <2> QED BY <1>2, <2>1 DEF DecimatesTo, d3
<1>8. DecimatorHolds(d4.state, a8) /\ Run(d4.out, n16, a16 - n16)
  <2>1. DecimatesTo(chain[4], d3.out, n8, a8)
    BY <1>2, <1>3, <1>4, <1>7, DecimatesOn
  <2> QED BY <1>2, <2>1 DEF DecimatesTo, d4
<1> DEFINE c == Chained(input)
<1>9. /\ c.state[1] = d1.state /\ c.state[2] = d2.state /\ c.state[3] = d3.state /\ c.state[4] = d4.state
      /\ c.outs[1] = input /\ c.outs[2] = d2.out /\ c.outs[3] = d4.out
  BY <1>1
<1> HIDE DEF c
<1>10. ChainIs(c.state, after)
  BY <1>5, <1>6, <1>7, <1>8, <1>9 DEF ChainIs, a2, a4, a8
<1>11. FeedsAre(c.outs, n, after)
  BY <1>6, <1>8, <1>9 DEF FeedsAre, n4, a4, n16, a16
<1> QED BY <1>10, <1>11 DEF c

-----------------------------------------------------------------------------
\* How far a place of a ring is from another.
LEMMA RingDistance ==
  ASSUME NEW size \in Nat \ {0}, NEW q \in Int, NEW b \in Int, NEW r \in 0..size - 1,
         b = q + r \/ b = q + r - size
  PROVE  (((b % size) - (q % size)) + size) % size = r
<1> DEFINE x == b \div size
           i == b % size
           y == q \div size
           pos == q % size
           a == (i - pos) + size
           e == IF b = q + r THEN 0 ELSE 1
           k == 1 + y - x - e
<1>1. x \in Int /\ i \in 0..size - 1 /\ b = size * x + i /\ y \in Int /\ pos \in 0..size - 1 /\ q = size * y + pos
  BY Floor
<1>2. e \in Int /\ b = q + r - size * e
  OBVIOUS
<1> HIDE DEF x, i, y, pos, e
<1>3. a \in Int /\ k \in Int
  BY <1>1, <1>2
<1>4. size * k = size + size * y - size * x - size * e
  BY <1>1, <1>2
<1>5. a = size * k + r
  <2>1. size * x \in Int /\ size * y \in Int /\ size * e \in Int /\ size * k \in Int
    BY <1>1, <1>2, <1>3
  <2> DEFINE u == size * x
             v == size * y
             w == size * e
             z == size * k
  <2>2. /\ u \in Int /\ v \in Int /\ w \in Int /\ z \in Int /\ i \in Int /\ pos \in Int
        /\ b \in Int /\ q \in Int /\ r \in Int /\ size \in Int
        /\ b = u + i /\ q = v + pos /\ b = (q + r) - w /\ z = ((size + v) - u) - w
    BY <1>1, <1>2, <1>4, <2>1
  <2> HIDE DEF u, v, w, z, k
  <2>3. (i - pos) + size = z + r
    BY ONLY <2>2
  <2> QED BY <2>3 DEF z
<1> HIDE DEF a, k
<1>6. a % size = r
  BY <1>3, <1>5, FloorIs
<1> QED BY <1>6 DEF a, i, pos

TierParts == {"ring", "pos", "filled", "since"}
\* New numbers go round the ring, over the oldest.
LEMMA RingWritten ==
  ASSUME NEW q \in Nat, NEW m \in 0..FftSize, NEW tier, DOMAIN tier = TierParts,
         RingKeeps(tier.ring, q), tier.pos = q % FftSize, NEW samples, Run(samples, q, m)
  PROVE  LET w == Written(tier, samples)
         IN /\ DOMAIN w = TierParts /\ w.filled = tier.filled /\ w.since = tier.since
            /\ RingKeeps(w.ring, q + m) /\ w.pos = (q + m) % FftSize
<1> DEFINE f == FftSize
           Place(i) == 1 + (((i - tier.pos) + f) % f)
           ring == [i \in 0..f - 1 |-> IF Place(i) <= m THEN samples[Place(i)] ELSE tier.ring[i]]
           w == Written(tier, samples)
           after == q + m
<1>1. f \in Nat \ {0}
  BY SpectrumSizes
<1>2. Len(samples) = m /\ \A k \in 1..m : samples[k] = q + k
  BY DEF Run
<1>3. w = [tier EXCEPT !.ring = ring, !.pos = (tier.pos + m) % f]
  BY <1>2 DEF Written
<1>4. DOMAIN w = TierParts /\ w.filled = tier.filled /\ w.since = tier.since /\ w.ring = ring
      /\ w.pos = (tier.pos + m) % f
  <2> HIDE DEF ring
  <2> QED BY <1>3 DEF TierParts
<1> HIDE DEF w
<1>5. (tier.pos + m) % f = after % f
  <2>1. q \in Int /\ m \in Int
    OBVIOUS
  <2>2. ((q % f) + m) % f = (q + m) % f
    BY <1>1, <2>1, PlaceAfter
  <2> QED BY <2>2
<1>6. DOMAIN ring = 0..f - 1
  OBVIOUS
<1>7. ASSUME NEW p \in after - f + 1..after, p > 0 PROVE ring[(p - 1) % f] = p
  <2> DEFINE b == p - 1
             i == b % f
             r == IF p > q THEN p - q - 1 ELSE p - q - 1 + f
  <2>1. b \in Int /\ p \in Int /\ q \in Int
    BY <1>1
  <2>2. r \in 0..f - 1 /\ (b = q + r \/ b = q + r - f) /\ (p > q => 1 + r <= m /\ 1 + r = p - q /\ 1 + r \in 1..m)
        /\ (~(p > q) => ~(1 + r <= m) /\ p \in q - f + 1..q)
    BY <1>1
  <2>3. i \in 0..f - 1
    BY <1>1, <2>1
  <2> HIDE DEF b, r
  <2>4. ((i - tier.pos) + f) % f = r
    <3>1. /\ f \in Nat \ {0} /\ q \in Int /\ b \in Int /\ r \in 0..f - 1
          /\ (b = q + r \/ b = q + r - f)
      BY <1>1, <2>1, <2>2
    <3> HIDE DEF f
    <3>2. (((b % f) - (q % f)) + f) % f = r
      BY ONLY <3>1, RingDistance
    <3>3. tier.pos = q % f
      BY DEF f
    <3> QED BY <3>2, <3>3
  <2>5. Place(i) = 1 + r
    BY <2>4
  <2>6. ring[i] = IF 1 + r <= m THEN samples[1 + r] ELSE tier.ring[i]
    BY <2>3, <2>5
  <2> HIDE DEF ring, i, Place
  <2>7. CASE p > q
    <3>1. samples[1 + r] = q + (1 + r)
      BY <1>2, <2>2, <2>7
    <3> QED BY <2>1, <2>2, <2>6, <2>7, <3>1 DEF i, b
  <2>8. CASE ~(p > q)
    <3>1. tier.ring[(p - 1) % f] = p
      BY <1>7, <2>2, <2>8 DEF RingKeeps
    <3> QED BY <2>2, <2>6, <2>8, <3>1 DEF i, b
  <2> QED BY <2>7, <2>8 DEF i, b
<1> HIDE DEF ring
<1>8. RingKeeps(ring, after)
  BY <1>6, <1>7 DEF RingKeeps
<1> QED BY <1>4, <1>5, <1>8 DEF w

-----------------------------------------------------------------------------
\* When a tier is due, by its decimation and hop.
FirstIn(d) == FftSize * d
DueIn(d, hop, k) == k >= FirstIn(d) /\ (k - FirstIn(d)) % hop = 0
SinceIn(d, hop, n) == IF n < FirstIn(d) THEN 0 ELSE (n - FirstIn(d)) % hop
UntilIn(d, hop, n) == IF n < FirstIn(d) THEN FirstIn(d) - n ELSE hop - SinceIn(d, hop, n)

\* A remainder that does not pass the divisor.
LEMMA RemainderMoves ==
  ASSUME NEW hop \in Nat \ {0}, NEW a \in Nat, NEW x \in Nat, (a % hop) + x <= hop
  PROVE  (a + x) % hop = IF (a % hop) + x = hop THEN 0 ELSE (a % hop) + x
<1> DEFINE k == a \div hop
           r == a % hop
           b == a + x
           y == r + x
<1>1. k \in Int /\ r \in 0..hop - 1 /\ a = hop * k + r /\ y <= hop
  BY Floor
<1> HIDE DEF k, r
<1>2. b \in Int /\ y \in Int /\ y = r + x
  BY <1>1
<1>3. CASE y = hop
  <2> DEFINE j == k + 1
             z == 0
  <2>1. j \in Int /\ z \in 0..hop - 1 /\ hop * j = hop * k + hop /\ hop * k \in Int
    BY <1>1
  <2>2. b = hop * j + z
    BY <1>1, <1>2, <1>3, <2>1
  <2>3. hop \in Nat \ {0} /\ j \in Int /\ z \in 0..hop - 1 /\ b \in Int /\ b = hop * j + z
    BY <1>2, <2>1, <2>2
  <2> HIDE DEF j, b, y, z
  <2>4. b % hop = z
    BY ONLY <2>3, FloorIs
  <2> QED BY <1>3, <2>4 DEF b, y, r, z
<1>4. CASE y # hop
  <2>1. y \in 0..hop - 1 /\ hop * k \in Int
    BY <1>1, <1>2, <1>4
  <2>2. b = hop * k + y
    BY <1>1, <1>2, <2>1
  <2> HIDE DEF b, y
  <2>3. b % hop = y
    BY <1>1, <1>2, <2>1, <2>2, FloorIs
  <2> QED BY <1>4, <2>3 DEF b, y, r
<1> QED BY <1>3, <1>4

\* How full a ring is, and the input to its first window.
LEMMA FillsUp ==
  ASSUME NEW f \in Nat \ {0}, NEW d \in {1, 4, 16}, NEW n \in Nat
  PROVE  /\ f * d \in Nat \ {0} /\ (n < f * d <=> n \div d < f) /\ (n = f * d => n \div d = f)
         /\ (n <= f * d => n \div d <= f) /\ (f - (n \div d)) * d - (n % d) = f * d - n
         /\ n \div d \in Nat /\ (n >= f * d => n \div d >= f)
<1>1. CASE d = 1
  BY <1>1
<1>2. CASE d = 4
  BY <1>2
<1>3. CASE d = 16
  BY <1>3
<1> QED BY <1>1, <1>2, <1>3

\* A step to the next event at most.
LEMMA DueTimes ==
  ASSUME NEW d \in {1, 4, 16}, NEW hop \in Nat \ {0}, NEW n \in Nat, NEW s \in Nat \ {0},
         s <= UntilIn(d, hop, n)
  PROVE  /\ SinceIn(d, hop, n) \in 0..hop - 1
         /\ n < FirstIn(d) => n + s <= FirstIn(d) /\ (DueIn(d, hop, n + s) <=> n + s = FirstIn(d))
         /\ n >= FirstIn(d) => /\ SinceIn(d, hop, n + s) = (SinceIn(d, hop, n) + s) % hop
                               /\ DueIn(d, hop, n + s) <=> SinceIn(d, hop, n + s) = 0
                               /\ DueIn(d, hop, n + s) => n + s = LastOf(d, hop, n) + hop
                               /\ ~DueIn(d, hop, n + s) => LastOf(d, hop, n + s) = LastOf(d, hop, n)
         /\ DueIn(d, hop, n + s) => LastOf(d, hop, n + s) = n + s /\ n + s >= FirstIn(d)
         /\ n + s < FirstIn(d) => ~DueIn(d, hop, n + s)
         /\ \A k \in n + 1..n + s - 1 : ~DueIn(d, hop, k)
<1> DEFINE first == FirstIn(d)
           since == SinceIn(d, hop, n)
<1>1. first \in Nat \ {0}
  BY SpectrumSizes, FillsUp DEF FirstIn
<1>2. since \in 0..hop - 1
  <2> HIDE DEF first
  <2>1. CASE n < first
    BY <2>1 DEF SinceIn, first
  <2>2. CASE ~(n < first)
    <3> DEFINE a == n - first
    <3>1. a \in Int
      BY <1>1
    <3> HIDE DEF a
    <3>2. a % hop \in 0..hop - 1
      BY <3>1, Floor
    <3> QED BY <2>2, <3>2 DEF SinceIn, first, a
  <2> QED BY <2>1, <2>2
<1>3. s <= (IF n < first THEN first - n ELSE hop - since)
  BY DEF UntilIn
<1>4. ASSUME NEW x \in 1..s, n < first
      PROVE  n + x <= first /\ (DueIn(d, hop, n + x) <=> n + x = first) /\ LastOf(d, hop, first) = first
  <2> HIDE DEF first, since
  <2>1. n + x <= first /\ 0 % hop = 0 /\ first - first = 0
    BY <1>1, <1>3, <1>4
  <2>2. DueIn(d, hop, n + x) <=> n + x >= first /\ ((n + x) - first) % hop = 0
    BY DEF DueIn, first
  <2>3. LastOf(d, hop, first) = first - ((first - first) % hop)
    BY DEF LastOf, FirstIn, first
  <2> QED BY <1>1, <2>1, <2>2, <2>3
<1>5. ASSUME NEW x \in 1..s, n >= first
      PROVE  /\ SinceIn(d, hop, n + x) = IF since + x = hop THEN 0 ELSE since + x
             /\ (DueIn(d, hop, n + x) <=> since + x = hop)
             /\ since + x <= hop
             /\ SinceIn(d, hop, n + x) = (since + x) % hop
  <2> DEFINE a == n - first
             b == n + x
             c == b - first
  <2> HIDE DEF first
  <2>1. a \in Nat /\ b \in Nat /\ ~(n < first) /\ ~(b < first) /\ b >= first /\ x \in Nat /\ c = a + x
        /\ a \in Int /\ x \in Int
    BY <1>1, <1>5
  <2>2. since = a % hop
    BY <2>1 DEF SinceIn, first
  <2>3. SinceIn(d, hop, b) = c % hop /\ (DueIn(d, hop, b) <=> c % hop = 0)
    BY <2>1 DEF SinceIn, DueIn, first
  <2> HIDE DEF a, b, c, since
  <2>4. since + x <= hop
    BY <1>1, <1>2, <1>3, <1>5
  <2>5. (a % hop) + x <= hop
    BY <2>2, <2>4
  <2>6. (a + x) % hop = IF (a % hop) + x = hop THEN 0 ELSE (a % hop) + x
    BY <2>1, <2>5, RemainderMoves
  <2>7. c % hop = IF since + x = hop THEN 0 ELSE since + x
    BY <2>1, <2>2, <2>6
  <2>8. ((a % hop) + x) % hop = (a + x) % hop
    BY <2>1, PlaceAfter
  <2>9. c % hop = 0 <=> since + x = hop
    BY <1>2, <2>7
  <2> QED BY <2>1, <2>2, <2>3, <2>4, <2>7, <2>8, <2>9 DEF b
<1>6. s \in 1..s
  OBVIOUS
<1>7. ASSUME n >= first
      PROVE  /\ LastOf(d, hop, n) = n - since
             /\ LastOf(d, hop, n + s) = (n + s) - SinceIn(d, hop, n + s)
  <2> HIDE DEF first
  <2>1. ~(n < first) /\ ~(n + s < first)
    BY <1>1, <1>7
  <2> QED BY <2>1 DEF LastOf, SinceIn, FirstIn, first
<1> HIDE DEF first, since
<1>8. n < first => n + s <= first /\ (DueIn(d, hop, n + s) <=> n + s = first) /\ LastOf(d, hop, first) = first
  BY <1>4, <1>6
<1>9. n >= first => /\ SinceIn(d, hop, n + s) = IF since + s = hop THEN 0 ELSE since + s
                    /\ (DueIn(d, hop, n + s) <=> since + s = hop)
                    /\ since + s <= hop
                    /\ SinceIn(d, hop, n + s) = (since + s) % hop
  BY <1>5, <1>6
<1>10. \A k \in n + 1..n + s - 1 : ~DueIn(d, hop, k)
  <2> SUFFICES ASSUME NEW k \in n + 1..n + s - 1 PROVE ~DueIn(d, hop, k)
    OBVIOUS
  <2> DEFINE x == k - n
  <2>1. x \in 1..s /\ x < s /\ n + x = k
    OBVIOUS
  <2> HIDE DEF x
  <2>2. CASE n < first
    <3>1. n + x <= first /\ (DueIn(d, hop, n + x) <=> n + x = first) /\ n + s <= first
      BY <1>4, <1>8, <2>1, <2>2
    <3> QED BY <1>1, <2>1, <3>1
  <2>3. CASE n >= first
    <3>1. (DueIn(d, hop, n + x) <=> since + x = hop) /\ since + s <= hop
      BY <1>5, <1>9, <2>1, <2>3
    <3> QED BY <1>2, <2>1, <3>1
  <2> QED BY <1>1, <2>2, <2>3
<1>11. n >= first => /\ SinceIn(d, hop, n + s) = (since + s) % hop
                     /\ DueIn(d, hop, n + s) <=> SinceIn(d, hop, n + s) = 0
                     /\ DueIn(d, hop, n + s) => n + s = LastOf(d, hop, n) + hop
                     /\ DueIn(d, hop, n + s) => LastOf(d, hop, n + s) = n + s
                     /\ ~DueIn(d, hop, n + s) => LastOf(d, hop, n + s) = LastOf(d, hop, n)
  <2> SUFFICES ASSUME n >= first
               PROVE /\ SinceIn(d, hop, n + s) = (since + s) % hop
                     /\ DueIn(d, hop, n + s) <=> SinceIn(d, hop, n + s) = 0
                     /\ DueIn(d, hop, n + s) => n + s = LastOf(d, hop, n) + hop
                     /\ DueIn(d, hop, n + s) => LastOf(d, hop, n + s) = n + s
                     /\ ~DueIn(d, hop, n + s) => LastOf(d, hop, n + s) = LastOf(d, hop, n)
    OBVIOUS
  <2>1. DueIn(d, hop, n + s) => SinceIn(d, hop, n + s) = 0
    BY <1>9
  <2>2. ~DueIn(d, hop, n + s) => SinceIn(d, hop, n + s) = since + s
    BY <1>9
  <2>3. LastOf(d, hop, n) = n - since /\ LastOf(d, hop, n + s) = (n + s) - SinceIn(d, hop, n + s)
    BY <1>7
  <2>4. since \in Nat /\ since + s # 0
    BY <1>2
  <2> QED BY <1>1, <1>9, <2>1, <2>2, <2>3, <2>4
<1>12. n + s < first => ~DueIn(d, hop, n + s)
  BY <1>1 DEF DueIn, first
<1>13. DueIn(d, hop, n + s) => LastOf(d, hop, n + s) = n + s /\ n + s >= first
  BY <1>1, <1>8, <1>11, <1>12
<1> QED BY <1>1, <1>2, <1>8, <1>10, <1>11, <1>12, <1>13 DEF first, since

\* A configuration in use, and its tiers.
LEMMA ConfigTypes ==
  ASSUME NEW config \in Analyzers, ValidConfig(config)
  PROVE  /\ config.divisor \in Nat \ {0} /\ config.divisor <= FftSize /\ FftSize >= 4
         /\ config.low \in Int /\ config.high \in Int /\ config.low < config.high
         /\ config.hold \in Nat /\ config.rate \in Nat /\ config.rate > MinRate
<1>1. Analyzers \subseteq [multi : BOOLEAN, divisor : Nat, smooth : BOOLEAN, hold : Int, low : Int,
                           high : Int, rate : Nat]
  BY SpectrumAssumption, Zenon
<1>2. config \in [multi : BOOLEAN, divisor : Nat, smooth : BOOLEAN, hold : Int, low : Int,
                  high : Int, rate : Nat]
  BY <1>1
<1>3. config.divisor \in Nat /\ config.low \in Int /\ config.high \in Int /\ config.hold \in Int
      /\ config.rate \in Nat
  BY <1>2
<1> QED BY <1>3 DEF ValidConfig

LEMMA TierSizes ==
  ASSUME NEW config \in Analyzers, ValidConfig(config), NEW t \in 1..Len(Decimations(config))
  PROVE  /\ Decimations(config)[t] \in {1, 4, 16} /\ Hop(config, t) \in Nat \ {0}
         /\ t \in {1, 2, 3} /\ (~config.multi => t = 1 /\ Decimations(config)[t] = 1)
         /\ (config.multi => Decimations(config)[t] = IF t = 1 THEN 1 ELSE IF t = 2 THEN 4 ELSE 16)
<1> DEFINE d == Decimations(config)[t]
           f == FftSize
           v == config.divisor
<1>1. d \in {1, 4, 16} /\ t \in {1, 2, 3} /\ (~config.multi => t = 1 /\ d = 1)
      /\ (config.multi => d = IF t = 1 THEN 1 ELSE IF t = 2 THEN 4 ELSE 16)
  BY DEF Decimations, TierScales
<1>2. f \in Nat /\ v \in Nat \ {0} /\ v <= f
  BY ConfigTypes, SpectrumSizes
<1> HIDE DEF d, f, v
<1>3. f * d \in Nat /\ v <= f * d
  BY <1>1, <1>2
<1>4. (f * d) \div v \in Nat \ {0}
  <2> DEFINE a == f * d
             k == a \div v
             r == a % v
  <2> HIDE DEF a
  <2>1. a \in Int /\ a \in Nat /\ v <= a
    BY <1>3 DEF a
  <2>2. k \in Int /\ r \in 0..v - 1 /\ a = v * k + r
    BY <1>2, <2>1, Floor
  <2> HIDE DEF k, r
  <2>3. v * 0 < v * k
    BY <1>2, <2>1, <2>2
  <2> DEFINE z == 0
  <2>4. z \in Int /\ v * z < v * k
    BY <2>3
  <2> HIDE DEF z
  <2>5. z < k
    BY <1>2, <2>2, <2>4, FactorLess
  <2> QED BY <2>2, <2>5 DEF k, a, z
<1> QED BY <1>1, <1>4 DEF d, f, v, Hop

LEMMA TierFacts ==
  ASSUME AnalyzerHolds, NEW t \in Tiers
  PROVE  /\ Decimation(t) \in {1, 4, 16} /\ HopOf(t) \in Nat \ {0} /\ t \in {1, 2, 3}
         /\ (~Multi => t = 1 /\ Decimation(t) = 1)
         /\ (Multi => Decimation(t) = IF t = 1 THEN 1 ELSE IF t = 2 THEN 4 ELSE 16)
<1>1. analyzer.config \in Analyzers /\ ValidConfig(analyzer.config)
  BY DEF AnalyzerHolds
<1>2. t \in 1..Len(Decimations(analyzer.config))
  BY DEF Tiers
<1> QED BY <1>1, <1>2, TierSizes DEF Decimation, HopOf, Multi

LEMMA DueIs ==
  ASSUME NEW t, NEW k
  PROVE  /\ DueAt(t, k) <=> DueIn(Decimation(t), HopOf(t), k)
         /\ FirstDue(t) = FirstIn(Decimation(t))
         /\ LastDue(t) = LastOf(Decimation(t), HopOf(t), consumed)
BY DEF DueAt, DueIn, FirstDue, FirstIn, LastDue, LastOf

\* The newest samples.
NewestOf(q) == [i \in 1..FftSize |-> q - FftSize + i]
LEMMA WindowIs ==
  ASSUME NEW q \in Nat, q >= FftSize, NEW tier, RingKeeps(tier.ring, q), tier.pos = q % FftSize
  PROVE  Window(tier) = NewestOf(q)
<1> DEFINE f == FftSize
           At(i) == tier.ring[((tier.pos + i) - 1) % f]
<1>1. f \in Nat \ {0}
  BY SpectrumSizes
<1>2. ASSUME NEW i \in 1..f PROVE At(i) = q - f + i
  <2> DEFINE p == q - f + i
             x == i - 1
             a == p - 1
             b == q + x
  <2>1. p \in q - f + 1..q /\ p > 0 /\ x \in Int /\ q \in Int /\ a \in Int /\ b \in Int /\ b = a + f
    BY <1>1
  <2>2. tier.ring[(p - 1) % f] = p
    BY <2>1 DEF RingKeeps
  <2>3. ((q % f) + x) % f = b % f
    <3> HIDE DEF f, x
    <3> QED BY <1>1, <2>1, PlaceAfter DEF b
  <2> HIDE DEF a, b
  <2>4. b % f = a % f
    <3> DEFINE k == a \div f
               r == a % f
               j == k + 1
    <3>1. k \in Int /\ r \in 0..f - 1 /\ a = f * k + r
      BY <1>1, <2>1, Floor
    <3> HIDE DEF k, r
    <3>2. j \in Int /\ f * j = f * k + f /\ f * k \in Int
      BY <1>1, <3>1
    <3>3. b = f * j + r
      BY <1>1, <2>1, <3>1, <3>2
    <3> HIDE DEF j
    <3>4. b % f = r
      BY <1>1, <2>1, <3>1, <3>2, <3>3, FloorIs
    <3> QED BY <3>4 DEF r
  <2>5. ((tier.pos + i) - 1) % f = ((q % f) + x) % f
    <3>1. q % f \in Int
      BY <1>1
    <3>2. (tier.pos + i) - 1 = (q % f) + x
      BY <3>1
    <3> QED BY <3>2
  <2> QED BY <2>2, <2>3, <2>4, <2>5 DEF a
<1>3. [i \in 1..f |-> At(i)] = [i \in 1..f |-> q - f + i]
  <2> HIDE DEF At
  <2> QED BY <1>2
<1>4. Window(tier) = [i \in 1..f |-> At(i)]
  <2>1. ASSUME NEW i \in 1..f PROVE tier.ring[(tier.pos + i - 1) % f] = At(i)
    <3>1. tier.pos \in Int /\ i \in Int
      BY <1>1
    <3>2. tier.pos + i - 1 = (tier.pos + i) - 1
      BY <3>1
    <3> QED BY <3>2
  <2>2. Window(tier) = [i \in 1..f |-> tier.ring[(tier.pos + i - 1) % f]]
    BY DEF Window
  <2> HIDE DEF At
  <2> QED BY <2>1, <2>2
<1> QED BY <1>3, <1>4 DEF NewestOf

-----------------------------------------------------------------------------
\* A tier is fed its own decimation of a step, and is then due or not.
MovedIs(moved, tier, t, n, after) ==
  /\ TierHolds(moved, Decimation(t), HopOf(t), after)
  /\ (IF tier.filled < FftSize THEN moved.filled = FftSize ELSE moved.since = 0)
       <=> DueIn(Decimation(t), HopOf(t), after)
  /\ DueIn(Decimation(t), HopOf(t), after) => Window(moved) = NewestOf(after \div Decimation(t))
LEMMA TierMoves ==
  ASSUME AnalyzerHolds, NEW t \in Tiers, consumed \in Nat, NEW s \in Nat \ {0}, s <= FftSize,
         NEW tier, TierHolds(tier, Decimation(t), HopOf(t), consumed), s <= UntilEvent(tier, t),
         NEW samples, NEW after, after = consumed + s,
         Run(samples, consumed \div Decimation(t), (after \div Decimation(t)) - (consumed \div Decimation(t)))
  PROVE  /\ s <= UntilIn(Decimation(t), HopOf(t), consumed)
         /\ MovedIs(Advanced(Written(tier, samples), t, Len(samples), s), tier, t, consumed, after)
<1> DEFINE f == FftSize
           d == Decimation(t)
           hop == HopOf(t)
           n == consumed
           first == FirstIn(d)
           q == n \div d
           m == (after \div d) - q
           w == Written(tier, samples)
           moved == Advanced(w, t, Len(samples), s)
<1>1. f \in Nat \ {0} /\ d \in {1, 4, 16} /\ hop \in Nat \ {0} /\ n \in Nat /\ first = f * d
  BY SpectrumSizes, TierFacts DEF FirstIn
<1>2. /\ first \in Nat \ {0} /\ (n < first <=> q < f) /\ (f - q) * d - (n % d) = first - n
      /\ q \in Nat /\ (n >= first => q >= f)
  <2> HIDE DEF f, d, n, first
  <2> QED BY <1>1, FillsUp
<1>3. after \in Nat /\ (after <= first => after \div d <= f) /\ (after < first <=> after \div d < f)
      /\ (after = first => after \div d = f) /\ (after >= first => after \div d >= f) /\ after \div d \in Nat
  <2> HIDE DEF f, d, n, first
  <2>1. after \in Nat
    BY <1>1 DEF n
  <2> QED BY <1>1, <2>1, FillsUp
<1>4. m \in 0..s /\ m \in 0..f /\ q + m = after \div d
  <2> HIDE DEF d, q
  <2>1. (n + s) \div d - (n \div d) \in 0..s
    <3>1. d \in {1, 2, 4, 8, 16} /\ s \in Nat
      BY <1>1
    <3> HIDE DEF n
    <3> QED BY <1>1, <3>1, DivisionGrows
  <2>2. m \in 0..s
    BY <2>1 DEF q
  <2> QED BY <1>1, <1>2, <1>3, <2>2
<1>5. /\ DOMAIN tier = TierParts /\ RingKeeps(tier.ring, q) /\ tier.pos = q % f
      /\ tier.filled = (IF n < first THEN q ELSE f) /\ tier.since = SinceIn(d, hop, n)
  BY DEF TierHolds, TierParts, SinceIn, FirstIn
<1>6. Run(samples, q, m) /\ Len(samples) = m
  BY DEF Run
<1>7. /\ DOMAIN w = TierParts /\ w.filled = tier.filled /\ w.since = tier.since
      /\ RingKeeps(w.ring, q + m) /\ w.pos = (q + m) % f
  <2> HIDE DEF q, m
  <2> QED BY <1>2, <1>4, <1>5, <1>6, RingWritten
<1>8. moved = IF w.filled < f THEN [w EXCEPT !.filled = @ + m] ELSE [w EXCEPT !.since = (@ + s) % hop]
  BY <1>6 DEF Advanced
<1>9. s <= UntilIn(d, hop, n)
  <2>1. UntilEvent(tier, t) = IF tier.filled < f THEN (f - tier.filled) * d - (n % d) ELSE hop - tier.since
    BY DEF UntilEvent
  <2>2. CASE n < first
    <3>1. tier.filled = q /\ q < f
      BY <1>2, <1>5, <2>2
    <3> QED BY <1>2, <2>1, <2>2, <3>1 DEF UntilIn
  <2>3. CASE ~(n < first)
    <3>1. tier.filled = f /\ ~(f < f)
      BY <1>1, <1>5, <2>3
    <3> QED BY <1>5, <2>1, <2>3, <3>1 DEF UntilIn
  <2> QED BY <2>2, <2>3
<1> HIDE DEF m, w
<1>10. /\ DOMAIN moved = TierParts /\ moved.ring = w.ring /\ moved.pos = w.pos
       /\ w.filled < f => moved.filled = w.filled + m /\ moved.since = w.since
       /\ ~(w.filled < f) => moved.filled = w.filled /\ moved.since = (w.since + s) % hop
  <2> HIDE DEF f, hop, moved
  <2>1. CASE w.filled < f
    <3>1. moved = [w EXCEPT !.filled = @ + m]
      BY <1>8, <2>1
    <3> QED BY <1>7, <2>1, <3>1 DEF TierParts
  <2>2. CASE ~(w.filled < f)
    <3>1. moved = [w EXCEPT !.since = (@ + s) % hop]
      BY <1>8, <2>2
    <3> QED BY <1>7, <2>2, <3>1 DEF TierParts
  <2> QED BY <2>1, <2>2
<1> HIDE DEF moved
<1> DEFINE now == n + s
<1>11. now = after
  OBVIOUS
<1>12. /\ SinceIn(d, hop, n) \in 0..hop - 1
       /\ n < first => now <= first /\ (DueIn(d, hop, now) <=> now = first)
       /\ n >= first => /\ SinceIn(d, hop, now) = (SinceIn(d, hop, n) + s) % hop
                        /\ DueIn(d, hop, now) <=> SinceIn(d, hop, now) = 0
       /\ DueIn(d, hop, now) => now >= first
  <2>1. /\ d \in {1, 4, 16} /\ hop \in Nat \ {0} /\ n \in Nat /\ s \in Nat \ {0}
        /\ s <= UntilIn(d, hop, n)
    BY <1>1, <1>9
  <2> HIDE DEF d, hop, n
  <2> QED BY ONLY <2>1, DueTimes
<1> HIDE DEF f, d, hop, n, first, q, now
<1>13. /\ moved.filled = (IF after < first THEN after \div d ELSE f) /\ moved.since = SinceIn(d, hop, after)
       /\ (IF tier.filled < f THEN moved.filled = f ELSE moved.since = 0) <=> DueIn(d, hop, after)
  <2>1. CASE n < first
    <3>1. tier.filled = q /\ q < f /\ w.filled = q /\ w.since = 0
      BY <1>2, <1>5, <1>7, <2>1 DEF SinceIn, first
    <3>2. moved.filled = after \div d /\ moved.since = 0
      BY <1>4, <1>10, <3>1
    <3>3. after <= first /\ (DueIn(d, hop, after) <=> after = first)
      BY <1>11, <1>12, <2>1
    <3>4. after < first \/ after = first
      BY <1>2, <1>3, <3>3
    <3>5. CASE after < first
      <4>1. after \div d < f /\ after \div d # f /\ after # first
        BY <1>1, <1>2, <1>3, <3>5
      <4>2. SinceIn(d, hop, after) = 0
        BY <3>5 DEF SinceIn, first
      <4> QED BY <3>1, <3>2, <3>3, <3>5, <4>1, <4>2
    <3>6. CASE after = first
      <4>1. after \div d = f /\ ~(after < first)
        BY <1>2, <1>3, <3>6
      <4>2. SinceIn(d, hop, after) = 0
        <5>1. first - first = 0 /\ 0 % hop = 0
          BY <1>1, <1>2
        <5>2. (after - first) % hop = 0
          BY <3>6, <5>1
        <5> QED BY <4>1, <5>2 DEF SinceIn, first
      <4> QED BY <3>1, <3>2, <3>3, <3>6, <4>1, <4>2
    <3> QED BY <3>4, <3>5, <3>6
  <2>2. CASE n >= first
    <3>1. ~(n < first) /\ ~(after < first) /\ ~(f < f)
      BY <1>1, <1>2, <1>11, <2>2 DEF now
    <3>2. tier.filled = f /\ w.filled = f /\ w.since = SinceIn(d, hop, n)
      BY <1>5, <1>7, <3>1
    <3>3. moved.filled = f /\ moved.since = (SinceIn(d, hop, n) + s) % hop
      BY <1>10, <3>1, <3>2
    <3> QED BY <1>11, <1>12, <2>2, <3>1, <3>2, <3>3
  <2> QED BY <1>1, <1>2, <2>1, <2>2
<1>14. RingKeeps(moved.ring, after \div d) /\ moved.pos = (after \div d) % f
  BY <1>4, <1>7, <1>10
<1>15. TierHolds(moved, d, hop, after)
  BY <1>10, <1>13, <1>14 DEF TierHolds, TierParts, SinceIn, FirstIn, f, first
<1>16. DueIn(d, hop, after) => Window(moved) = NewestOf(after \div d)
  <2> SUFFICES ASSUME DueIn(d, hop, after) PROVE Window(moved) = NewestOf(after \div d)
    OBVIOUS
  <2>1. after \div d \in Nat /\ after \div d >= f
    BY <1>3, <1>11, <1>12
  <2> QED BY <1>14, <2>1, WindowIs DEF f
<1>17. MovedIs(moved, tier, t, n, after)
  BY <1>13, <1>15, <1>16 DEF MovedIs, d, hop, f
<1> QED BY <1>9, <1>17 DEF moved, w, d, hop, n

-----------------------------------------------------------------------------
\* A step of a call ends at the next event of any tier, at most.
LEMMA LeastOfSix ==
  ASSUME NEW a \in Int, NEW b \in Int, NEW c \in Int, NEW d \in Int, NEW e \in Int, NEW f \in Int
  PROVE  \E x \in {a, b, c, d, e, f} : \A y \in {a, b, c, d, e, f} : x <= y
<1> DEFINE x1 == IF a <= b THEN a ELSE b
           x2 == IF x1 <= c THEN x1 ELSE c
           x3 == IF x2 <= d THEN x2 ELSE d
           x4 == IF x3 <= e THEN x3 ELSE e
           x5 == IF x4 <= f THEN x4 ELSE f
<1>1. x1 \in {a, b} /\ x1 \in Int /\ x1 <= a /\ x1 <= b
  OBVIOUS
<1> HIDE DEF x1
<1>2. x2 \in {x1, c} /\ x2 \in Int /\ x2 <= x1 /\ x2 <= c
  BY <1>1
<1> HIDE DEF x2
<1>3. x3 \in {x2, d} /\ x3 \in Int /\ x3 <= x2 /\ x3 <= d
  BY <1>2
<1> HIDE DEF x3
<1>4. x4 \in {x3, e} /\ x4 \in Int /\ x4 <= x3 /\ x4 <= e
  BY <1>3
<1> HIDE DEF x4
<1>5. x5 \in {x4, f} /\ x5 \in Int /\ x5 <= x4 /\ x5 <= f
  BY <1>4
<1> HIDE DEF x5
<1>6. x5 \in {a, b, c, d, e, f}
  BY <1>1, <1>2, <1>3, <1>4, <1>5
<1>7. x5 <= a /\ x5 <= b /\ x5 <= c /\ x5 <= d /\ x5 <= e
  BY <1>1, <1>2, <1>3, <1>4, <1>5
<1>8. \A y \in {a, b, c, d, e, f} : x5 <= y
  BY <1>5, <1>7
<1> QED BY <1>6, <1>8

LEMMA UntilIsPositive ==
  ASSUME AnalyzerHolds, consumed \in Nat, NEW t \in Tiers, NEW tier,
         TierHolds(tier, Decimation(t), HopOf(t), consumed)
  PROVE  UntilEvent(tier, t) \in Nat \ {0}
<1> DEFINE f == FftSize
           d == Decimation(t)
           hop == HopOf(t)
           n == consumed
<1>1. f \in Nat \ {0} /\ d \in {1, 4, 16} /\ hop \in Nat \ {0} /\ n \in Nat
  BY SpectrumSizes, TierFacts
<1>2. tier.filled = (IF n < f * d THEN n \div d ELSE f)
      /\ tier.since = (IF n < f * d THEN 0 ELSE (n - f * d) % hop)
  BY DEF TierHolds
<1>3. UntilEvent(tier, t) = IF tier.filled < f THEN (f - tier.filled) * d - (n % d) ELSE hop - tier.since
  BY DEF UntilEvent
<1> HIDE DEF f, d, hop, n
<1>4. f * d \in Nat \ {0} /\ (n < f * d <=> n \div d < f) /\ (f - (n \div d)) * d - (n % d) = f * d - n
  BY <1>1, FillsUp
<1>5. CASE n < f * d
  BY <1>1, <1>2, <1>3, <1>4, <1>5
<1>6. CASE ~(n < f * d)
  <2> DEFINE a == n - f * d
  <2>1. a \in Int
    BY <1>1, <1>4
  <2>2. tier.since = a % hop /\ ~(tier.filled < f)
    BY <1>1, <1>2, <1>6
  <2> HIDE DEF a
  <2>3. a % hop \in 0..hop - 1
    BY <1>1, <2>1, Floor
  <2> QED BY <1>1, <1>3, <2>2, <2>3
<1> QED BY <1>5, <1>6

LEMMA StrideBounds ==
  ASSUME AnalyzerHolds, TiersHold, consumed \in Nat, pushing.left \in Nat \ {0}
  PROVE  /\ Stride \in Nat \ {0} /\ Stride <= pushing.left /\ Stride <= FftSize
         /\ \A t \in Tiers : Stride <= UntilEvent(tiers[t], t)
<1> DEFINE left == pushing.left
           Until(t) == UntilEvent(tiers[t], t)
           bounds == {Until(t) : t \in Tiers} \cup {left, PushStep, FftSize}
           least == CHOOSE b \in bounds : \A c \in bounds : b <= c
<1>1. Stride = Lower(left, IF \E b \in bounds : b < 1 THEN 1 ELSE least)
  BY DEF Stride
<1>2. \A t \in Tiers : Until(t) \in Nat \ {0}
  BY UntilIsPositive DEF TiersHold
<1>3. {left, PushStep, FftSize} \subseteq Nat \ {0}
  BY SpectrumSizes
<1> HIDE DEF Until
<1>4. bounds \subseteq Nat \ {0}
  BY <1>2, <1>3
<1>5. Tiers = {1} \/ Tiers = {1, 2, 3}
  <2>1. Tiers = 1..1 \/ Tiers = 1..3
    BY DEF Tiers, Decimations, TierScales
  <2> QED BY <2>1
<1>6. \E x, y \in Tiers : bounds = {Until(1), Until(x), Until(y), left, PushStep, FftSize} /\ 1 \in Tiers
  <2>1. CASE Tiers = {1}
    BY <2>1
  <2>2. CASE Tiers = {1, 2, 3}
    <3>1. bounds = {Until(1), Until(2), Until(3), left, PushStep, FftSize}
      BY <2>2
    <3> HIDE DEF bounds
    <3> QED BY <2>2, <3>1
  <2> QED BY <1>5, <2>1, <2>2
<1>7. PICK x \in Tiers, y \in Tiers :
        bounds = {Until(1), Until(x), Until(y), left, PushStep, FftSize} /\ 1 \in Tiers
  BY <1>6, Zenon
<1>8. \E b \in bounds : \A c \in bounds : b <= c
  <2> DEFINE u == Until(1)
             v == Until(x)
             w == Until(y)
  <2>1. /\ u \in Int /\ v \in Int /\ w \in Int /\ left \in Int /\ PushStep \in Int /\ FftSize \in Int
        /\ bounds = {u, v, w, left, PushStep, FftSize}
    BY <1>2, <1>3, <1>7
  <2> HIDE DEF u, v, w, left, bounds
  <2>2. \E b \in {u, v, w, left, PushStep, FftSize} :
          \A c \in {u, v, w, left, PushStep, FftSize} : b <= c
    BY ONLY <2>1, LeastOfSix
  <2> QED BY <2>1, <2>2
<1>9. least \in bounds /\ \A c \in bounds : least <= c
  <2> HIDE DEF bounds
  <2> QED BY <1>8
<1> HIDE DEF least
<1>10. \A t \in Tiers : Until(t) \in bounds
  OBVIOUS
<1>11. left \in bounds /\ FftSize \in bounds
  OBVIOUS
<1> HIDE DEF bounds, left
<1>12. ~(\E b \in bounds : b < 1) /\ least \in Nat \ {0} /\ left \in Nat \ {0}
  BY <1>4, <1>9, <1>11
<1>13. Stride = Lower(left, least)
  BY <1>1, <1>12
<1>14. least <= left /\ least <= FftSize
  BY <1>9, <1>11
<1>15. Stride = least
  <2>1. ~(left < least)
    BY <1>12, <1>14
  <2> QED BY <1>13, <2>1 DEF Lower
<1>16. \A t \in Tiers : Stride <= Until(t)
  BY <1>9, <1>10, <1>15
<1> QED BY <1>12, <1>14, <1>15, <1>16 DEF left, Until

-----------------------------------------------------------------------------
\* Levels.
LEMMA RateFacts ==
  ASSUME NEW rate \in RatesInUse
  PROVE  /\ rate \in Nat /\ rate > 40 /\ rate \in Nat \ {0} /\ DecayPerSecond \in Nat
         /\ DecayPerSecond % rate = 0 /\ Widening(BandEdges[rate])
<1> DEFINE rates == AnalyzeRates \cup {config.rate : config \in Analyzers}
<1>1. \A r \in rates : r > MinRate => DecayPerSecond % r = 0 /\ Widening(BandEdges[r])
  BY SpectrumAssumption, Zenon
<1>2. {FftSize, PushStep, EvenHistory, AlphaUnit, DecayPerSecond} \subseteq Nat \ {0}
  BY SpectrumAssumption, Zenon
<1>3. Analyzers \subseteq [multi : BOOLEAN, divisor : Nat, smooth : BOOLEAN, hold : Int, low : Int,
                           high : Int, rate : Nat]
  BY SpectrumAssumption, Zenon
<1>4. PushSizes \cup AnalyzeRates \subseteq Nat
  BY SpectrumAssumption, Zenon
<1>5. rate \in rates /\ rate > MinRate
  BY DEF RatesInUse
<1>6. rate \in Nat
  <2>1. CASE rate \in AnalyzeRates
    BY <1>4, <2>1
  <2>2. CASE rate \in {config.rate : config \in Analyzers}
    <3>1. PICK config \in Analyzers : rate = config.rate
      BY <2>2
    <3> QED BY <1>3, <3>1
  <2> QED BY <1>5, <2>1, <2>2
<1> HIDE DEF rates
<1>7. rate > 40
  BY <1>5 DEF MinRate
<1> QED BY <1>1, <1>2, <1>5, <1>6, <1>7

\* What a peak falls is so much a sample.
PerSample(rate) == DecayPerSecond \div rate
LEMMA DecayIs ==
  ASSUME NEW rate \in RatesInUse, NEW x \in Nat
  PROVE  PerSample(rate) \in Nat /\ DecayOf(rate, x) = PerSample(rate) * x
<1> DEFINE c == PerSample(rate)
           all == DecayPerSecond
           y == c * x
           z == 0
           a == all * x
<1>1. all \in Nat /\ rate \in Nat \ {0} /\ all % rate = 0
  BY RateFacts
<1> HIDE DEF all
<1>2. c \in Int /\ all = rate * c + (all % rate) /\ c \in Nat
  <2>1. all \div rate \in Int /\ all = rate * (all \div rate) + (all % rate)
    BY <1>1, Floor
  <2>2. all \div rate \in Nat
    BY <1>1
  <2> QED BY <2>1, <2>2 DEF PerSample, all
<1> HIDE DEF c
<1>3. rate * c \in Int /\ all = rate * c
  BY <1>1, <1>2
<1>4. y \in Int /\ a \in Int /\ z \in 0..rate - 1 /\ a = rate * y + z
  <2>1. all * x = rate * (c * x)
    BY <1>1, <1>2, <1>3
  <2>2. rate * (c * x) \in Int /\ c * x \in Int
    BY <1>1, <1>2
  <2> QED BY <1>1, <2>1, <2>2
<1> HIDE DEF y, z, a
<1>5. a \div rate = y
  BY <1>1, <1>4, FloorIs
<1> QED BY <1>2, <1>5 DEF DecayOf, a, y, c, all

LEMMA LevelIs ==
  ASSUME NEW q \in Nat, q >= FftSize
  PROVE  LevelOf(NewestOf(q)) \in Int
<1> DEFINE f == FftSize
           last == NewestOf(q)[f]
<1>1. Levels \in Seq(Int) /\ Levels # <<>>
  BY SpectrumAssumption, Zenon
<1>2. f \in Nat \ {0}
  BY SpectrumSizes
<1>3. last = q
  BY <1>2 DEF NewestOf
<1>4. Len(Levels) \in Nat \ {0}
  BY <1>1, EmptySeq
<1>5. 1 + (q % Len(Levels)) \in 1..Len(Levels)
  <2> DEFINE l == Len(Levels)
             r == q % l
  <2> HIDE DEF l
  <2>1. q \in Int /\ l \in Nat \ {0}
    BY <1>4 DEF l
  <2>2. r \in 0..l - 1
    BY <2>1, Floor
  <2> HIDE DEF r
  <2>3. 1 + r \in 1..l
    BY <2>1, <2>2
  <2> QED BY <2>3 DEF r, l
<1>6. LevelOf(NewestOf(q)) = Levels[1 + (q % Len(Levels))]
  BY <1>3 DEF LevelOf
<1> QED BY <1>1, <1>5, <1>6, ElementOfSeq

LEMMA ClampIs ==
  ASSUME NEW n \in Int, NEW low \in Int, NEW high \in Int, low <= high
  PROVE  /\ Clamp(n, low, high) \in low..high /\ Clamp(n, low, high) \in Int
         /\ n <= high => n <= Clamp(n, low, high)
         /\ n > high => Clamp(n, low, high) = high
BY DEF Clamp

LEMMA SmoothedIs ==
  ASSUME NEW previous \in Int, NEW db \in Int
  PROVE  Smoothed(previous, db) \in Int /\ (db >= previous => Smoothed(previous, db) >= previous)
<1> DEFINE alpha == IF db > previous THEN AttackAlpha ELSE ReleaseAlpha
           change == (db - previous) * alpha
           unit == AlphaUnit
           delta == IF change < 0 THEN -((-change) \div unit) ELSE change \div unit
<1>1. unit \in Nat \ {0}
  <2>1. {FftSize, PushStep, EvenHistory, AlphaUnit, DecayPerSecond} \subseteq Nat \ {0}
    BY SpectrumAssumption, Zenon
  <2> QED BY <2>1
<1>2. alpha \in Nat
  <2>1. {AttackAlpha, ReleaseAlpha} \subseteq 0..AlphaUnit
    BY SpectrumAssumption, Zenon
  <2>2. AttackAlpha \in Nat /\ ReleaseAlpha \in Nat
    BY <1>1, <2>1
  <2> QED BY <2>2
<1> HIDE DEF alpha, unit
<1>3. change \in Int /\ (db >= previous => change >= 0)
  BY <1>2
<1> HIDE DEF change
<1>4. delta \in Int /\ (change >= 0 => delta >= 0)
  <2>1. ASSUME NEW x \in Nat PROVE x \div unit \in Nat
    BY <1>1
  <2>2. CASE change < 0
    <3>1. -change \in Nat
      BY <1>3, <2>2
    <3>2. (-change) \div unit \in Nat
      BY <2>1, <3>1
    <3> QED BY <1>3, <2>2, <3>2
  <2>3. CASE ~(change < 0)
    <3>1. change \in Nat
      BY <1>3, <2>3
    <3>2. change \div unit \in Nat
      BY <2>1, <3>1
    <3> QED BY <1>3, <2>3, <3>2
  <2> QED BY <2>2, <2>3
<1>5. Smoothed(previous, db) = previous + delta
  BY DEF Smoothed, change, alpha, unit
<1> HIDE DEF delta
<1> QED BY <1>3, <1>4, <1>5

LEMMA HoldIs ==
  ASSUME NEW config, config.hold \in Nat, NEW rate \in Nat
  PROVE  HoldSamples(config, rate) \in Nat
<1> DEFINE a == config.hold * rate
<1>1. a \in Nat
  OBVIOUS
<1> HIDE DEF a
<1>2. (a + 1000 - 1) \div 1000 \in Nat
  BY <1>1
<1> QED BY <1>2 DEF HoldSamples, Milliseconds, a

\* A peak that was held, and fell, to a time falls on to a later one; it is attained again
\* when the level meets it.
LEMMA PeakFalls ==
  ASSUME NEW rate \in RatesInUse, NEW hf \in Nat, NEW u \in Nat, NEW e \in Nat, NEW top \in Int,
         NEW peak, peak = top - DecayOf(rate, Atleast0(u - hf)), NEW hold, hold = Atleast0(hf - u)
  PROVE  LET held == Lower(hold, e)
             fallen == peak - DecayOf(rate, e - held)
         IN /\ fallen = top - DecayOf(rate, Atleast0((u + e) - hf)) /\ fallen \in Int /\ peak \in Int
            /\ fallen <= peak /\ hold - held = Atleast0(hf - (u + e)) /\ held \in Nat /\ held <= e
            /\ (e <= held => fallen = peak)
<1> DEFINE c == PerSample(rate)
           x == Atleast0(u - hf)
           held == Lower(hold, e)
           y == e - held
           z == Atleast0((u + e) - hf)
           fallen == peak - DecayOf(rate, y)
<1>1. /\ x \in Nat /\ y \in Nat /\ z \in Nat /\ z = x + y /\ hold - held = Atleast0(hf - (u + e))
      /\ held \in Nat /\ held <= e /\ (e <= held => y = 0)
  BY DEF Atleast0, Lower
<1> HIDE DEF x, y, z
<1>2. c \in Nat /\ DecayOf(rate, x) = c * x /\ DecayOf(rate, y) = c * y /\ DecayOf(rate, z) = c * z
  BY <1>1, DecayIs
<1> HIDE DEF c
<1>3. c * x \in Nat /\ c * y \in Nat /\ c * z = c * x + c * y /\ (y = 0 => c * y = 0)
  BY <1>1, <1>2
<1>4. peak = top - DecayOf(rate, x)
  BY DEF x
<1> DEFINE cx == c * x
           cy == c * y
           cz == c * z
<1>5. cx \in Nat /\ cy \in Nat /\ cz = cx + cy /\ (y = 0 => cy = 0) /\ peak = top - cx
      /\ fallen = peak - cy /\ DecayOf(rate, z) = cz
  BY <1>2, <1>3, <1>4
<1> HIDE DEF cx, cy, cz, fallen
<1>6. fallen = top - cz /\ fallen \in Int /\ peak \in Int /\ fallen <= peak /\ (y = 0 => fallen = peak)
  BY <1>5
<1>7. fallen = top - DecayOf(rate, z)
  BY <1>5, <1>6
<1> HIDE DEF held
<1>8. fallen = peak - DecayOf(rate, e - held)
  BY DEF fallen, y
<1>9. /\ fallen = top - DecayOf(rate, Atleast0((u + e) - hf)) /\ fallen \in Int /\ peak \in Int
      /\ fallen <= peak /\ hold - held = Atleast0(hf - (u + e)) /\ held \in Nat /\ held <= e
      /\ (e <= held => fallen = peak)
  BY <1>1, <1>6, <1>7 DEF z
<1> QED BY <1>8, <1>9 DEF held

\* A peak that was never attained.
LEMMA NothingFalls ==
  ASSUME NEW rate \in RatesInUse, NEW hf \in Nat, NEW now \in Nat, NEW top \in Int
  PROVE  /\ top - DecayOf(rate, Atleast0(now - hf)) \in Int
         /\ top - DecayOf(rate, Atleast0(now - hf)) <= top
         /\ top - DecayOf(rate, Atleast0(0 - hf)) = top
<1> DEFINE x == Atleast0(now - hf)
           c == PerSample(rate)
           y == Atleast0(0 - hf)
<1>1. x \in Nat /\ y = 0 /\ y \in Nat
  BY DEF Atleast0
<1> HIDE DEF x, y
<1>2. c \in Nat /\ DecayOf(rate, x) = c * x /\ DecayOf(rate, y) = c * y
  BY <1>1, DecayIs
<1> HIDE DEF c
<1>3. c * x \in Nat /\ c * y = 0
  BY <1>1, <1>2
<1> DEFINE cx == c * x
<1>4. cx \in Nat /\ DecayOf(rate, x) = cx /\ DecayOf(rate, y) = 0
  BY <1>2, <1>3
<1> HIDE DEF cx
<1>5. top - DecayOf(rate, x) \in Int /\ top - DecayOf(rate, x) <= top /\ top - DecayOf(rate, y) = top
  BY <1>4
<1> QED BY <1>5 DEF x, y

BandParts == {"window", "at", "smooth", "peak", "hold", "top", "topAt"}
LEMMA PeakMoves ==
  ASSUME AnalyzerHolds, NEW begun \in BOOLEAN, NEW band,
         PeakHolds(band, analyzer.config, analyzer.rate, analyzer.holdFor, begun),
         NEW e \in Nat \ {0}, NEW now \in Nat, begun => now = band.at + e,
         NEW q \in Nat, q >= FftSize
  PROVE  LET r == Refreshed(band, NewestOf(q), e, now)
         IN /\ r.window = NewestOf(q) /\ r.at = now
            /\ PeakHolds(r, analyzer.config, analyzer.rate, analyzer.holdFor, TRUE)
<1> DEFINE config == analyzer.config
           rate == analyzer.rate
           hf == analyzer.holdFor
           low == config.low
           level == Clamp(LevelOf(NewestOf(q)), low, config.high)
           smooth == IF config.smooth THEN Smoothed(band.smooth, level) ELSE level
           after == IF config.hold > 0 THEN PeakAfter(band, smooth, e) ELSE [peak |-> smooth, hold |-> 0]
           expected == Expected(band, now)
           attained == config.hold = 0 \/ smooth >= expected
           r == [window |-> NewestOf(q), at |-> now, smooth |-> smooth, peak |-> after.peak,
                 hold |-> after.hold, top |-> IF attained THEN smooth ELSE band.top,
                 topAt |-> IF attained THEN now ELSE band.topAt]
<1>1. Refreshed(band, NewestOf(q), e, now) = r
  BY DEF Refreshed
<1>2. config \in Analyzers /\ ValidConfig(config) /\ rate \in RatesInUse /\ hf \in Nat
  BY DEF AnalyzerHolds
<1>3. low \in Int /\ config.high \in Int /\ low < config.high /\ config.hold \in Nat
  BY <1>2, ConfigTypes
<1>4. /\ DOMAIN band = BandParts /\ band.smooth \in Int /\ band.peak \in Int /\ band.top \in Int
      /\ band.at \in Nat /\ band.topAt \in Nat /\ band.hold \in Nat
      /\ band.topAt <= band.at /\ band.peak >= band.smooth
      /\ config.hold > 0 =>
           /\ band.peak = band.top - DecayOf(rate, Atleast0(band.at - band.topAt - hf))
           /\ begun => band.hold = Atleast0(hf - (band.at - band.topAt))
  BY DEF PeakHolds, BandParts
<1>5. ~begun => /\ band.smooth = low /\ band.peak = low /\ band.hold = 0 /\ band.top = low
                /\ band.topAt = 0 /\ band.at = 0
  BY DEF PeakHolds
<1>6. level \in Int /\ level >= low
  <2> DEFINE l == LevelOf(NewestOf(q))
             high == config.high
  <2>1. l \in Int /\ low \in Int /\ high \in Int /\ low <= high
    BY <1>3, LevelIs
  <2> HIDE DEF l, low, high
  <2>2. Clamp(l, low, high) \in low..high
    BY <2>1, ClampIs
  <2> QED BY <2>1, <2>2 DEF l, low, high
<1> HIDE DEF level
<1>7. smooth \in Int /\ (~begun => smooth >= low)
  <2> DEFINE p == band.smooth
             s == Smoothed(p, level)
  <2>1. p \in Int /\ level \in Int
    BY <1>4, <1>6
  <2> HIDE DEF p
  <2>2. s \in Int /\ (level >= p => s >= p)
    BY <2>1, SmoothedIs
  <2> HIDE DEF s
  <2>3. ~begun => p = low
    BY <1>5 DEF p
  <2>4. smooth = s \/ smooth = level
    BY DEF s, p
  <2> QED BY <1>6, <2>1, <2>2, <2>3, <2>4
<1> HIDE DEF smooth
<1>8. PeakAfter(band, smooth, e) =
        LET held == Lower(band.hold, e)
            fallen == band.peak - DecayOf(rate, e - held)
        IN IF smooth >= band.peak \/ (e > held /\ fallen <= smooth)
           THEN [peak |-> smooth, hold |-> hf]
           ELSE [peak |-> fallen, hold |-> band.hold - held]
  BY DEF PeakAfter
<1>9. expected = band.top - DecayOf(rate, Atleast0(now - band.topAt - hf))
  BY DEF Expected
<1> DEFINE u == band.at - band.topAt
           held == Lower(band.hold, e)
           fallen == band.peak - DecayOf(rate, e - held)
<1>10. /\ smooth >= band.peak \/ (e > held /\ fallen <= smooth) =>
            PeakAfter(band, smooth, e).peak = smooth /\ PeakAfter(band, smooth, e).hold = hf
       /\ ~(smooth >= band.peak \/ (e > held /\ fallen <= smooth)) =>
            PeakAfter(band, smooth, e).peak = fallen /\ PeakAfter(band, smooth, e).hold = band.hold - held
  <2> HIDE DEF held, fallen, low, config, rate, hf
  <2>1. PeakAfter(band, smooth, e) = IF smooth >= band.peak \/ (e > held /\ fallen <= smooth)
                                     THEN [peak |-> smooth, hold |-> hf]
                                     ELSE [peak |-> fallen, hold |-> band.hold - held]
    BY <1>8 DEF held, fallen
  <2> QED BY <2>1
<1> HIDE DEF config, rate, hf, low, held, fallen
<1>11. (config.hold > 0 /\ begun) =>
         /\ fallen = expected /\ fallen \in Int /\ fallen <= band.peak /\ band.peak \in Int
         /\ band.hold - held = Atleast0(hf - (now - band.topAt)) /\ held \in Nat /\ held <= e
         /\ (e <= held => fallen = band.peak)
  <2> SUFFICES ASSUME config.hold > 0, begun
               PROVE  /\ fallen = expected /\ fallen \in Int /\ fallen <= band.peak /\ band.peak \in Int
                      /\ band.hold - held = Atleast0(hf - (now - band.topAt)) /\ held \in Nat /\ held <= e
                      /\ (e <= held => fallen = band.peak)
    OBVIOUS
  <2> DEFINE top == band.top
             peak == band.peak
             hold == band.hold
  <2>1. u \in Nat /\ u + e = now - band.topAt /\ top \in Int /\ hf \in Nat /\ e \in Nat /\ rate \in RatesInUse
    BY <1>2, <1>4
  <2>2. peak = top - DecayOf(rate, Atleast0(u - hf)) /\ hold = Atleast0(hf - u)
    BY <1>4
  <2> HIDE DEF u, top, peak, hold, expected
  <2>3. LET he == Lower(hold, e)
            fa == peak - DecayOf(rate, e - he)
        IN /\ fa = top - DecayOf(rate, Atleast0((u + e) - hf)) /\ fa \in Int /\ peak \in Int
           /\ fa <= peak /\ hold - he = Atleast0(hf - (u + e)) /\ he \in Nat /\ he <= e
           /\ (e <= he => fa = peak)
    BY ONLY <2>1, <2>2, PeakFalls
  <2>4. /\ fallen = top - DecayOf(rate, Atleast0((u + e) - hf)) /\ fallen \in Int /\ peak \in Int
        /\ fallen <= peak /\ hold - held = Atleast0(hf - (u + e)) /\ held \in Nat /\ held <= e
        /\ (e <= held => fallen = peak)
    BY <2>3 DEF held, fallen, hold, peak
  <2>5. expected = top - DecayOf(rate, Atleast0((u + e) - hf))
    BY <1>9, <2>1 DEF top
  <2> QED BY <2>1, <2>4, <2>5 DEF hold, peak
<1>12. ~begun => expected <= smooth
  <2> SUFFICES ASSUME ~begun PROVE expected <= smooth
    OBVIOUS
  <2>1. expected = low - DecayOf(rate, Atleast0(now - 0 - hf)) /\ now - 0 = now
    BY <1>5, <1>9
  <2>2. low \in Int /\ hf \in Nat
    BY <1>2, <1>3
  <2>3. expected = low - DecayOf(rate, Atleast0(now - hf))
    BY <2>1
  <2> HIDE DEF expected
  <2>4. expected \in Int /\ expected <= low
    BY <1>2, <2>2, <2>3, NothingFalls
  <2> QED BY <1>7, <2>2, <2>4
<1> HIDE DEF expected, u
<1> DEFINE top == r.top
           topAt == r.topAt
<1>13. /\ DOMAIN r = BandParts /\ r.window = NewestOf(q) /\ r.at = now /\ r.smooth = smooth
       /\ r.peak = after.peak /\ r.hold = after.hold
       /\ (attained => r.top = smooth /\ r.topAt = now)
       /\ (~attained => r.top = band.top /\ r.topAt = band.topAt)
  <2> HIDE DEF after, attained
  <2> QED BY DEF BandParts
<1>14. config.hold = 0 => after.peak = smooth /\ after.hold = 0
  BY <1>3
<1>15. config.hold > 0 => after.peak = PeakAfter(band, smooth, e).peak /\ after.hold = PeakAfter(band, smooth, e).hold
  OBVIOUS
<1> HIDE DEF r, after, top, topAt
<1>16. now - now - hf = 0 - hf /\ hf - (now - now) = hf /\ Atleast0(hf) = hf
  BY <1>2 DEF Atleast0
<1>17. smooth - DecayOf(rate, Atleast0(0 - hf)) = smooth
  <2> HIDE DEF attained
  <2> QED BY <1>2, <1>7, NothingFalls
<1>18. CASE config.hold = 0
  <2>1. attained
    BY <1>18
  <2>2. r.smooth = smooth /\ r.peak = smooth /\ r.hold = 0 /\ r.top = smooth /\ r.topAt = now
    BY <1>13, <1>14, <1>18, <2>1
  <2> HIDE DEF attained
  <2>3. ~(config.hold > 0)
    BY <1>18
  <2>4. PeakHolds(r, config, rate, hf, TRUE)
    BY <1>7, <1>13, <2>2, <2>3 DEF PeakHolds, BandParts
  <2> QED BY <1>1, <1>13, <2>4 DEF config, rate, hf
<1>19. CASE config.hold > 0 /\ smooth >= expected
  <2>1. attained
    BY <1>19
  <2>2. smooth >= band.peak \/ (e > held /\ fallen <= smooth)
    <3>1. CASE begun
      <4>1. CASE e <= held
        BY <1>4, <1>7, <1>11, <1>19, <3>1, <4>1
      <4>2. CASE ~(e <= held)
        BY <1>7, <1>11, <1>19, <3>1, <4>2
      <4> QED BY <4>1, <4>2
    <3>2. CASE ~begun
      BY <1>5, <1>7, <3>2
    <3> QED BY <3>1, <3>2
  <2>3. r.smooth = smooth /\ r.peak = smooth /\ r.hold = hf /\ r.top = smooth /\ r.topAt = now
    BY <1>10, <1>13, <1>15, <1>19, <2>1, <2>2
  <2> HIDE DEF attained
  <2>4. r.peak = r.top - DecayOf(rate, Atleast0(r.at - r.topAt - hf)) /\ r.hold = Atleast0(hf - (r.at - r.topAt))
    BY <1>13, <1>16, <1>17, <2>3
  <2>5. PeakHolds(r, config, rate, hf, TRUE)
    BY <1>2, <1>7, <1>13, <2>3, <2>4 DEF PeakHolds, BandParts
  <2> QED BY <1>1, <1>13, <2>5 DEF config, rate, hf
<1>20. CASE config.hold > 0 /\ ~(smooth >= expected)
  <2>1. ~attained
    BY <1>3, <1>20
  <2>2. begun
    <3> HIDE DEF attained
    <3>1. expected \in Int
      <4>1. CASE begun
        BY <1>11, <1>20, <4>1
      <4>2. CASE ~begun
        <5>1. expected = low - DecayOf(rate, Atleast0(now - hf))
          <6>1. now - 0 = now
            OBVIOUS
          <6> QED BY <1>5, <1>9, <4>2, <6>1
        <5> QED BY <1>2, <1>3, <5>1, NothingFalls
      <4> QED BY <4>1, <4>2
    <3> QED BY <1>7, <1>12, <1>20, <3>1
  <2>3. ~(smooth >= band.peak \/ (e > held /\ fallen <= smooth)) /\ fallen >= smooth
    BY <1>4, <1>7, <1>11, <1>20, <2>2
  <2>4. /\ r.smooth = smooth /\ r.peak = fallen /\ r.hold = band.hold - held /\ r.top = band.top
        /\ r.topAt = band.topAt
    BY <1>10, <1>13, <1>15, <1>20, <2>1, <2>3
  <2> HIDE DEF attained
  <2>5. r.peak = r.top - DecayOf(rate, Atleast0(r.at - r.topAt - hf)) /\ r.hold = Atleast0(hf - (r.at - r.topAt))
    BY <1>9, <1>11, <1>13, <1>20, <2>2, <2>4
  <2>6. r.hold \in Nat
    <3>1. now - band.topAt \in Int
      BY <1>4
    <3> QED BY <1>2, <1>11, <1>20, <2>2, <2>4, <3>1 DEF Atleast0
  <2>7. r.topAt <= r.at /\ r.peak \in Int /\ r.peak >= r.smooth /\ r.topAt \in Nat /\ r.top \in Int
        /\ r.at \in Nat /\ r.smooth \in Int
    BY <1>4, <1>7, <1>11, <1>13, <1>20, <2>2, <2>3, <2>4
  <2>8. PeakHolds(r, config, rate, hf, TRUE)
    BY <1>13, <2>5, <2>6, <2>7 DEF PeakHolds, BandParts
  <2> QED BY <1>1, <1>13, <2>8 DEF config, rate, hf
<1>21. config.hold = 0 \/ (config.hold > 0 /\ smooth >= expected) \/ (config.hold > 0 /\ ~(smooth >= expected))
  BY <1>3
<1> QED BY <1>18, <1>19, <1>20, <1>21

-----------------------------------------------------------------------------
\* Bands.
LEMMA AmongThree ==
  ASSUME NEW S, S \subseteq 1..3, S # {}
  PROVE  /\ \E t \in S : \A u \in S : t <= u
         /\ \E t \in S : \A u \in S : t >= u
<1>1. \A u \in S : u \in {1, 2, 3}
  OBVIOUS
<1>2. \E t \in S : \A u \in S : t <= u
  <2>1. CASE 1 \in S
    BY <1>1, <2>1
  <2>2. CASE 1 \notin S /\ 2 \in S
    BY <1>1, <2>2
  <2>3. CASE 1 \notin S /\ 2 \notin S
    <3>1. 3 \in S /\ \A u \in S : u = 3
      BY <1>1, <2>3
    <3> QED BY <3>1
  <2> QED BY <2>1, <2>2, <2>3
<1>3. \E t \in S : \A u \in S : t >= u
  <2>1. CASE 3 \in S
    BY <1>1, <2>1
  <2>2. CASE 3 \notin S /\ 2 \in S
    BY <1>1, <2>2
  <2>3. CASE 3 \notin S /\ 2 \notin S
    <3>1. 1 \in S /\ \A u \in S : u = 1
      BY <1>1, <2>3
    <3> QED BY <3>1
  <2> QED BY <2>1, <2>2, <2>3
<1> QED BY <1>2, <1>3

Fits(t, high, rate) == 10 * high * TierScales[t] <= 8 * (rate \div 2)
Candidates(high, rate) == {t \in 1..3 : Fits(t, high, rate)} \cup {1}
Resolves(t, width, rate) == width * FftSize * TierScales[t] >= 2 * rate
Resolving(high, width, rate) == {t \in Candidates(high, rate) : Resolves(t, width, rate)}
LEMMA TierOfIs ==
  ASSUME NEW low \in Nat, NEW high \in Nat, low < high, NEW rate \in Nat
  PROVE  LET candidates == Candidates(high, rate)
             wide == Resolving(high, high - low, rate)
             t == TierOf(low, high, rate)
         IN /\ t \in candidates /\ candidates \subseteq 1..3 /\ wide \subseteq candidates
            /\ wide # {} => t \in wide /\ \A u \in wide : t <= u
            /\ wide = {} => \A u \in candidates : t >= u
<1> DEFINE candidates == Candidates(high, rate)
           wide == Resolving(high, high - low, rate)
           t == TierOf(low, high, rate)
<1>1. t = IF wide # {} THEN CHOOSE v \in wide : \A u \in wide : v <= u
          ELSE CHOOSE v \in candidates : \A u \in candidates : v >= u
  BY DEF TierOf, Candidates, Resolving, Fits, Resolves
<1>2. candidates \subseteq 1..3 /\ candidates # {} /\ wide \subseteq candidates
  BY DEF Candidates, Resolving
<1> HIDE DEF candidates, wide, t
<1>3. CASE wide # {}
  <2>1. \E v \in wide : \A u \in wide : v <= u
    BY <1>2, <1>3, AmongThree
  <2>2. t = CHOOSE v \in wide : \A u \in wide : v <= u
    BY <1>1, <1>3
  <2>3. t \in wide /\ \A u \in wide : t <= u
    BY <2>1, <2>2
  <2>4. t \in candidates /\ candidates \subseteq 1..3 /\ wide \subseteq candidates
    BY <1>2, <2>3
  <2> QED BY <1>3, <2>3, <2>4 DEF candidates, wide, t
<1>4. CASE wide = {}
  <2>1. \E v \in candidates : \A u \in candidates : v >= u
    BY <1>2, AmongThree
  <2>2. t = CHOOSE v \in candidates : \A u \in candidates : v >= u
    BY <1>1, <1>4
  <2>3. t \in candidates /\ \A u \in candidates : t >= u
    BY <2>1, <2>2
  <2> QED BY <1>2, <1>4, <2>3 DEF candidates, wide, t
<1> QED BY <1>3, <1>4

\* A higher band that is no narrower is of a tier that is no coarser.
LEMMA TiersFall ==
  ASSUME NEW low \in Nat, NEW mid \in Nat, NEW high \in Nat, low < mid, mid < high,
         mid - low <= high - mid, NEW rate \in Nat
  PROVE  TierOf(mid, high, rate) <= TierOf(low, mid, rate)
<1> DEFINE c1 == Candidates(mid, rate)
           c2 == Candidates(high, rate)
           w1 == Resolving(mid, mid - low, rate)
           w2 == Resolving(high, high - mid, rate)
           t1 == TierOf(low, mid, rate)
           t2 == TierOf(mid, high, rate)
<1>1. /\ t1 \in c1 /\ c1 \subseteq 1..3 /\ w1 \subseteq c1
      /\ w1 # {} => t1 \in w1 /\ \A u \in w1 : t1 <= u
      /\ w1 = {} => \A u \in c1 : t1 >= u
  BY TierOfIs
<1>2. /\ t2 \in c2 /\ c2 \subseteq 1..3 /\ w2 \subseteq c2
      /\ w2 # {} => t2 \in w2 /\ \A u \in w2 : t2 <= u
      /\ w2 = {} => \A u \in c2 : t2 >= u
  BY TierOfIs
<1>3. TierScales[1] = 1 /\ TierScales[2] = 4 /\ TierScales[3] = 16
  BY DEF TierScales
<1>4. FftSize \in Nat /\ rate \div 2 \in Nat
  BY SpectrumSizes
<1>5. c2 \subseteq c1
  <2> SUFFICES ASSUME NEW t \in c2, t # 1 PROVE t \in c1
    BY DEF Candidates
  <2>1. t \in {1, 2, 3} /\ Fits(t, high, rate)
    BY <1>2 DEF Candidates
  <2>2. Fits(t, mid, rate)
    <3>1. 10 * high * TierScales[t] <= 8 * (rate \div 2)
      BY <2>1 DEF Fits
    <3>2. TierScales[t] \in {1, 4, 16}
      BY <1>3, <2>1
    <3>3. 10 * mid * TierScales[t] <= 10 * high * TierScales[t]
      BY <3>2
    <3> DEFINE a == 10 * mid * TierScales[t]
               b == 10 * high * TierScales[t]
               m == 8 * (rate \div 2)
    <3>4. a \in Int /\ b \in Int /\ m \in Int /\ a <= b /\ b <= m
      BY <1>4, <3>1, <3>2, <3>3
    <3> HIDE DEF a, b, m
    <3>5. a <= m
      BY <3>4
    <3> QED BY <3>5 DEF a, m, Fits
  <2> QED BY <2>1, <2>2 DEF Candidates
\* Whatever is finer than what fits fits too.
<1>6. ASSUME NEW t \in 1..3, t \notin c2, NEW u \in c2 PROVE u < t
  <2> SUFFICES ASSUME u >= t, u # 1 PROVE FALSE
    <3>1. t # 1
      BY <1>6 DEF Candidates
    <3> QED BY <1>2, <3>1
  <2>1. u \in {1, 2, 3} /\ t \in {1, 2, 3} /\ Fits(u, high, rate) /\ u >= t
    BY <1>2 DEF Candidates
  <2>2. TierScales[t] <= TierScales[u] /\ TierScales[t] \in {1, 4, 16} /\ TierScales[u] \in {1, 4, 16}
    BY <1>3, <2>1
  <2>3. Fits(t, high, rate)
    <3> DEFINE a == TierScales[t]
               b == TierScales[u]
               x == 10 * high * a
               y == 10 * high * b
               m == 8 * (rate \div 2)
    <3>1. y <= m
      BY <2>1 DEF Fits
    <3>2. a <= b /\ a \in {1, 4, 16} /\ b \in {1, 4, 16}
      BY <2>2
    <3> HIDE DEF a, b
    <3>3. x \in Int /\ y \in Int /\ m \in Int /\ x <= y
      BY <1>4, <3>2
    <3> HIDE DEF x, y, m
    <3>4. x <= m
      BY <3>1, <3>3
    <3> QED BY <3>4 DEF x, m, a, Fits
  <2> QED BY <1>6, <2>3 DEF Candidates
<1>7. ASSUME NEW t \in w1, t \in c2 PROVE t \in w2
  <2>1. t \in {1, 2, 3} /\ Resolves(t, mid - low, rate)
    BY <1>1 DEF Resolving
  <2>2. TierScales[t] \in {1, 4, 16}
    BY <1>3, <2>1
  <2> DEFINE v == mid - low
             w == high - mid
             k == TierScales[t]
             f == FftSize
  <2>3. v \in Nat /\ w \in Nat /\ v <= w /\ k \in {1, 4, 16} /\ f \in Nat /\ rate \in Nat
    BY <1>4, <2>2
  <2>4. v * f * k >= 2 * rate
    BY <2>1 DEF Resolves
  <2> HIDE DEF v, w, k, f
  <2>5. v * f <= w * f /\ v * f \in Nat /\ w * f \in Nat
    <3>1. w - v \in Nat
      BY <2>3
    <3>2. (w - v) * f \in Nat /\ (w - v) * f = w * f - v * f /\ v * f \in Nat /\ w * f \in Nat
      BY <2>3, <3>1
    <3> QED BY <3>2
  <2>6. w * f * k >= 2 * rate
    <3> DEFINE a == v * f
               b == w * f
    <3>1. a \in Nat /\ b \in Nat /\ a <= b /\ a * k >= 2 * rate
      BY <2>4, <2>5
    <3> HIDE DEF a, b
    <3>2. b * k >= 2 * rate
      BY <2>3, <3>1
    <3> QED BY <3>2 DEF b
  <2>7. Resolves(t, high - mid, rate)
    BY <2>6 DEF Resolves, w, f, k
  <2> QED BY <1>7, <2>7 DEF Resolving
<1> HIDE DEF c1, c2, w1, w2, t1, t2
<1>8. t1 \in {1, 2, 3} /\ t2 \in {1, 2, 3}
  <2>1. t1 \in 1..3 /\ t2 \in 1..3
    BY <1>1, <1>2
  <2> QED BY <2>1
<1>9. t2 <= t1
  <2>1. CASE w1 = {}
    <3>1. t2 \in c1
      BY <1>2, <1>5
    <3>2. t1 >= t2
      BY <1>1, <2>1, <3>1
    <3> QED BY <1>8, <3>2
  <2>2. CASE w1 # {} /\ t1 \in c2
    <3>1. t1 \in w2
      BY <1>1, <1>7, <2>2
    <3> QED BY <1>2, <3>1
  <2>3. CASE w1 # {} /\ t1 \notin c2
    <3>1. t1 \in 1..3
      BY <1>8
    <3>2. t2 < t1
      BY <1>2, <1>6, <2>3, <3>1
    <3> QED BY <1>8, <3>2
  <2> QED BY <2>1, <2>2, <2>3
<1> QED BY <1>9 DEF t1, t2

\* The range of a band, and that of the one above it of the same resolution.
LEMMA RangeIs ==
  ASSUME NEW a \in Int, NEW b \in Int, NEW last \in Nat \ {0}
  PROVE  LET first == Lower(Atleast0(a), last - 1)
         IN 0 <= first /\ first < Clamp(b, first + 1, last) /\ Clamp(b, first + 1, last) <= last
            /\ Clamp(b, first + 1, last) \in Int
            /\ (b <= last => b <= Clamp(b, first + 1, last)) /\ (b > last => Clamp(b, first + 1, last) = last)
            /\ 1 <= Clamp(b, first + 1, last)
BY DEF Lower, Atleast0, Clamp

\* Ranges meet when the lower ends no sooner than the higher begins.
LEMMA RangesMeet ==
  ASSUME NEW a1 \in Int, NEW b1 \in Int, NEW a2 \in Int, NEW last \in Nat \ {0}, a2 <= b1
  PROVE  LET first == Lower(Atleast0(a1), last - 1)
         IN Lower(Atleast0(a2), last - 1) <= Clamp(b1, first + 1, last)
<1> DEFINE first == Lower(Atleast0(a1), last - 1)
           c == Clamp(b1, first + 1, last)
           x == Lower(Atleast0(a2), last - 1)
<1>1. /\ (b1 <= last => b1 <= c) /\ (b1 > last => c = last) /\ 1 <= c /\ c \in Int
  BY RangeIs
<1>2. x \in Int /\ x <= last - 1 /\ (x = 0 \/ x <= a2)
  BY DEF Lower, Atleast0
<1> HIDE DEF c, x
<1>3. x <= c
  BY <1>1, <1>2
<1> QED BY <1>3 DEF x, c

\* A range, from the bin it would begin at and the bin it would end at.
Ranging(a, b) ==
  LET first == Lower(Atleast0(a), PositiveBins - 1) IN <<first, Clamp(b, first + 1, PositiveBins)>>
LEMMA RangingIs ==
  ASSUME NEW a1 \in Int, NEW b1 \in Int, PositiveBins \in Nat \ {0}
  PROVE  /\ 0 <= Ranging(a1, b1)[1] /\ Ranging(a1, b1)[1] < Ranging(a1, b1)[2]
         /\ Ranging(a1, b1)[2] <= PositiveBins
         /\ \A a2, b2 \in Int : a2 <= b1 => Ranging(a2, b2)[1] <= Ranging(a1, b1)[2]
<1> DEFINE last == PositiveBins
           first == Lower(Atleast0(a1), last - 1)
           c == Clamp(b1, first + 1, last)
<1>1. Ranging(a1, b1)[1] = first /\ Ranging(a1, b1)[2] = c
  BY DEF Ranging
<1>2. 0 <= first /\ first < c /\ c <= last
  <2> HIDE DEF last
  <2> QED BY RangeIs DEF last
<1>3. ASSUME NEW a2 \in Int, NEW b2 \in Int, a2 <= b1 PROVE Ranging(a2, b2)[1] <= c
  <2>1. Ranging(a2, b2)[1] = Lower(Atleast0(a2), last - 1)
    BY DEF Ranging
  <2>2. last \in Nat \ {0}
    OBVIOUS
  <2> HIDE DEF last
  <2>3. Lower(Atleast0(a2), last - 1) <= c
    BY <1>3, <2>2, RangesMeet
  <2> QED BY <2>1, <2>3
<1> HIDE DEF first, c, last
<1> QED BY <1>1, <1>2, <1>3 DEF last

\* Where a range begins and ends before it is clamped.
BeginsAt(low, high, rate) ==
  IF Multi THEN (low * (FftSize * TierScales[TierOf(low, high, rate)])) \div rate - 1
  ELSE (low * PositiveBins) \div (rate \div 2)
EndsAt(low, high, rate) ==
  IF Multi THEN CeilDiv(high * (FftSize * TierScales[TierOf(low, high, rate)]), rate) - 1
  ELSE (high * PositiveBins) \div (rate \div 2)

LEMMA QuotientIs ==
  ASSUME NEW a \in Nat, NEW d \in Nat \ {0}
  PROVE  a \div d \in Nat /\ CeilDiv(a, d) \in Int /\ a \div d <= CeilDiv(a, d)
<1> DEFINE x == a \div d
           b == a + d - 1
           y == b \div d
<1>1. a \in Int /\ b \in Int /\ a <= b /\ x \in Nat
  OBVIOUS
<1> HIDE DEF b
<1>2. x \in Int /\ a % d \in 0..d - 1 /\ a = d * x + (a % d)
  BY <1>1, Floor
<1>3. y \in Int /\ b % d \in 0..d - 1 /\ b = d * y + (b % d)
  BY <1>1, Floor
<1> HIDE DEF x, y
<1>4. x <= y
  <2> DEFINE z == y + 1
  <2>1. d * z = d * y + d /\ d * y \in Int /\ d * x \in Int /\ z \in Int
    BY <1>3, <1>2
  <2>2. d * x < d * z
    BY <1>1, <1>2, <1>3, <2>1
  <2> HIDE DEF z
  <2>3. x < z
    BY <1>2, <2>1, <2>2, FactorLess
  <2> QED BY <1>2, <1>3, <2>3 DEF z
<1>5. CeilDiv(a, d) = y
  BY DEF CeilDiv, y, b
<1> QED BY <1>1, <1>3, <1>4, <1>5 DEF x

LEMMA BandRange ==
  ASSUME NEW low \in Nat, NEW high \in Nat, low < high, NEW rate \in Nat, rate > 40, FftSize >= 4
  PROVE  /\ BeginsAt(low, high, rate) \in Int /\ EndsAt(low, high, rate) \in Int
         /\ BinRange(low, high, rate) = Ranging(BeginsAt(low, high, rate), EndsAt(low, high, rate))
         /\ PositiveBins \in Nat \ {0}
<1>1. PositiveBins \in Nat \ {0} /\ rate \in Nat \ {0} /\ rate \div 2 \in Nat \ {0} /\ FftSize \in Nat
  BY SpectrumSizes DEF PositiveBins
<1>2. CASE Multi
  <2> DEFINE t == TierOf(low, high, rate)
             scale == FftSize * TierScales[t]
             a == low * scale
             b == high * scale
  <2>1. t \in 1..3
    BY TierOfIs
  <2>2. scale \in Nat
    <3>1. TierScales[t] \in Nat
      BY <2>1 DEF TierScales
    <3> QED BY <1>1, <3>1
  <2> HIDE DEF t, scale
  <2>3. a \in Nat /\ b \in Nat
    BY <2>2
  <2> HIDE DEF a, b
  <2>4. a \div rate \in Nat /\ CeilDiv(b, rate) \in Int
    BY <1>1, <2>3, QuotientIs
  <2>5. BeginsAt(low, high, rate) = a \div rate - 1 /\ EndsAt(low, high, rate) = CeilDiv(b, rate) - 1
    BY <1>2 DEF BeginsAt, EndsAt, a, b, scale, t
  <2>6. BinRange(low, high, rate) = Ranging(a \div rate - 1, CeilDiv(b, rate) - 1)
    BY <1>2 DEF BinRange, Ranging, a, b, scale, t
  <2> QED BY <1>1, <2>4, <2>5, <2>6
<1>3. CASE ~Multi
  <2> DEFINE half == rate \div 2
             a == low * PositiveBins
             b == high * PositiveBins
             x == a \div half
             y == b \div half
  <2>1. a \in Nat /\ b \in Nat /\ half \in Nat \ {0}
    BY <1>1
  <2> HIDE DEF a, b, half
  <2>2. x \in Nat /\ y \in Nat
    BY <2>1, QuotientIs
  <2>3. BeginsAt(low, high, rate) = x /\ EndsAt(low, high, rate) = y
    BY <1>3 DEF BeginsAt, EndsAt, a, b, half
  <2>4. BinRange(low, high, rate) = <<Lower(x, PositiveBins - 1), Clamp(y, Lower(x, PositiveBins - 1) + 1, PositiveBins)>>
    BY <1>3 DEF BinRange, a, b, half
  <2> HIDE DEF x, y
  <2>5. Atleast0(x) = x
    BY <2>2 DEF Atleast0
  <2>6. Ranging(x, y) = <<Lower(x, PositiveBins - 1), Clamp(y, Lower(x, PositiveBins - 1) + 1, PositiveBins)>>
    BY <2>5 DEF Ranging
  <2> QED BY <1>1, <2>2, <2>3, <2>4, <2>6
<1> QED BY <1>2, <1>3

LEMMA BandsCover ==
  ASSUME AnalyzerHolds
  PROVE  BandsCoverSpectrum
<1> DEFINE rate == analyzer.binRate
           edges == BandEdges[rate]
           BinsAt(i) == BinRange(edges[i], edges[i + 1], rate)
           TierAt(i) == IF Multi THEN TierOf(edges[i], edges[i + 1], rate) ELSE 1
           Begins(i) == BeginsAt(edges[i], edges[i + 1], rate)
           Ends(i) == EndsAt(edges[i], edges[i + 1], rate)
<1>1. rate = analyzer.rate /\ rate \in RatesInUse
  BY DEF AnalyzerHolds
<1>2. rate \in Nat /\ rate > 40 /\ rate \in Nat \ {0} /\ Widening(edges)
  <2> HIDE DEF rate
  <2> QED BY <1>1, RateFacts
<1>3. FftSize >= 4
  BY DEF AnalyzerHolds, ValidConfig
<1> HIDE DEF rate, edges
<1>4. /\ edges \in Seq(Nat) /\ Len(edges) \in Nat
      /\ \A i \in 1..Len(edges) - 1 : edges[i] < edges[i + 1]
      /\ \A i \in 1..Len(edges) - 2 : edges[i + 1] - edges[i] <= edges[i + 2] - edges[i + 1]
  BY <1>2 DEF Widening
<1>5. ASSUME NEW i \in 1..Len(edges) PROVE edges[i] \in Nat
  BY <1>4, ElementOfSeq
<1>6. ASSUME NEW i \in 1..Len(edges) - 1
      PROVE  /\ edges[i] \in Nat /\ edges[i + 1] \in Nat /\ edges[i] < edges[i + 1]
             /\ Begins(i) \in Int /\ Ends(i) \in Int /\ BinsAt(i) = Ranging(Begins(i), Ends(i))
             /\ PositiveBins \in Nat \ {0}
  <2>1. i \in 1..Len(edges) /\ i + 1 \in 1..Len(edges)
    BY <1>4
  <2> DEFINE low == edges[i]
             high == edges[i + 1]
  <2>2. low \in Nat /\ high \in Nat /\ low < high
    BY <1>4, <1>5, <2>1
  <2> HIDE DEF low, high
  <2>3. /\ BeginsAt(low, high, rate) \in Int /\ EndsAt(low, high, rate) \in Int
        /\ BinRange(low, high, rate) = Ranging(BeginsAt(low, high, rate), EndsAt(low, high, rate))
        /\ PositiveBins \in Nat \ {0}
    BY <1>2, <1>3, <2>2, BandRange
  <2> QED BY <2>2, <2>3 DEF low, high
<1> HIDE DEF BinsAt, Begins, Ends
<1>7. ASSUME NEW i \in 1..Len(edges) - 1
      PROVE  0 <= BinsAt(i)[1] /\ BinsAt(i)[1] < BinsAt(i)[2] /\ BinsAt(i)[2] <= PositiveBins
  <2> DEFINE a == Begins(i)
             b == Ends(i)
  <2>1. a \in Int /\ b \in Int /\ PositiveBins \in Nat \ {0} /\ BinsAt(i) = Ranging(a, b)
    BY <1>6
  <2> HIDE DEF a, b
  <2> QED BY <2>1, RangingIs
<1>8. ASSUME NEW i \in 1..Len(edges) - 2
      PROVE  TierAt(i + 1) <= TierAt(i) /\ (TierAt(i) = TierAt(i + 1) => BinsAt(i + 1)[1] <= BinsAt(i)[2])
  <2> DEFINE low == edges[i]
             mid == edges[i + 1]
             high == edges[i + 2]
             j == i + 1
  <2>1. i \in 1..Len(edges) - 1 /\ j \in 1..Len(edges) - 1 /\ j + 1 = i + 2
    BY <1>4
  <2>2. low \in Nat /\ mid \in Nat /\ low < mid /\ mid - low <= high - mid
    BY <1>4, <1>6, <2>1
  <2>3. mid < high /\ high \in Nat
    <3>1. edges[j] < edges[j + 1] /\ edges[j + 1] \in Nat
      BY <1>6, <2>1
    <3> QED BY <2>1, <3>1
  <2>4. TierAt(i) = IF Multi THEN TierOf(low, mid, rate) ELSE 1
    OBVIOUS
  <2>5. TierAt(i + 1) = IF Multi THEN TierOf(mid, high, rate) ELSE 1
    BY <2>1
  <2>6. Begins(i + 1) = BeginsAt(mid, high, rate) /\ Ends(i) = EndsAt(low, mid, rate)
    BY <2>1 DEF Begins, Ends
  <2> HIDE DEF low, mid, high, TierAt
  <2>7. TierAt(i + 1) <= TierAt(i)
    <3>1. TierOf(mid, high, rate) <= TierOf(low, mid, rate)
      BY <1>2, <2>2, <2>3, TiersFall
    <3> QED BY <2>4, <2>5, <3>1
  <2>8. ASSUME TierAt(i) = TierAt(i + 1) PROVE Begins(i + 1) <= Ends(i)
    <3>1. CASE Multi
      <4> DEFINE t == TierOf(low, mid, rate)
                 a == mid * (FftSize * TierScales[t])
      <4>1. TierOf(mid, high, rate) = t
        BY <2>4, <2>5, <2>8, <3>1
      <4>2. a \in Nat
        <5>1. t \in 1..3
          BY <1>2, <2>2, TierOfIs
        <5>2. TierScales[t] \in Nat
          BY <5>1 DEF TierScales
        <5> QED BY <2>2, <5>2, SpectrumSizes
      <4>3. BeginsAt(mid, high, rate) = a \div rate - 1
        BY <3>1, <4>1 DEF BeginsAt
      <4>4. EndsAt(low, mid, rate) = CeilDiv(a, rate) - 1
        BY <3>1 DEF EndsAt
      <4> HIDE DEF t, a
      <4>5. a \div rate \in Nat /\ CeilDiv(a, rate) \in Int /\ a \div rate <= CeilDiv(a, rate)
        BY <1>2, <4>2, QuotientIs
      <4> QED BY <2>6, <4>3, <4>4, <4>5
    <3>2. CASE ~Multi
      <4>1. BeginsAt(mid, high, rate) = EndsAt(low, mid, rate)
        BY <3>2 DEF BeginsAt, EndsAt
      <4>2. Ends(i) \in Int
        BY <1>6, <2>1
      <4> QED BY <2>6, <4>1, <4>2
    <3> QED BY <3>1, <3>2
  <2>9. BinsAt(i) = Ranging(Begins(i), Ends(i)) /\ BinsAt(j) = Ranging(Begins(j), Ends(j))
        /\ Begins(i) \in Int /\ Ends(i) \in Int /\ Begins(j) \in Int /\ Ends(j) \in Int
        /\ PositiveBins \in Nat \ {0}
    BY <1>6, <2>1
  <2>10. ASSUME TierAt(i) = TierAt(i + 1) PROVE BinsAt(i + 1)[1] <= BinsAt(i)[2]
    <3> DEFINE a1 == Begins(i)
               b1 == Ends(i)
               a2 == Begins(j)
               b2 == Ends(j)
    <3>1. a2 <= b1
      BY <2>8, <2>10
    <3>2. a1 \in Int /\ b1 \in Int /\ a2 \in Int /\ b2 \in Int /\ BinsAt(i) = Ranging(a1, b1)
          /\ BinsAt(j) = Ranging(a2, b2) /\ PositiveBins \in Nat \ {0}
      BY <2>9
    <3> HIDE DEF a1, b1, a2, b2
    <3>3. Ranging(a2, b2)[1] <= Ranging(a1, b1)[2]
      BY <3>1, <3>2, RangingIs
    <3> QED BY <3>2, <3>3
  <2> QED BY <2>7, <2>10
<1>9. /\ rate = analyzer.rate
      /\ \A i \in 1..Len(edges) - 1 : 0 <= BinsAt(i)[1] /\ BinsAt(i)[1] < BinsAt(i)[2] /\ BinsAt(i)[2] <= PositiveBins
      /\ \A i \in 1..Len(edges) - 2 :
           TierAt(i + 1) <= TierAt(i) /\ (TierAt(i) = TierAt(i + 1) => BinsAt(i + 1)[1] <= BinsAt(i)[2])
  BY <1>1, <1>7, <1>8
<1> QED BY <1>9 DEF BandsCoverSpectrum, BinsAt, TierAt, edges, rate

-----------------------------------------------------------------------------
\* A band, when its tier is due and when it is not.
LEMMA BegunIs ==
  ASSUME NEW band, NEW config, NEW rate, NEW hf, NEW x \in BOOLEAN, NEW y \in BOOLEAN, x <=> y,
         PeakHolds(band, config, rate, hf, x)
  PROVE  PeakHolds(band, config, rate, hf, y)
<1>1. x = y
  OBVIOUS
<1> QED BY <1>1

BandIs(band, t, n) ==
  /\ ShowsWindow(band, Decimation(t), HopOf(t), n)
  /\ PeakHolds(band, analyzer.config, analyzer.rate, analyzer.holdFor, n >= FftSize * Decimation(t))
LEMMA BandMoves ==
  ASSUME AnalyzerHolds, NEW t \in Tiers, NEW n \in Nat, NEW s \in Nat \ {0},
         s <= UntilIn(Decimation(t), HopOf(t), n), NEW now, now = n + s,
         NEW band, BandIs(band, t, n),
         NEW w, DueIn(Decimation(t), HopOf(t), now) => w = NewestOf(now \div Decimation(t)),
         NEW after, after = IF DueIn(Decimation(t), HopOf(t), now)
                            THEN Refreshed(band, w, HopOf(t), now) ELSE band
  PROVE  BandIs(after, t, now)
<1> DEFINE f == FftSize
           d == Decimation(t)
           hop == HopOf(t)
           first == FirstIn(d)
<1>1. f \in Nat \ {0} /\ d \in {1, 4, 16} /\ hop \in Nat \ {0} /\ first = f * d /\ now \in Nat
  BY SpectrumSizes, TierFacts DEF FirstIn
<1>2. first \in Nat \ {0} /\ (now >= first => now \div d >= f) /\ now \div d \in Nat
  <2> HIDE DEF f, d, first
  <2> QED BY <1>1, FillsUp
<1>3. /\ n < first => now <= first /\ (DueIn(d, hop, now) <=> now = first)
      /\ n >= first => /\ DueIn(d, hop, now) => now = LastOf(d, hop, n) + hop
                       /\ ~DueIn(d, hop, now) => LastOf(d, hop, now) = LastOf(d, hop, n)
      /\ DueIn(d, hop, now) => LastOf(d, hop, now) = now /\ now >= first
  <2>1. /\ d \in {1, 4, 16} /\ hop \in Nat \ {0} /\ n \in Nat /\ s \in Nat \ {0} /\ now = n + s
        /\ s <= UntilIn(d, hop, n)
    BY <1>1
  <2> HIDE DEF d, hop
  <2> QED BY ONLY <2>1, DueTimes
<1>4. /\ ShowsWindow(band, d, hop, n)
      /\ PeakHolds(band, analyzer.config, analyzer.rate, analyzer.holdFor, n >= first)
  BY <1>1 DEF BandIs
<1>5. n < first => ~(n >= first)
  BY <1>2
<1>6. n >= first => band.at = LastOf(d, hop, n)
  BY <1>1, <1>2, <1>4 DEF ShowsWindow
<1> HIDE DEF f, d, hop, first
<1>7. CASE DueIn(d, hop, now)
  <2>1. now >= first /\ LastOf(d, hop, now) = now /\ now \div d >= f
    BY <1>2, <1>3, <1>7
  <2>2. after = Refreshed(band, NewestOf(now \div d), hop, now)
    BY <1>7 DEF d, hop
  <2> DEFINE begun == n >= first
             q == now \div d
  <2>3. begun \in BOOLEAN /\ (begun => now = band.at + hop) /\ q \in Nat /\ q >= f
    BY <1>2, <1>3, <1>6, <1>7, <2>1
  <2>4. PeakHolds(band, analyzer.config, analyzer.rate, analyzer.holdFor, begun)
    BY <1>4
  <2> HIDE DEF begun, q
  <2> DEFINE r == Refreshed(band, NewestOf(q), hop, now)
  <2>5. /\ r.window = NewestOf(q) /\ r.at = now
        /\ PeakHolds(r, analyzer.config, analyzer.rate, analyzer.holdFor, TRUE)
    <3>1. /\ AnalyzerHolds /\ begun \in BOOLEAN
          /\ PeakHolds(band, analyzer.config, analyzer.rate, analyzer.holdFor, begun)
          /\ hop \in Nat \ {0} /\ now \in Nat /\ (begun => now = band.at + hop)
          /\ q \in Nat /\ q >= FftSize
      BY <1>1, <2>3, <2>4 DEF f
    <3> QED BY ONLY <3>1, PeakMoves, Zenon
  <2>6. after = r
    BY <2>2 DEF q
  <2> HIDE DEF r
  <2>7. (now >= f * d) \in BOOLEAN /\ (TRUE <=> now >= f * d)
    BY <1>1, <2>1
  <2>8. PeakHolds(after, analyzer.config, analyzer.rate, analyzer.holdFor, now >= f * d)
    BY <2>5, <2>6, <2>7, BegunIs
  <2>9. ~(now < f * d)
    BY <1>1, <1>2, <2>1
  <2>10. after.window = [i \in 1..f |-> (now \div d) - f + i] /\ after.at = now
    BY <2>5, <2>6 DEF NewestOf, q, f
  <2>11. after.window = [i \in 1..f |-> (after.at \div d) - f + i] /\ after.at = LastOf(d, hop, now)
    BY <2>1, <2>10
  <2>12. ShowsWindow(after, d, hop, now)
    BY <2>9, <2>11 DEF ShowsWindow, f
  <2> QED BY <2>8, <2>12 DEF BandIs, f, d, hop
<1>8. CASE ~DueIn(d, hop, now)
  <2>1. after = band
    BY <1>8 DEF d, hop
  <2>2. CASE now < first
    <3>1. n < first /\ ~(now >= first)
      BY <1>1, <1>2, <2>2
    <3>2. band.window = <<>> /\ band.at = 0
      BY <1>1, <1>4, <3>1 DEF ShowsWindow, f
    <3>3. ShowsWindow(band, d, hop, now)
      BY <1>1, <2>2, <3>2 DEF ShowsWindow, f
    <3>4. (n >= first) \in BOOLEAN /\ (now >= first) \in BOOLEAN /\ (n >= first <=> now >= first)
      BY <1>5, <3>1
    <3>5. PeakHolds(band, analyzer.config, analyzer.rate, analyzer.holdFor, now >= first)
      BY <1>4, <3>4, BegunIs
    <3> QED BY <1>1, <2>1, <3>3, <3>5 DEF BandIs, d, hop, f
  <2>3. CASE ~(now < first)
    <3>1. n >= first /\ now >= first /\ ~(n < first)
      BY <1>1, <1>2, <1>3, <1>8, <2>3
    <3>2. LastOf(d, hop, now) = LastOf(d, hop, n)
      BY <1>3, <1>8, <3>1
    <3>3. band.at = LastOf(d, hop, n) /\ band.window = [i \in 1..f |-> (band.at \div d) - f + i]
      BY <1>1, <1>4, <3>1 DEF ShowsWindow, f
    <3>4. ShowsWindow(band, d, hop, now)
      BY <1>1, <2>3, <3>2, <3>3 DEF ShowsWindow, f
    <3>5. (n >= first) \in BOOLEAN /\ (now >= first) \in BOOLEAN /\ (n >= first <=> now >= first)
      BY <3>1
    <3>6. PeakHolds(band, analyzer.config, analyzer.rate, analyzer.holdFor, now >= first)
      BY <1>4, <3>5, BegunIs
    <3> QED BY <1>1, <2>1, <3>4, <3>6 DEF BandIs, d, hop, f
  <2> QED BY <2>2, <2>3
<1> QED BY <1>7, <1>8

\* What nothing was streamed to.
LEMMA FreshTier ==
  ASSUME NEW d \in {1, 4, 16}, NEW hop \in Nat \ {0}, NEW tier, DOMAIN tier = TierParts,
         DOMAIN tier.ring = 0..FftSize - 1, tier.pos = 0, tier.filled = 0, tier.since = 0
  PROVE  TierHolds(tier, d, hop, 0)
<1> DEFINE f == FftSize
<1>1. f \in Nat \ {0}
  BY SpectrumSizes
<1>2. 0 \div d = 0 /\ 0 % f = 0 /\ 0 < f * d
  BY <1>1
<1>3. RingKeeps(tier.ring, 0)
  <2>1. \A p \in 0 - f + 1..0 : ~(p > 0)
    BY <1>1
  <2> QED BY <2>1 DEF RingKeeps
<1> QED BY <1>2, <1>3 DEF TierHolds, TierParts

LEMMA FreshChain == \A c : (c = [s \in 1..4 |-> NewDecimator]) => ChainIs(c, 0)
<1> SUFFICES ASSUME NEW c, c = [s \in 1..4 |-> NewDecimator] PROVE ChainIs(c, 0)
  OBVIOUS
<1> DEFINE e == EvenHistory
           o == OddHistory
           d == NewDecimator
           evens == [i \in 1..e |-> 0]
           odds == [i \in 1..o |-> 0]
<1>1. e \in Nat \ {0} /\ o \in Nat \ {0}
  BY SpectrumSizes
<1>2. d.pending = <<>> /\ d.even = evens /\ d.odd = odds
  BY DEF NewDecimator
<1> HIDE DEF e, o, d
<1>3. evens \in Seq(Nat) /\ Len(evens) = e /\ \A i \in 1..e : evens[i] = 0
  BY <1>1
<1>4. odds \in Seq(Nat) /\ Len(odds) = o /\ \A i \in 1..o : odds[i] = 0
  BY <1>1
<1> HIDE DEF evens, odds
<1>5. \A i \in 1..e : Atleast0(2 * ((0 \div 2) - e + i) - 1) = 0
  <2> SUFFICES ASSUME NEW i \in 1..e PROVE Atleast0(2 * ((0 \div 2) - e + i) - 1) = 0
    OBVIOUS
  <2>1. 2 * ((0 \div 2) - e + i) - 1 < 0
    BY <1>1
  <2> QED BY <2>1 DEF Atleast0
<1>6. \A i \in 1..o : Atleast0(2 * ((0 \div 2) - o + i)) = 0
  <2> SUFFICES ASSUME NEW i \in 1..o PROVE Atleast0(2 * ((0 \div 2) - o + i)) = 0
    OBVIOUS
  <2>1. 2 * ((0 \div 2) - o + i) <= 0
    BY <1>1
  <2> QED BY <1>1, <2>1 DEF Atleast0
<1>7. ~(0 % 2 = 1)
  OBVIOUS
<1>8. DecimatorHolds(d, 0)
  BY <1>2, <1>3, <1>4, <1>5, <1>6, <1>7 DEF DecimatorHolds, e, o
<1>9. c[1] = d /\ c[2] = d /\ c[3] = d /\ c[4] = d
  BY DEF d
<1>10. 0 \div 2 = 0 /\ 0 \div 4 = 0 /\ 0 \div 8 = 0
  OBVIOUS
<1> QED BY <1>8, <1>9, <1>10 DEF ChainIs

LEMMA FreshBand ==
  ASSUME NEW config \in Analyzers, ValidConfig(config), NEW rate \in RatesInUse, NEW hf \in Nat,
         NEW d \in {1, 4, 16}, NEW hop
  PROVE  /\ ShowsWindow(Quiet(config), d, hop, 0)
         /\ PeakHolds(Quiet(config), config, rate, hf, 0 >= FftSize * d)
<1> DEFINE band == Quiet(config)
           f == FftSize
           low == config.low
<1>1. f \in Nat \ {0} /\ low \in Int
  BY SpectrumSizes, ConfigTypes
<1>2. 0 < f * d /\ ~(0 >= f * d)
  BY <1>1
<1>3. band = [window |-> <<>>, at |-> 0, smooth |-> low, peak |-> low, hold |-> 0, top |-> low, topAt |-> 0]
  BY DEF Quiet
<1> HIDE DEF band, low
<1>4. /\ DOMAIN band = BandParts /\ band.window = <<>> /\ band.at = 0 /\ band.smooth = low /\ band.peak = low
      /\ band.hold = 0 /\ band.top = low /\ band.topAt = 0
  BY <1>3 DEF BandParts
<1>5. low - DecayOf(rate, Atleast0(0 - hf)) = low
  BY <1>1, NothingFalls
<1>6. 0 - 0 = 0
  OBVIOUS
<1>7. band.peak = band.top - DecayOf(rate, Atleast0(band.at - band.topAt - hf))
  BY <1>4, <1>5, <1>6
<1>8. ~(0 >= f * d) => band = [window |-> band.window, at |-> 0, smooth |-> config.low, peak |-> config.low,
                               hold |-> 0, top |-> config.low, topAt |-> 0]
  BY <1>3, <1>4 DEF low
<1>9. low >= low /\ 0 <= 0
  BY <1>1
<1>10. PeakHolds(band, config, rate, hf, 0 >= f * d)
  BY <1>1, <1>2, <1>4, <1>7, <1>8, <1>9 DEF PeakHolds, BandParts
<1>11. ShowsWindow(band, d, hop, 0)
  BY <1>2, <1>4 DEF ShowsWindow, f
<1> QED BY <1>10, <1>11 DEF band, f

-----------------------------------------------------------------------------
\* The invariant, of a tier, and what it means.
LEMMA ChainMeans == ChainHolds <=> (Multi => ChainIs(chain, consumed))
BY DEF ChainHolds, ChainIs

LEMMA BandsMean == BandsHold <=> DOMAIN bands = Tiers /\ \A t \in Tiers : BandIs(bands[t], t, consumed)
BY DEF BandsHold, BandIs

LEMMA InvMeans ==
  ASSUME SpectrumInv
  PROVE  SpectrumIsExact
<1>1. AnalyzerHolds /\ BandsHold /\ PushingHolds
  BY DEF SpectrumInv
<1>2. FftSize \in Nat \ {0}
  BY SpectrumSizes
<1>3. ASSUME NEW t \in Tiers
      PROVE  /\ FirstDue(t) = FftSize * Decimation(t) /\ FirstDue(t) \in Nat
             /\ consumed < FirstDue(t) => bands[t].window = <<>>
             /\ ~(consumed < FirstDue(t)) =>
                  LET newest == LastDue(t) \div Decimation(t)
                  IN bands[t].at = LastDue(t) /\ bands[t].window = [i \in 1..FftSize |-> newest - FftSize + i]
             /\ ~(consumed < FirstDue(t)) => bands[t].window # <<>>
  <2>1. ShowsWindow(bands[t], Decimation(t), HopOf(t), consumed)
    BY <1>1 DEF BandsHold
  <2>2. /\ FirstDue(t) = FftSize * Decimation(t) /\ LastDue(t) = LastOf(Decimation(t), HopOf(t), consumed)
    BY DueIs DEF FirstIn
  <2>3. Decimation(t) \in {1, 4, 16}
    BY <1>1, TierFacts
  <2>4. FftSize * Decimation(t) \in Nat
    BY <1>2, <2>3
  <2>5. ~(consumed < FirstDue(t)) =>
          /\ bands[t].at = LastDue(t)
          /\ bands[t].window = [i \in 1..FftSize |-> (bands[t].at \div Decimation(t)) - FftSize + i]
    BY <2>1, <2>2 DEF ShowsWindow
  <2>6. ASSUME ~(consumed < FirstDue(t)) PROVE bands[t].window # <<>>
    <3>1. DOMAIN bands[t].window = 1..FftSize
      BY <2>5, <2>6
    <3>2. 1 \in 1..FftSize /\ 1 \notin DOMAIN <<>>
      BY <1>2
    <3> QED BY <3>1, <3>2
  <2>7. consumed < FirstDue(t) => bands[t].window = <<>>
    BY <2>1, <2>2 DEF ShowsWindow
  <2> QED BY <2>2, <2>4, <2>5, <2>6, <2>7
<1>4. valid = \E t \in Tiers : bands[t].window # <<>>
  <2>1. consumed \in Nat /\ valid = \E t \in Tiers : consumed >= FftSize * Decimation(t)
    BY <1>1 DEF PushingHolds
  <2>2. ASSUME NEW t \in Tiers PROVE consumed >= FftSize * Decimation(t) <=> bands[t].window # <<>>
    <3>1. consumed >= FftSize * Decimation(t) <=> ~(consumed < FirstDue(t))
      <4> DEFINE first == FirstDue(t)
      <4>1. first \in Nat /\ FftSize * Decimation(t) = first
        BY <1>3
      <4> HIDE DEF first
      <4>2. consumed >= first <=> ~(consumed < first)
        BY <2>1, <4>1
      <4> QED BY <4>1, <4>2 DEF first
    <3> QED BY <1>3, <3>1
  <2>3. (\E t \in Tiers : consumed >= FftSize * Decimation(t)) <=> (\E t \in Tiers : bands[t].window # <<>>)
    BY <2>2, Zenon
  <2> QED BY <2>1, <2>3, Zenon
<1>5. pushing.published = Cardinality({n \in pushing.from + 1..consumed : \E t \in Tiers : DueAt(t, n)})
  BY <1>1 DEF PushingHolds, DuePositions
<1>6. SpectraAreDue
  <2>1. \A t \in Tiers :
          IF consumed < FirstDue(t) THEN bands[t].window = <<>>
          ELSE LET newest == LastDue(t) \div Decimation(t)
               IN bands[t].at = LastDue(t) /\ bands[t].window = [i \in 1..FftSize |-> newest - FftSize + i]
    BY <1>3
  <2> QED BY <1>4, <1>5, <2>1, Zenon DEF SpectraAreDue
<1>7. PeaksKeepTime
  <2> SUFFICES ASSUME NEW t \in Tiers
               PROVE  /\ bands[t].peak >= bands[t].smooth
                      /\ analyzer.config.hold > 0 => bands[t].peak = Expected(bands[t], bands[t].at)
    BY DEF PeaksKeepTime
  <2>1. PeakHolds(bands[t], analyzer.config, analyzer.rate, analyzer.holdFor,
                  consumed >= FftSize * Decimation(t))
    BY <1>1 DEF BandsHold
  <2> QED BY <2>1 DEF PeakHolds, Expected
<1>8. BandsCoverSpectrum
  BY <1>1, BandsCover
<1> QED BY <1>6, <1>7, <1>8 DEF SpectrumIsExact

-----------------------------------------------------------------------------
\* A call that begins has published nothing.
CallBegins == pushing.from = consumed /\ consumed \in Nat
LEMMA NothingDue == CallBegins => Cardinality(DuePositions) = 0
<1> SUFFICES ASSUME CallBegins PROVE Cardinality(DuePositions) = 0
  OBVIOUS
<1>1. DuePositions = {}
  BY DEF DuePositions, CallBegins
<1> QED BY <1>1, FS_EmptySet

LEMMA BeginsAnalyzer ==
  ASSUME SpectrumInit
  PROVE  AnalyzerHolds /\ consumed = 0 /\ pushing = [left |-> 0, published |-> 0, from |-> 0]
         /\ valid = FALSE /\ chain = [s \in 1..4 |-> NewDecimator]
         /\ tiers = [t \in Tiers |-> NewTier] /\ bands = [t \in Tiers |-> Quiet(analyzer.config)]
<1>1. PICK config \in {c \in Analyzers : ValidConfig(c)} :
        /\ analyzer = [config |-> config, rate |-> config.rate, binRate |-> config.rate,
                       holdFor |-> HoldSamples(config, config.rate)]
        /\ tiers = [t \in 1..Len(Decimations(config)) |-> NewTier]
        /\ bands = [t \in 1..Len(Decimations(config)) |-> Quiet(config)]
  BY Zenon DEF SpectrumInit
<1>2. config \in Analyzers /\ ValidConfig(config)
  OBVIOUS
<1>3. /\ DOMAIN analyzer = {"config", "rate", "binRate", "holdFor"} /\ analyzer.config = config
      /\ analyzer.rate = config.rate /\ analyzer.binRate = config.rate
      /\ analyzer.holdFor = HoldSamples(config, config.rate)
  BY <1>1
<1>4. config.rate \in RatesInUse /\ config.hold \in Nat /\ config.rate \in Nat
  BY <1>2, ConfigTypes DEF RatesInUse
<1>5. HoldSamples(config, config.rate) \in Nat
  BY <1>4, HoldIs
<1>6. AnalyzerHolds
  BY <1>2, <1>3, <1>4, <1>5 DEF AnalyzerHolds
<1>7. tiers = [t \in Tiers |-> NewTier] /\ bands = [t \in Tiers |-> Quiet(analyzer.config)]
  BY <1>1, <1>3 DEF Tiers
<1>8. consumed = 0 /\ pushing = [left |-> 0, published |-> 0, from |-> 0] /\ valid = FALSE
      /\ chain = [s \in 1..4 |-> NewDecimator]
  BY Zenon DEF SpectrumInit
<1> QED BY <1>6, <1>7, <1>8

\* What holds when what was streamed is forgotten.
NothingStreamed ==
  /\ AnalyzerHolds /\ consumed = 0 /\ pushing.from = 0 /\ pushing.published = 0 /\ pushing.left \in Nat
  /\ DOMAIN pushing = {"left", "published", "from"} /\ valid = FALSE
  /\ chain = [s \in 1..4 |-> NewDecimator] /\ DOMAIN tiers = Tiers
  /\ \A t \in Tiers : /\ DOMAIN tiers[t] = TierParts /\ DOMAIN tiers[t].ring = 0..FftSize - 1
                       /\ tiers[t].pos = 0 /\ tiers[t].filled = 0 /\ tiers[t].since = 0
  /\ bands = [t \in Tiers |-> Quiet(analyzer.config)]
LEMMA Forgotten == NothingStreamed => SpectrumInv
<1> SUFFICES
      ASSUME AnalyzerHolds, consumed = 0, pushing.from = 0, pushing.published = 0, pushing.left \in Nat,
             DOMAIN pushing = {"left", "published", "from"}, valid = FALSE,
             chain = [s \in 1..4 |-> NewDecimator], DOMAIN tiers = Tiers,
             \A t \in Tiers : /\ DOMAIN tiers[t] = TierParts /\ DOMAIN tiers[t].ring = 0..FftSize - 1
                              /\ tiers[t].pos = 0 /\ tiers[t].filled = 0 /\ tiers[t].since = 0,
             bands = [t \in Tiers |-> Quiet(analyzer.config)]
      PROVE  SpectrumInv
  BY Zenon DEF NothingStreamed
<1>1. TiersHold
  <2>1. ASSUME NEW t \in Tiers PROVE TierHolds(tiers[t], Decimation(t), HopOf(t), consumed)
    <3>1. Decimation(t) \in {1, 4, 16} /\ HopOf(t) \in Nat \ {0}
      BY TierFacts
    <3> QED BY <3>1, FreshTier
  <2> QED BY <2>1 DEF TiersHold
<1>2. ChainHolds
  <2>1. ChainIs(chain, consumed)
    BY FreshChain
  <2> QED BY <2>1, ChainMeans
<1>3. BandsHold
  <2>1. ASSUME NEW t \in Tiers PROVE BandIs(bands[t], t, consumed)
    <3>1. Decimation(t) \in {1, 4, 16} /\ HopOf(t) \in Nat \ {0}
      BY TierFacts
    <3>2. analyzer.config \in Analyzers /\ ValidConfig(analyzer.config) /\ analyzer.rate \in RatesInUse
          /\ analyzer.holdFor \in Nat
      BY DEF AnalyzerHolds
    <3>3. bands[t] = Quiet(analyzer.config)
      OBVIOUS
    <3> QED BY <3>1, <3>2, <3>3, FreshBand DEF BandIs
  <2>2. DOMAIN bands = Tiers
    OBVIOUS
  <2> QED BY <2>1, <2>2, BandsMean
<1>4. PushingHolds
  <2>1. pushing.published = Cardinality(DuePositions)
    BY NothingDue DEF CallBegins
  <2>2. ASSUME NEW t \in Tiers PROVE ~(consumed >= FftSize * Decimation(t))
    <3>1. Decimation(t) \in {1, 4, 16} /\ FftSize \in Nat \ {0}
      BY TierFacts, SpectrumSizes
    <3> QED BY <3>1
  <2>3. valid = \E t \in Tiers : consumed >= FftSize * Decimation(t)
    <3>1. ~(\E t \in Tiers : consumed >= FftSize * Decimation(t))
      BY <2>2, Zenon
    <3> QED BY <3>1, Zenon
  <2> QED BY <2>1, <2>3 DEF PushingHolds
<1> QED BY <1>1, <1>2, <1>3, <1>4 DEF SpectrumInv

LEMMA SpectrumBegins == SpectrumInit => SpectrumInv
<1> SUFFICES ASSUME SpectrumInit PROVE SpectrumInv
  OBVIOUS
<1>1. AnalyzerHolds /\ consumed = 0 /\ pushing = [left |-> 0, published |-> 0, from |-> 0]
      /\ valid = FALSE /\ chain = [s \in 1..4 |-> NewDecimator]
      /\ tiers = [t \in Tiers |-> NewTier] /\ bands = [t \in Tiers |-> Quiet(analyzer.config)]
  BY BeginsAnalyzer
<1>2. DOMAIN pushing = {"left", "published", "from"} /\ pushing.from = 0 /\ pushing.published = 0
      /\ pushing.left \in Nat
  BY <1>1
<1>3. DOMAIN tiers = Tiers
  BY <1>1
<1>4. \A t \in Tiers : /\ DOMAIN tiers[t] = TierParts /\ DOMAIN tiers[t].ring = 0..FftSize - 1
                       /\ tiers[t].pos = 0 /\ tiers[t].filled = 0 /\ tiers[t].since = 0
  <2>1. /\ DOMAIN NewTier = TierParts /\ DOMAIN NewTier.ring = 0..FftSize - 1
        /\ NewTier.pos = 0 /\ NewTier.filled = 0 /\ NewTier.since = 0
    BY DEF NewTier, TierParts
  <2> QED BY <1>1, <2>1
<1> QED BY <1>1, <1>2, <1>3, <1>4, Forgotten, Zenon DEF NothingStreamed

-----------------------------------------------------------------------------
\* A call is made.
LEMMA PushKeeps ==
  ASSUME SpectrumInv, Push
  PROVE  SpectrumInv'
<1>1. AnalyzerHolds /\ TiersHold /\ ChainHolds /\ BandsHold /\ PushingHolds
  BY DEF SpectrumInv
<1>2. UNCHANGED <<analyzer, tiers, chain, consumed, valid, bands>>
  BY DEF Push
<1>3. PICK size \in PushSizes : pushing' = Start(size, consumed)
  BY DEF Push
<1>4. size \in Nat
  <2>1. PushSizes \cup AnalyzeRates \subseteq Nat
    BY SpectrumAssumption, Zenon
  <2> QED BY <2>1
<1>5. /\ DOMAIN pushing' = {"left", "published", "from"} /\ pushing'.left = size
      /\ pushing'.published = 0 /\ pushing'.from = consumed
  BY <1>3 DEF Start
<1>6. AnalyzerHolds' /\ TiersHold' /\ ChainHolds' /\ BandsHold'
  <2>1. AnalyzerHolds'
    BY <1>1, <1>2 DEF AnalyzerHolds
  <2>2. TiersHold'
    BY <1>1, <1>2 DEF TiersHold, Tiers, Decimation, HopOf
  <2>3. ChainHolds'
    BY <1>1, <1>2 DEF ChainHolds, Multi
  <2>4. BandsHold'
    BY <1>1, <1>2 DEF BandsHold, Tiers, Decimation, HopOf
  <2> QED BY <2>1, <2>2, <2>3, <2>4
<1>7. consumed \in Nat /\ valid = \E t \in Tiers : consumed >= FftSize * Decimation(t)
  BY <1>1 DEF PushingHolds
<1>8. Cardinality(DuePositions)' = 0
  <2>1. CallBegins'
    BY <1>2, <1>5, <1>7 DEF CallBegins
  <2>2. (Cardinality(DuePositions) = 0)'
    BY <2>1, NothingDue, PTL
  <2> QED BY <2>2
<1>9. PushingHolds'
  <2>1. (DOMAIN pushing = {"left", "published", "from"} /\ {pushing.left, pushing.from} \subseteq Nat)'
    BY <1>4, <1>5, <1>7
  <2>2. (consumed \in Nat /\ pushing.from <= consumed /\ pushing.published = Cardinality(DuePositions))'
    BY <1>2, <1>5, <1>7, <1>8
  <2>3. (valid = \E t \in Tiers : consumed >= FftSize * Decimation(t))'
    BY <1>2, <1>7 DEF Tiers, Decimation
  <2> QED BY <2>1, <2>2, <2>3 DEF PushingHolds
<1> QED BY <1>6, <1>9 DEF SpectrumInv

\* What was streamed is forgotten.
LEMMA AnalyzeKeeps ==
  ASSUME SpectrumInv, Analyze
  PROVE  SpectrumInv'
<1>1. AnalyzerHolds /\ TiersHold
  BY DEF SpectrumInv
<1>2. PICK rate \in AnalyzeRates, size \in PushSizes :
        /\ rate > MinRate /\ (Multi => rate = analyzer.rate)
        /\ analyzer' = IF Multi THEN analyzer
                       ELSE [analyzer EXCEPT !.rate = rate, !.binRate = rate,
                                             !.holdFor = HoldSamples(analyzer.config, rate)]
        /\ pushing' = Start(IF Multi THEN size ELSE Lower(size, FftSize), 0)
  BY Zenon DEF Analyze
<1>3. /\ tiers' = [t \in Tiers |-> Warming(tiers[t])] /\ chain' = [s \in 1..4 |-> NewDecimator]
      /\ bands' = [t \in Tiers |-> Quiet(analyzer.config)] /\ valid' = FALSE /\ consumed' = 0
  BY Zenon DEF Analyze
<1>4. size \in Nat /\ rate \in Nat /\ rate \in RatesInUse
  <2>1. PushSizes \cup AnalyzeRates \subseteq Nat
    BY SpectrumAssumption, Zenon
  <2>2. rate \in RatesInUse
    BY <1>2 DEF RatesInUse
  <2> QED BY <2>1, <2>2
<1>5. /\ DOMAIN analyzer = {"config", "rate", "binRate", "holdFor"}
      /\ analyzer.config \in Analyzers /\ ValidConfig(analyzer.config)
      /\ analyzer.rate \in RatesInUse /\ analyzer.binRate = analyzer.rate /\ analyzer.holdFor \in Nat
  BY <1>1 DEF AnalyzerHolds
<1>6. HoldSamples(analyzer.config, rate) \in Nat
  <2>1. analyzer.config.hold \in Nat
    BY <1>5, ConfigTypes
  <2> QED BY <1>4, <2>1, HoldIs
<1>7. /\ DOMAIN analyzer' = {"config", "rate", "binRate", "holdFor"}
      /\ analyzer'.config = analyzer.config
      /\ analyzer'.rate \in RatesInUse /\ analyzer'.binRate = analyzer'.rate /\ analyzer'.holdFor \in Nat
  <2>1. CASE Multi
    BY <1>2, <1>5, <2>1
  <2>2. CASE ~Multi
    <3> DEFINE hold == HoldSamples(analyzer.config, rate)
    <3>1. analyzer' = [analyzer EXCEPT !.rate = rate, !.binRate = rate, !.holdFor = hold] /\ hold \in Nat
      BY <1>2, <1>6, <2>2
    <3> HIDE DEF hold
    <3>2. DOMAIN analyzer' = DOMAIN analyzer /\ analyzer'.config = analyzer.config
          /\ analyzer'.rate = rate /\ analyzer'.binRate = rate /\ analyzer'.holdFor = hold
      BY <1>5, <3>1
    <3> QED BY <1>4, <1>5, <3>1, <3>2
  <2> QED BY <2>1, <2>2
<1>8. AnalyzerHolds'
  <2>1. RatesInUse' = RatesInUse
    BY DEF RatesInUse
  <2>2. ValidConfig(analyzer.config)'
    BY <1>5, <1>7 DEF ValidConfig
  <2>3. (DOMAIN analyzer = {"config", "rate", "binRate", "holdFor"} /\ analyzer.config \in Analyzers)'
    BY <1>5, <1>7
  <2>4. (analyzer.rate \in RatesInUse /\ analyzer.binRate = analyzer.rate /\ analyzer.holdFor \in Nat)'
    BY <1>7, <2>1
  <2> QED BY <2>2, <2>3, <2>4 DEF AnalyzerHolds
<1>9. Tiers' = Tiers
  BY <1>7 DEF Tiers
<1>10. (consumed = 0 /\ pushing.from = 0 /\ pushing.published = 0 /\ pushing.left \in Nat
        /\ DOMAIN pushing = {"left", "published", "from"} /\ valid = FALSE
        /\ chain = [s \in 1..4 |-> NewDecimator] /\ DOMAIN tiers = Tiers)'
  <2> DEFINE left == IF Multi THEN size ELSE Lower(size, FftSize)
  <2>1. left \in Nat
    <3>1. FftSize \in Nat
      BY SpectrumSizes
    <3> QED BY <1>4, <3>1 DEF Lower
  <2>2. pushing' = [left |-> left, published |-> 0, from |-> 0]
    BY <1>2 DEF Start
  <2> HIDE DEF left
  <2>3. DOMAIN pushing' = {"left", "published", "from"} /\ pushing'.left = left /\ pushing'.from = 0
        /\ pushing'.published = 0
    BY <2>2
  <2>4. (DOMAIN tiers = Tiers)'
    BY <1>3, <1>9
  <2>5. (chain = [s \in 1..4 |-> NewDecimator])'
    BY <1>3
  <2> QED BY <1>3, <2>1, <2>3, <2>4, <2>5
<1>11. (\A t \in Tiers : /\ DOMAIN tiers[t] = TierParts /\ DOMAIN tiers[t].ring = 0..FftSize - 1
                         /\ tiers[t].pos = 0 /\ tiers[t].filled = 0 /\ tiers[t].since = 0)'
  <2>1. ASSUME NEW t \in Tiers
        PROVE  /\ DOMAIN tiers'[t] = TierParts /\ DOMAIN tiers'[t].ring = 0..FftSize - 1
               /\ tiers'[t].pos = 0 /\ tiers'[t].filled = 0 /\ tiers'[t].since = 0
    <3> DEFINE tier == tiers[t]
    <3>1. DOMAIN tier = TierParts /\ DOMAIN tier.ring = 0..FftSize - 1
      BY <1>1 DEF TiersHold, TierHolds, RingKeeps, TierParts
    <3>2. tiers'[t] = [tier EXCEPT !.pos = 0, !.filled = 0, !.since = 0]
      BY <1>3 DEF Warming
    <3> HIDE DEF tier
    <3> QED BY <3>1, <3>2 DEF TierParts
  <2> QED BY <1>9, <2>1
<1>12. (bands = [t \in Tiers |-> Quiet(analyzer.config)])'
  <2>1. Quiet(analyzer'.config) = Quiet(analyzer.config)
    BY <1>7
  <2> QED BY <1>3, <1>9, <2>1 DEF Quiet
<1>13. NothingStreamed'
  BY <1>8, <1>10, <1>11, <1>12, Zenon DEF NothingStreamed
<1> QED BY <1>13, Forgotten, PTL

-----------------------------------------------------------------------------
\* A step of a call.
LEMMA InputIs ==
  ASSUME NEW n \in Nat, NEW s \in Nat
  PROVE  Run([i \in 1..s |-> n + i], n, s)
<1> DEFINE u == [i \in 1..s |-> n + i]
<1>1. u \in [1..s -> Nat] /\ DOMAIN u = 1..s /\ \A k \in 1..s : u[k] = n + k
  OBVIOUS
<1> HIDE DEF u
<1>2. u \in Seq(Nat)
  BY <1>1
<1>3. Len(u) = s
  BY <1>1, <1>2, LenProperties
<1>4. Run(u, n, s)
  BY <1>1, <1>2, <1>3 DEF Run
<1> QED BY <1>4 DEF u

FeedsOf(input) == IF Multi THEN Chained(input).outs ELSE <<input>>
LEMMA FeedsRun ==
  ASSUME AnalyzerHolds, ChainHolds, consumed \in Nat, NEW s \in Nat, NEW now, now = consumed + s,
         NEW input, Run(input, consumed, s)
  PROVE  /\ \A t \in Tiers : Run(FeedsOf(input)[t], consumed \div Decimation(t),
                                 (now \div Decimation(t)) - (consumed \div Decimation(t)))
         /\ Multi => ChainIs(Chained(input).state, now)
<1> DEFINE n == consumed
<1>1. n \in Nat /\ now \in Nat /\ n <= now /\ now - n = s /\ Run(input, n, now - n)
  <2>1. n \in Nat /\ now \in Nat /\ n <= now /\ now - n = s
    OBVIOUS
  <2> QED BY <2>1
<1>2. n \div 1 = n /\ now \div 1 = now
  BY <1>1
<1>3. CASE Multi
  <2>1. ChainIs(chain, n)
    BY <1>3, ChainMeans
  <2> HIDE DEF n
  <2> DEFINE feeds == Chained(input).outs
  <2>2. ChainIs(Chained(input).state, now) /\ FeedsAre(feeds, n, now)
    BY <1>1, <2>1, ChainAdvances
  <2> HIDE DEF feeds
  <2>3. ASSUME NEW t \in Tiers PROVE Run(feeds[t], n \div Decimation(t), (now \div Decimation(t)) - (n \div Decimation(t)))
    <3>1. t \in {1, 2, 3} /\ Decimation(t) = IF t = 1 THEN 1 ELSE IF t = 2 THEN 4 ELSE 16
      BY <1>3, TierFacts
    <3>2. CASE t = 1
      <4>1. Decimation(t) = 1 /\ Run(feeds[t], n, now - n)
        BY <2>2, <3>1, <3>2 DEF FeedsAre
      <4> QED BY <1>2, <4>1 DEF n
    <3>3. CASE t = 2
      <4>1. Decimation(t) = 4 /\ Run(feeds[t], n \div 4, (now \div 4) - (n \div 4))
        BY <2>2, <3>1, <3>3 DEF FeedsAre
      <4> QED BY <4>1
    <3>4. CASE t = 3
      <4>1. Decimation(t) = 16 /\ Run(feeds[t], n \div 16, (now \div 16) - (n \div 16))
        BY <2>2, <3>1, <3>4 DEF FeedsAre
      <4> QED BY <4>1
    <3> QED BY <3>1, <3>2, <3>3, <3>4
  <2> QED BY <1>3, <2>2, <2>3 DEF FeedsOf, feeds, n
<1>4. CASE ~Multi
  <2>1. ASSUME NEW t \in Tiers PROVE Run(FeedsOf(input)[t], n \div Decimation(t), (now \div Decimation(t)) - (n \div Decimation(t)))
    <3>1. t = 1 /\ Decimation(t) = 1
      BY <1>4, TierFacts
    <3>2. FeedsOf(input)[t] = input
      BY <1>4, <3>1 DEF FeedsOf
    <3> QED BY <1>1, <1>2, <3>1, <3>2
  <2> QED BY <1>4, <2>1
<1> QED BY <1>3, <1>4

\* Positions due, after a step in which only the last may be.
LEMMA DueAdds ==
  ASSUME NEW from \in Nat, NEW n \in Nat, from <= n, NEW now \in Nat, n < now,
         NEW D, \A k \in n + 1..now - 1 : k \notin D
  PROVE  LET earlier == {k \in from + 1..n : k \in D}
             after == {k \in from + 1..now : k \in D}
         IN Cardinality(after) = Cardinality(earlier) + IF now \in D THEN 1 ELSE 0
<1> DEFINE earlier == {k \in from + 1..n : k \in D}
           after == {k \in from + 1..now : k \in D}
<1>1. IsFiniteSet(earlier) /\ Cardinality(earlier) \in Nat
  <2>1. IsFiniteSet(from + 1..n)
    BY FS_Interval
  <2>2. earlier \subseteq from + 1..n
    OBVIOUS
  <2>3. IsFiniteSet(earlier)
    BY <2>1, <2>2, FS_Subset
  <2> QED BY <2>3, FS_CardinalityType
<1>2. now \notin earlier
  OBVIOUS
<1>3. ASSUME NEW k \in from + 1..now, k # now, k \in D PROVE k \in from + 1..n
  <2>1. k \in n + 1..now - 1 \/ k \in from + 1..n
    BY <1>3
  <2> QED BY <1>3, <2>1
<1>4. after = IF now \in D THEN earlier \cup {now} ELSE earlier
  <2>1. \A k \in from + 1..n : k \in from + 1..now
    OBVIOUS
  <2>2. now \in from + 1..now
    OBVIOUS
  <2>3. \A k \in after : k = now \/ k \in earlier
    BY <1>3
  <2>4. \A k \in earlier : k \in after
    BY <2>1
  <2>5. now \in D => now \in after
    BY <2>2
  <2>6. now \notin D => now \notin after
    OBVIOUS
  <2> HIDE DEF earlier, after
  <2> QED BY <2>3, <2>4, <2>5, <2>6
<1> HIDE DEF earlier, after
<1>5. Cardinality(after) = Cardinality(earlier) + IF now \in D THEN 1 ELSE 0
  <2>1. CASE now \in D
    <3>1. after = earlier \cup {now}
      BY <1>4, <2>1
    <3>2. Cardinality(earlier \cup {now}) = Cardinality(earlier) + 1
      BY <1>1, <1>2, FS_AddElement
    <3> QED BY <2>1, <3>1, <3>2
  <2>2. CASE now \notin D
    <3>1. after = earlier
      BY <1>4, <2>2
    <3> QED BY <1>1, <2>2, <3>1
  <2> QED BY <2>1, <2>2
<1> QED BY <1>5 DEF earlier, after

DuePlaces == {k \in Nat : \E t \in Tiers : DueAt(t, k)}
LEMMA RoundKeeps ==
  ASSUME SpectrumInv, PushRound
  PROVE  SpectrumInv'
<1> DEFINE s == Stride
           n == consumed
           now == n + s
           input == [i \in 1..s |-> n + i]
           feeds == FeedsOf(input)
           moved == [t \in Tiers |-> Advanced(Written(tiers[t], feeds[t]), t, Len(feeds[t]), s)]
           ready == {t \in Tiers : IF tiers[t].filled < FftSize THEN moved[t].filled = FftSize
                                   ELSE moved[t].since = 0}
<1>1. AnalyzerHolds /\ TiersHold /\ ChainHolds /\ BandsHold /\ PushingHolds
  BY DEF SpectrumInv
<1>2. /\ tiers' = moved
      /\ chain' = IF Multi THEN Chained(input).state ELSE chain
      /\ bands' = [t \in Tiers |-> IF t \in ready
                    THEN Refreshed(bands[t], Window(moved[t]), HopOf(t), now) ELSE bands[t]]
      /\ valid' = (valid \/ ready # {})
      /\ consumed' = now
      /\ pushing' = [pushing EXCEPT !.left = @ - s, !.published = @ + IF ready # {} THEN 1 ELSE 0]
      /\ analyzer' = analyzer /\ ~Resting
  BY DEF PushRound, FeedsOf
<1>3. /\ DOMAIN pushing = {"left", "published", "from"} /\ pushing.left \in Nat /\ pushing.from \in Nat
      /\ n \in Nat /\ pushing.from <= n /\ pushing.published = Cardinality(DuePositions)
      /\ valid = \E t \in Tiers : n >= FftSize * Decimation(t)
  BY <1>1 DEF PushingHolds
<1>4. pushing.left \in Nat \ {0}
  BY <1>2, <1>3 DEF Resting
<1>5. /\ s \in Nat \ {0} /\ s <= pushing.left /\ s <= FftSize
      /\ \A t \in Tiers : s <= UntilEvent(tiers[t], t)
  BY <1>1, <1>3, <1>4, StrideBounds
<1> HIDE DEF s
<1>6. now \in Nat /\ n < now /\ s \in Nat
  BY <1>3, <1>5
<1>7. Run(input, n, s)
  BY <1>3, <1>6, InputIs
<1> HIDE DEF input
<1>8. /\ \A t \in Tiers : Run(feeds[t], n \div Decimation(t), (now \div Decimation(t)) - (n \div Decimation(t)))
      /\ Multi => ChainIs(Chained(input).state, now)
  <2> HIDE DEF feeds
  <2>1. now = consumed + s
    OBVIOUS
  <2> HIDE DEF now
  <2> QED BY <1>1, <1>3, <1>6, <1>7, <2>1, FeedsRun DEF feeds
<1> HIDE DEF feeds
<1>9. ASSUME NEW t \in Tiers
      PROVE  /\ s <= UntilIn(Decimation(t), HopOf(t), n)
             /\ MovedIs(moved[t], tiers[t], t, n, now)
  <2> DEFINE tier == tiers[t]
             samples == feeds[t]
             after == Advanced(Written(tier, samples), t, Len(samples), s)
  <2>1. /\ AnalyzerHolds /\ consumed \in Nat /\ s \in Nat \ {0} /\ s <= FftSize /\ t \in Tiers
        /\ TierHolds(tier, Decimation(t), HopOf(t), consumed) /\ s <= UntilEvent(tier, t)
        /\ now = consumed + s
        /\ Run(samples, consumed \div Decimation(t), (now \div Decimation(t)) - (consumed \div Decimation(t)))
    BY <1>1, <1>3, <1>5, <1>8 DEF TiersHold
  <2>2. moved[t] = after
    OBVIOUS
  <2> HIDE DEF tier, samples, now, moved, after
  <2>3. /\ s <= UntilIn(Decimation(t), HopOf(t), consumed)
        /\ MovedIs(after, tier, t, consumed, now)
    BY ONLY <2>1, TierMoves DEF after
  <2> QED BY <2>2, <2>3 DEF tier
<1>10. ASSUME NEW t \in Tiers PROVE t \in ready <=> DueIn(Decimation(t), HopOf(t), now)
  <2> HIDE DEF moved, now
  <2> QED BY <1>9 DEF MovedIs
<1>11. DOMAIN moved = Tiers
  OBVIOUS
<1> HIDE DEF moved, ready
<1>12. /\ Tiers' = Tiers /\ Multi' = Multi
       /\ \A t : Decimation(t)' = Decimation(t) /\ HopOf(t)' = HopOf(t)
  BY <1>2 DEF Tiers, Multi, Decimation, HopOf
<1>13. AnalyzerHolds'
  BY <1>1, <1>2 DEF AnalyzerHolds
<1>14. TiersHold'
  <2>1. ASSUME NEW t \in Tiers PROVE TierHolds(tiers'[t], Decimation(t), HopOf(t), consumed')
    BY <1>2, <1>9 DEF MovedIs
  <2>2. DOMAIN tiers' = Tiers'
    BY <1>2, <1>11, <1>12
  <2>3. (\A t \in Tiers : TierHolds(tiers[t], Decimation(t), HopOf(t), consumed))'
    BY <1>12, <2>1
  <2> QED BY <2>2, <2>3 DEF TiersHold
<1>15. ChainHolds'
  <2>1. Multi' => ChainIs(chain', consumed')
    BY <1>2, <1>8, <1>12
  <2> QED BY <2>1 DEF ChainHolds, ChainIs
<1>16. BandsHold'
  <2>1. ASSUME NEW t \in Tiers PROVE BandIs(bands'[t], t, now)
    <3> DEFINE band == bands[t]
               w == Window(moved[t])
               after == bands'[t]
               hop == HopOf(t)
    <3>1. after = IF DueIn(Decimation(t), HopOf(t), now) THEN Refreshed(band, w, HopOf(t), now) ELSE band
      BY <1>2, <1>10
    <3>2. BandIs(band, t, n)
      BY <1>1, BandsMean
    <3>3. DueIn(Decimation(t), HopOf(t), now) => w = NewestOf(now \div Decimation(t))
      BY <1>9 DEF MovedIs
    <3>4. /\ AnalyzerHolds /\ t \in Tiers /\ n \in Nat /\ s \in Nat \ {0}
          /\ s <= UntilIn(Decimation(t), HopOf(t), n) /\ now = n + s
      BY <1>1, <1>3, <1>5, <1>9
    <3> HIDE DEF band, w, after, now, n
    <3>5. BandIs(after, t, now)
      BY ONLY <3>1, <3>2, <3>3, <3>4, BandMoves
    <3> QED BY <3>5 DEF after
  <2>2. DOMAIN bands' = Tiers'
    BY <1>2, <1>12
  <2>3. ASSUME NEW t \in Tiers
        PROVE  /\ ShowsWindow(bands'[t], Decimation(t), HopOf(t), consumed')
               /\ PeakHolds(bands'[t], analyzer'.config, analyzer'.rate, analyzer'.holdFor,
                            consumed' >= FftSize * Decimation(t))
    BY <1>2, <2>1 DEF BandIs
  <2>4. (\A t \in Tiers :
           /\ ShowsWindow(bands[t], Decimation(t), HopOf(t), consumed)
           /\ PeakHolds(bands[t], analyzer.config, analyzer.rate, analyzer.holdFor,
                        consumed >= FftSize * Decimation(t)))'
    BY <1>12, <2>3
  <2> QED BY <2>2, <2>4 DEF BandsHold
<1>17. ASSUME NEW t \in Tiers
       PROVE  /\ now >= FftSize * Decimation(t) <=> n >= FftSize * Decimation(t) \/ t \in ready
              /\ \A k \in n + 1..now - 1 : ~DueAt(t, k)
              /\ t \in ready <=> DueAt(t, now)
  <2> DEFINE d == Decimation(t)
             hop == HopOf(t)
             first == FirstIn(d)
  <2>1. d \in {1, 4, 16} /\ hop \in Nat \ {0} /\ FftSize \in Nat \ {0} /\ first = FftSize * d
    BY <1>1, TierFacts, SpectrumSizes DEF FirstIn
  <2>2. first \in Nat
    <3> HIDE DEF d, first
    <3> QED BY <2>1
  <2>3. s <= UntilIn(d, hop, n)
    BY <1>9
  <2>4. /\ n < first => now <= first /\ (DueIn(d, hop, now) <=> now = first)
        /\ DueIn(d, hop, now) => now >= first
        /\ \A k \in n + 1..now - 1 : ~DueIn(d, hop, k)
    <3>1. /\ d \in {1, 4, 16} /\ hop \in Nat \ {0} /\ n \in Nat /\ s \in Nat \ {0}
          /\ s <= UntilIn(d, hop, n)
      BY <1>3, <1>5, <2>1, <2>3
    <3> HIDE DEF d, hop, n
    <3> QED BY ONLY <3>1, DueTimes
  <2>5. \A k : DueAt(t, k) <=> DueIn(d, hop, k)
    BY DueIs
  <2>6. t \in ready <=> DueIn(d, hop, now)
    BY <1>10
  <2> HIDE DEF d, hop, first
  <2>7. now >= first <=> n >= first \/ DueIn(d, hop, now)
    BY <1>3, <1>6, <2>2, <2>4
  <2> QED BY <2>1, <2>4, <2>5, <2>6, <2>7 DEF d
<1>18. valid' = \E t \in Tiers : now >= FftSize * Decimation(t)
  <2>1. valid' <=> \E t \in Tiers : n >= FftSize * Decimation(t) \/ t \in ready
    <3>1. ready # {} <=> \E t \in Tiers : t \in ready
      BY DEF ready
    <3>2. valid' <=> (valid \/ ready # {})
      BY <1>2
    <3>3. valid <=> \E t \in Tiers : n >= FftSize * Decimation(t)
      BY <1>3
    <3> QED BY <3>1, <3>2, <3>3, Zenon
  <2>2. valid' <=> \E t \in Tiers : now >= FftSize * Decimation(t)
    BY <1>17, <2>1, Zenon
  <2>3. valid' \in BOOLEAN
    BY <1>2
  <2> QED BY <2>2, <2>3, Zenon
<1>19. Cardinality({k \in pushing.from + 1..now : \E t \in Tiers : DueAt(t, k)})
       = pushing.published + IF ready # {} THEN 1 ELSE 0
  <2> DEFINE D == DuePlaces
             from == pushing.from
             earlier == {k \in from + 1..n : k \in D}
             after == {k \in from + 1..now : k \in D}
  <2>1. \A k \in n + 1..now - 1 : k \notin D
    BY <1>17 DEF DuePlaces
  <2>2. now \in D <=> ready # {}
    <3>1. now \in D <=> \E t \in Tiers : DueAt(t, now)
      BY <1>6 DEF DuePlaces
    <3>2. (\E t \in Tiers : DueAt(t, now)) <=> \E t \in Tiers : t \in ready
      BY <1>17, Zenon
    <3>3. ready # {} <=> \E t \in Tiers : t \in ready
      BY DEF ready
    <3> QED BY <3>1, <3>2, <3>3
  <2>3. earlier = DuePositions /\ after = {k \in from + 1..now : \E t \in Tiers : DueAt(t, k)}
    <3>1. \A k \in from + 1..n : k \in Nat
      BY <1>3
    <3>2. \A k \in from + 1..now : k \in Nat
      BY <1>3, <1>6
    <3> HIDE DEF now
    <3>3. earlier = {k \in from + 1..n : \E t \in Tiers : DueAt(t, k)}
      BY <3>1 DEF DuePlaces
    <3>4. after = {k \in from + 1..now : \E t \in Tiers : DueAt(t, k)}
      BY <3>2 DEF DuePlaces
    <3> QED BY <3>3, <3>4 DEF DuePositions
  <2>4. /\ from \in Nat /\ n \in Nat /\ from <= n /\ now \in Nat /\ n < now
    BY <1>3, <1>6
  <2> HIDE DEF D, from, n, now
  <2>5. Cardinality(after) = Cardinality(earlier) + IF now \in D THEN 1 ELSE 0
    BY ONLY <2>1, <2>4, DueAdds
  <2> QED BY <1>3, <2>2, <2>3, <2>5 DEF from, now
<1>20. PushingHolds'
  <2>1. /\ DOMAIN pushing' = {"left", "published", "from"} /\ pushing'.left = pushing.left - s
        /\ pushing'.from = pushing.from
        /\ pushing'.published = pushing.published + IF ready # {} THEN 1 ELSE 0
    BY <1>2, <1>3
  <2>2. pushing'.left \in Nat /\ pushing'.from \in Nat
    BY <1>3, <1>5, <2>1
  <2>3. consumed' \in Nat /\ pushing'.from <= consumed'
    BY <1>2, <1>3, <1>6, <2>1
  <2>4. DuePositions' = {k \in pushing.from + 1..now : \E t \in Tiers : DueAt(t, k)}
    <3>1. \A t, k : DueAt(t, k)' <=> DueAt(t, k)
      BY <1>12 DEF DueAt, FirstDue
    <3>2. DuePositions' = {k \in pushing'.from + 1..consumed' : \E t \in Tiers' : DueAt(t, k)'}
      BY DEF DuePositions
    <3> HIDE DEF now
    <3> QED BY <1>2, <1>12, <2>1, <3>1, <3>2
  <2>5. pushing'.published = Cardinality(DuePositions')
    BY <1>19, <2>1, <2>4
  <2>6. (valid = \E t \in Tiers : consumed >= FftSize * Decimation(t))'
    BY <1>2, <1>12, <1>18
  <2> QED BY <2>1, <2>2, <2>3, <2>5, <2>6 DEF PushingHolds
<1> QED BY <1>13, <1>14, <1>15, <1>16, <1>20 DEF SpectrumInv

\* However calls cut the stream and whatever was streamed earlier, a tier shows the newest
\* samples of its decimation when it was last due, peaks keep time, and the bands of the
\* rate in force leave no gap.
THEOREM SpectrumStaysExact == SpectrumSpec => []SpectrumIsExact
<1>1. SpectrumInit => SpectrumInv
  BY SpectrumBegins
<1>2. SpectrumInv /\ [SpectrumNext]_spectrumVars => SpectrumInv'
  <2> SUFFICES ASSUME SpectrumInv, [SpectrumNext]_spectrumVars PROVE SpectrumInv'
    OBVIOUS
  <2>1. CASE Push
    BY <2>1, PushKeeps
  <2>2. CASE PushRound
    BY <2>2, RoundKeeps
  <2>3. CASE Analyze
    BY <2>3, AnalyzeKeeps
  <2>4. CASE UNCHANGED spectrumVars
    <3>1. UNCHANGED <<analyzer, tiers, chain, pushing, consumed, valid, bands>>
      BY <2>4 DEF spectrumVars
    <3>2. AnalyzerHolds /\ TiersHold /\ ChainHolds /\ BandsHold /\ PushingHolds
      BY DEF SpectrumInv
    <3>3. AnalyzerHolds'
      BY <3>1, <3>2 DEF AnalyzerHolds
    <3>4. TiersHold'
      BY <3>1, <3>2 DEF TiersHold, Tiers, Decimation, HopOf
    <3>5. ChainHolds'
      BY <3>1, <3>2 DEF ChainHolds, Multi
    <3>6. BandsHold'
      BY <3>1, <3>2 DEF BandsHold, Tiers, Decimation, HopOf
    <3>7. PushingHolds'
      BY <3>1, <3>2 DEF PushingHolds, DuePositions, DueAt, FirstDue, Tiers, Decimation, HopOf
    <3> QED BY <3>3, <3>4, <3>5, <3>6, <3>7 DEF SpectrumInv
  <2> QED BY <2>1, <2>2, <2>3, <2>4 DEF SpectrumNext
<1>3. SpectrumInv => SpectrumIsExact
  BY InvMeans
<1> QED BY <1>1, <1>2, <1>3, PTL DEF SpectrumSpec
=============================================================================
