------------------------- MODULE SnapshotPublication -------------------------
(***************************************************************************)
(* Publication of DSP parameter snapshots (`SharedParams`, with the         *)
(* `RealtimeSnapshot` inside it) from control threads to audio callbacks.   *)
(*                                                                         *)
(* Control threads edit under a writer mutex and read through a seqlock.    *)
(* An audio callback never locks: it reads a raw pointer under a hazard     *)
(* slot, checks that the sequence did not move, and otherwise keeps the     *)
(* snapshot it has.  The publisher retires each displaced box and frees it  *)
(* once no hazard slot names its address; addresses are reused.             *)
(*                                                                         *)
(* Every shared access is a step; those between a realtime load and a       *)
(* publication are SeqCst in the code.  A snapshot is represented by the    *)
(* number of edits it contains, counted from 1.                             *)
(***************************************************************************)
EXTENDS Naturals, FiniteSets

CONSTANTS
  Writers,        \* control threads that edit parameters
  Readers,        \* realtime reader handles
  Addrs,          \* heap addresses of snapshot boxes
  FirstAddr,      \* where the initial snapshot was allocated
  ControlReads,   \* whether a control thread reads snapshot and generation
  MaxPublishes    \* bound on publications

ASSUME SnapshotAssumption ==
  /\ FirstAddr \in Addrs /\ MaxPublishes \in Nat /\ ControlReads \in BOOLEAN
  /\ IsFiniteSet(Readers)

NoOne == "nobody"
Null == "null"
ASSUME NamesAssumption == NoOne \notin Writers /\ Null \notin Addrs

VARIABLES
  \* SharedParams: writer mutex, seqlock, current snapshot
  writer, generation, current,
  \* RealtimeSnapshot: control mutex, sequence, pointer, retired boxes
  control, sequence, pointer, retired,
  \* the heap: the snapshot at an address, 0 when it is not allocated
  heap,
  \* publishers: program counter, snapshot being built, box displaced by the
  \* swap, and the hazard loads the retirement scan has still to make
  wpc, draft, displaced, scan,
  \* realtime readers: handles alive, hazard slots, program counter, locals of
  \* a load, and the snapshot kept with its generation
  alive, hazard, rpc, before, loaded, copy, cached,
  \* one control-side reader of snapshot and generation
  upc, ubefore, uval, uafter

shared == <<writer, generation, current>>
realtime == <<control, sequence, pointer, retired, heap>>
writing == <<wpc, draft, displaced, scan>>
reading == <<alive, hazard, rpc, before, loaded, copy, cached>>
ui == <<upc, ubefore, uval, uafter>>
vars == <<shared, realtime, writing, reading, ui>>

Nothing == [val |-> 0, gen |-> 0]

Init ==
  /\ writer = NoOne /\ generation = 0 /\ current = 1
  /\ control = NoOne /\ sequence = 0 /\ pointer = FirstAddr /\ retired = {}
  /\ heap = [a \in Addrs |-> IF a = FirstAddr THEN 1 ELSE 0]
  /\ wpc = [w \in Writers |-> "idle"] /\ draft = [w \in Writers |-> 0]
  /\ displaced = Null /\ scan = {}
  /\ alive = {} /\ hazard = [r \in Readers |-> Null] /\ rpc = [r \in Readers |-> "off"]
  /\ before = [r \in Readers |-> 0] /\ loaded = [r \in Readers |-> Null]
  /\ copy = [r \in Readers |-> 0] /\ cached = [r \in Readers |-> Nothing]
  /\ upc = "before" /\ ubefore = 0 /\ uval = 0 /\ uafter = 0

-----------------------------------------------------------------------------
(* Publishing.                                                             *)

WriterStep(w, from, to) == wpc[w] = from /\ wpc' = [wpc EXCEPT ![w] = to]

\* `update`, `update_if`, `publish`: take the writer mutex.
LockWriter(w) ==
  /\ writer = NoOne /\ generation < 2 * MaxPublishes
  /\ WriterStep(w, "idle", "read") /\ writer' = w
  /\ UNCHANGED <<generation, current, draft, displaced, scan, realtime, reading, ui>>

\* Edit a copy of the current snapshot, or decline.
EditCopy(w) ==
  /\ WriterStep(w, "read", "markOdd")
  /\ draft' = [draft EXCEPT ![w] = current + 1]
  /\ UNCHANGED <<shared, displaced, scan, realtime, reading, ui>>
DeclineEdit(w) ==
  /\ WriterStep(w, "read", "idle") /\ writer' = NoOne
  /\ UNCHANGED <<generation, current, draft, displaced, scan, realtime, reading, ui>>

\* `publish_locked`: odd generation, control-side snapshot, realtime snapshot.
MarkOdd(w) ==
  /\ WriterStep(w, "markOdd", "store")
  /\ generation' = generation + 1
  /\ UNCHANGED <<writer, current, draft, displaced, scan, realtime, reading, ui>>

StoreCurrent(w) ==
  /\ WriterStep(w, "store", "sequenceOdd")
  /\ current' = draft[w]
  /\ UNCHANGED <<writer, generation, draft, displaced, scan, realtime, reading, ui>>

\* Mutant: the sequence is bumped once, after the swap.
BugSequenceOdd(w) ==
  /\ control = NoOne
  /\ WriterStep(w, "sequenceOdd", "swap") /\ control' = w
  /\ UNCHANGED <<sequence, shared, draft, displaced, scan, pointer, retired, heap, reading, ui>>

\* `RealtimeSnapshot::publish`: lock control, odd sequence, swap, even sequence.
SequenceOdd(w) ==
  /\ control = NoOne
  /\ WriterStep(w, "sequenceOdd", "swap") /\ control' = w
  /\ sequence' = sequence + 1
  /\ UNCHANGED <<shared, draft, displaced, scan, pointer, retired, heap, reading, ui>>

SwapPointer(w) ==
  /\ WriterStep(w, "swap", "sequenceEven")
  /\ \E a \in Addrs :
       heap[a] = 0 /\ heap' = [heap EXCEPT ![a] = draft[w]] /\ pointer' = a
  /\ displaced' = pointer
  /\ UNCHANGED <<shared, draft, scan, control, sequence, retired, reading, ui>>

Freed(boxes) == [a \in Addrs |-> IF a \in boxes THEN 0 ELSE heap[a]]

\* The displaced box joins the retired ones; dead handles are dropped from the
\* reader list; every retired box is then checked against every handle left.
SequenceEven(w) ==
  /\ WriterStep(w, "sequenceEven", "scan")
  /\ sequence' = 2 * (sequence \div 2) + 2
  /\ LET boxes == retired \cup {displaced}
     IN /\ displaced' = Null /\ scan' = boxes \X alive
        /\ retired' = IF alive = {} THEN {} ELSE boxes
        /\ heap' = IF alive = {} THEN Freed(boxes) ELSE heap
  /\ UNCHANGED <<shared, draft, control, pointer, reading, ui>>

OfBox(a) == {p \in scan : p[1] = a}

\* Mutant: a box is freed as soon as one handle does not name it.
BugScanHazard(w) ==
  /\ wpc[w] = "scan"
  /\ \E p \in scan :
       /\ scan' = scan \ OfBox(p[1])
       /\ IF hazard[p[2]] = p[1] THEN UNCHANGED <<retired, heap>>
          ELSE retired' = retired \ {p[1]} /\ heap' = Freed({p[1]})
  /\ UNCHANGED <<shared, wpc, draft, displaced, control, sequence, pointer, reading, ui>>

\* One hazard load: a hit keeps the box, a miss on the last handle frees it.
ScanHazard(w) ==
  /\ wpc[w] = "scan"
  /\ \E p \in scan :
       LET box == p[1]
           hit == hazard[p[2]] = box
           last == OfBox(box) = {p}
       IN /\ scan' = IF hit THEN scan \ OfBox(box) ELSE scan \ {p}
          /\ retired' = IF ~hit /\ last THEN retired \ {box} ELSE retired
          /\ heap' = IF ~hit /\ last THEN Freed({box}) ELSE heap
  /\ UNCHANGED <<shared, wpc, draft, displaced, control, sequence, pointer, reading, ui>>

\* Unlock control, make the generation even, unlock the writer mutex.
FinishPublish(w) ==
  /\ scan = {}
  /\ WriterStep(w, "scan", "idle")
  /\ control' = NoOne /\ writer' = NoOne
  /\ generation' = 2 * (generation \div 2) + 2
  /\ draft' = [draft EXCEPT ![w] = 0]
  /\ UNCHANGED <<current, displaced, scan, sequence, pointer, retired, heap, reading, ui>>

-----------------------------------------------------------------------------
(* A realtime reader.                                                      *)

readElse == <<shared, realtime, writing, ui>>
ReaderStep(r, from, to) == rpc[r] = from /\ rpc' = [rpc EXCEPT ![r] = to]

\* `subscribe_realtime`: register a slot, then load until a load succeeds.
Subscribe(r) ==
  /\ control = NoOne
  /\ ReaderStep(r, "off", "before") /\ alive' = alive \cup {r}
  /\ UNCHANGED <<hazard, before, loaded, copy, cached, readElse>>

\* Mutant: the publication after the cached one does not count as newer.
BugPoll(r) ==
  /\ sequence % 2 = 0 /\ sequence \div 2 > cached[r].gen + 1
  /\ ReaderStep(r, "idle", "before")
  /\ UNCHANGED <<alive, hazard, before, loaded, copy, cached, readElse>>

\* `load_if_changed_since`: no publication in progress, and a newer one.
Poll(r) ==
  /\ sequence % 2 = 0 /\ sequence \div 2 # cached[r].gen
  /\ ReaderStep(r, "idle", "before")
  /\ UNCHANGED <<alive, hazard, before, loaded, copy, cached, readElse>>

\* A load that failed keeps the cached snapshot; a subscription tries again.
NextLoad(r) == IF cached[r] = Nothing THEN "before" ELSE "idle"

LoadBefore(r) ==
  /\ ReaderStep(r, "before", IF sequence % 2 = 0 THEN "pointer" ELSE NextLoad(r))
  /\ before' = [before EXCEPT ![r] = IF sequence % 2 = 0 THEN sequence ELSE 0]
  /\ UNCHANGED <<alive, hazard, loaded, copy, cached, readElse>>
LoadPointer(r) ==
  /\ ReaderStep(r, "pointer", "hazard")
  /\ loaded' = [loaded EXCEPT ![r] = pointer]
  /\ UNCHANGED <<alive, hazard, before, copy, cached, readElse>>
StoreHazard(r) ==
  /\ ReaderStep(r, "hazard", "checkPointer")
  /\ hazard' = [hazard EXCEPT ![r] = loaded[r]]
  /\ UNCHANGED <<alive, before, loaded, copy, cached, readElse>>
CheckPointer(r) ==
  /\ ReaderStep(r, "checkPointer", IF pointer = loaded[r] THEN "checkSequence" ELSE "clear")
  /\ UNCHANGED <<alive, hazard, before, loaded, copy, cached, readElse>>
CheckSequence(r) ==
  /\ ReaderStep(r, "checkSequence", IF sequence = before[r] THEN "deref" ELSE "clear")
  /\ UNCHANGED <<alive, hazard, before, loaded, copy, cached, readElse>>
Deref(r) ==
  /\ ReaderStep(r, "deref", "after")
  /\ copy' = [copy EXCEPT ![r] = heap[loaded[r]]]
  /\ UNCHANGED <<alive, hazard, before, loaded, cached, readElse>>
CheckAfter(r) ==
  /\ ReaderStep(r, "after", "clear")
  /\ copy' = [copy EXCEPT ![r] = IF sequence = before[r] THEN @ ELSE 0]
  /\ UNCHANGED <<alive, hazard, before, loaded, cached, readElse>>

\* Mutant: a load that failed falls back to no parameters at all.
BugClearHazard(r) ==
  LET got == [val |-> copy[r], gen |-> before[r] \div 2]
      kept == IF copy[r] = 0 THEN Nothing ELSE got
  IN /\ ReaderStep(r, "clear", IF kept = Nothing THEN "before" ELSE "idle")
     /\ cached' = [cached EXCEPT ![r] = kept]
     /\ hazard' = [hazard EXCEPT ![r] = Null]
     /\ before' = [before EXCEPT ![r] = 0]
     /\ loaded' = [loaded EXCEPT ![r] = Null]
     /\ copy' = [copy EXCEPT ![r] = 0]
     /\ UNCHANGED <<alive, readElse>>

\* Clear the slot and return the copy with its generation, or nothing.
ClearHazard(r) ==
  LET got == [val |-> copy[r], gen |-> before[r] \div 2]
      kept == IF copy[r] = 0 THEN cached[r] ELSE got
  IN /\ ReaderStep(r, "clear", IF kept = Nothing THEN "before" ELSE "idle")
     /\ cached' = [cached EXCEPT ![r] = kept]
     /\ hazard' = [hazard EXCEPT ![r] = Null]
     /\ before' = [before EXCEPT ![r] = 0]
     /\ loaded' = [loaded EXCEPT ![r] = Null]
     /\ copy' = [copy EXCEPT ![r] = 0]
     /\ UNCHANGED <<alive, readElse>>

\* `Drop for RealtimeSnapshotReader`
DropReader(r) ==
  /\ ReaderStep(r, "idle", "off")
  /\ alive' = alive \ {r}
  /\ hazard' = [hazard EXCEPT ![r] = Null]
  /\ cached' = [cached EXCEPT ![r] = Nothing]
  /\ UNCHANGED <<before, loaded, copy, readElse>>

ReadSteps(r) ==
  \/ LoadBefore(r) \/ LoadPointer(r) \/ StoreHazard(r) \/ CheckPointer(r)
  \/ CheckSequence(r) \/ Deref(r) \/ CheckAfter(r) \/ ClearHazard(r)

-----------------------------------------------------------------------------
(* `load_with_generation` of a control thread: spin while odd, clone, check. *)

uiElse == <<shared, realtime, writing, reading>>

UiBefore ==
  /\ ControlReads /\ upc = "before" /\ generation % 2 = 0
  /\ upc' = "clone" /\ ubefore' = generation
  /\ UNCHANGED <<uval, uafter, uiElse>>
UiClone ==
  /\ upc = "clone" /\ upc' = "after" /\ uval' = current
  /\ UNCHANGED <<ubefore, uafter, uiElse>>
UiAfter ==
  /\ upc = "after" /\ uafter' = generation
  /\ upc' = IF generation = ubefore THEN "got" ELSE "before"
  /\ UNCHANGED <<ubefore, uval, uiElse>>
UiReturn ==
  /\ upc = "got" /\ upc' = "before" /\ ubefore' = 0 /\ uval' = 0 /\ uafter' = 0
  /\ UNCHANGED uiElse

-----------------------------------------------------------------------------

WriterSteps(w) ==
  \/ EditCopy(w) \/ DeclineEdit(w) \/ MarkOdd(w) \/ StoreCurrent(w) \/ SequenceOdd(w)
  \/ SwapPointer(w) \/ SequenceEven(w) \/ ScanHazard(w) \/ FinishPublish(w)

Next ==
  \/ \E w \in Writers : LockWriter(w) \/ WriterSteps(w)
  \/ \E r \in Readers : Subscribe(r) \/ Poll(r) \/ ReadSteps(r) \/ DropReader(r)
  \/ UiBefore \/ UiClone \/ UiAfter \/ UiReturn

Spec == Init /\ [][Next]_vars

\* Calls in progress make progress, and callbacks keep polling.
FairSpec ==
  /\ Spec
  /\ \A w \in Writers : WF_vars(WriterSteps(w))
  /\ \A r \in Readers : WF_vars(ReadSteps(r)) /\ WF_vars(Poll(r))

-----------------------------------------------------------------------------
(* Properties.                                                             *)

\* A callback never reads a freed box, and never the new contents of a reused
\* address: what it dereferences is the very box it validated.  Nor is a box
\* leaked: the current one, the retired ones and the one just displaced are all;
\* and each live handle keeps at most one retired box from being freed.
NoUseAfterFree ==
  /\ \A r \in Readers : rpc[r] = "deref" => heap[loaded[r]] = before[r] \div 2 + 1
  /\ {a \in Addrs : heap[a] # 0} = {pointer} \cup retired \cup ({displaced} \ {Null})
  /\ control = NoOne => Cardinality(retired) <= Cardinality(Readers)

\* A snapshot and its generation always belong together, in a callback's cache
\* and in the answer to a control thread; the value counts the edits it contains,
\* so that none is lost: each publication adds one to all the earlier ones.
Coherent ==
  /\ \A r \in Readers : cached[r] # Nothing => cached[r].val = cached[r].gen + 1
  /\ upc = "got" => uval = ubefore \div 2 + 1

\* A callback never goes back to an older snapshot.
NeverGoesBack ==
  [][\A r \in Readers : r \in alive /\ r \in alive' => cached'[r].gen >= cached[r].gen]_<<cached, alive>>

\* Once publishing stops, a polling callback obtains the newest snapshot.
ReadersCatchUp ==
  \A r \in Readers : []<>(r \notin alive \/ cached[r].val = heap[pointer])
=============================================================================
