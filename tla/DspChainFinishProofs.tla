------------------------ MODULE DspChainFinishProofs -------------------------
(* Proofs about DspChainFinish for any kinds of stages, any length of the    *)
(* chain, any policies, any block sizes and any number of failing stages.    *)
EXTENDS DspChainFinish, FiniteSetTheorems, WellFoundedInduction, TLAPS

-----------------------------------------------------------------------------
(* Sums over stages.                                                       *)

\* A set of natural numbers that is not empty has a least element.
LEMMA LeastNatural ==
  ASSUME NEW S \in SUBSET Nat, S # {}
  PROVE  \E m \in S : \A k \in S : m <= k
<1>1. PICK m \in S : \A k \in S : ~(<<k, m>> \in OpToRel(<, Nat))
  BY NatLessThanWellFounded, WFMin
<1>2. \A k \in S : ~(k < m)
  BY <1>1 DEF OpToRel
<1> QED BY <1>2

Frames(held, S) == UNION {{j} \X (1 .. held[j]) : j \in S}

\* The frames of one stage.
LEMMA StageFrames ==
  ASSUME NEW j, NEW m \in Nat
  PROVE  IsFiniteSet({j} \X (1 .. m)) /\ Cardinality({j} \X (1 .. m)) = m
<1> DEFINE f == [k \in 1 .. m |-> <<j, k>>]
<1>1. f \in Bijection(1 .. m, {j} \X (1 .. m))
  <2>1. f \in Injection(1 .. m, {j} \X (1 .. m))
    <3>1. f \in [1 .. m -> {j} \X (1 .. m)]
      OBVIOUS
    <3>2. \A a, b \in 1 .. m : f[a] = f[b] => a = b
      OBVIOUS
    <3> HIDE DEF f
    <3> QED BY <3>1, <3>2 DEF Injection, IsInjective
  <2>2. \A t \in {j} \X (1 .. m) : \E k \in 1 .. m : f[k] = t
    OBVIOUS
  <2> QED BY <2>1, <2>2 DEF Bijection, Surjection, Injection
<1>2. ExistsBijection(1 .. m, {j} \X (1 .. m))
  BY <1>1 DEF ExistsBijection
<1>3. IsFiniteSet(1 .. m) /\ Cardinality(1 .. m) = m
  BY FS_Interval
<1> QED BY <1>2, <1>3, FS_Bijection

\* One more stage adds its own frames.
LEMMA FramesAdd ==
  ASSUME NEW held, NEW S, NEW j, j \notin S, held[j] \in Nat, IsFiniteSet(Frames(held, S))
  PROVE  /\ IsFiniteSet(Frames(held, S \cup {j}))
         /\ Total(held, S \cup {j}) = Total(held, S) + held[j]
<1> DEFINE own == {j} \X (1 .. held[j])
<1>1. Frames(held, S \cup {j}) = Frames(held, S) \cup own
  BY DEF Frames
<1>2. Frames(held, S) \cap own = {}
  BY DEF Frames
<1>3. IsFiniteSet(own) /\ Cardinality(own) = held[j]
  BY StageFrames
<1>4. Cardinality({}) = 0 /\ Cardinality(Frames(held, S)) \in Nat
  BY FS_EmptySet, FS_CardinalityType
<1>5. /\ IsFiniteSet(Frames(held, S) \cup own)
      /\ Cardinality(Frames(held, S) \cup own) = Cardinality(Frames(held, S)) + held[j]
  <2> HIDE DEF own
  <2>1. IsFiniteSet(Frames(held, S))
    OBVIOUS
  <2>2. /\ IsFiniteSet(Frames(held, S) \cup own)
        /\ Cardinality(Frames(held, S) \cup own)
             = Cardinality(Frames(held, S)) + Cardinality(own) - Cardinality(Frames(held, S) \cap own)
    BY <1>3, <2>1, FS_Union
  <2>3. Cardinality(Frames(held, S) \cap own) = 0
    BY <1>2, <1>4
  <2> QED BY <1>3, <1>4, <2>2, <2>3
<1> QED BY <1>1, <1>5 DEF Total, Frames

\* Finitely many stages hold finitely many frames.
LEMMA FramesFinite ==
  ASSUME NEW n \in Nat, NEW held \in [1 .. n -> Nat], NEW S \in SUBSET (1 .. n)
  PROVE  IsFiniteSet(Frames(held, S))
<1> DEFINE bad == {k \in 0 .. n : ~IsFiniteSet(Frames(held, 1 .. k))}
<1>1. bad = {}
  <2> SUFFICES ASSUME bad # {} PROVE FALSE
    OBVIOUS
  <2>1. PICK k \in bad : \A i \in bad : k <= i
    <3>1. bad \in SUBSET Nat
      OBVIOUS
    <3> HIDE DEF bad
    <3> QED BY <3>1, LeastNatural
  <2>2. k # 0
    <3>1. Frames(held, 1 .. 0) = {}
      BY DEF Frames
    <3> QED BY <3>1, FS_EmptySet
  <2>3. k - 1 \in 0 .. n /\ k - 1 \notin bad
    BY <2>1, <2>2
  <2>4. IsFiniteSet(Frames(held, 1 .. k - 1))
    BY <2>3
  <2>5. 1 .. k = (1 .. k - 1) \cup {k} /\ k \notin 1 .. k - 1 /\ held[k] \in Nat
    BY <2>1, <2>2
  <2>6. IsFiniteSet(Frames(held, (1 .. k - 1) \cup {k}))
    BY <2>4, <2>5, FramesAdd
  <2> QED BY <2>1, <2>5, <2>6
<1>2. IsFiniteSet(Frames(held, 1 .. n))
  BY <1>1
<1>3. Frames(held, S) \in SUBSET Frames(held, 1 .. n)
  BY DEF Frames
<1> QED BY <1>2, <1>3, FS_Subset

\* A sum is a number of frames, ...
LEMMA TotalNat ==
  ASSUME NEW n \in Nat, NEW held \in [1 .. n -> Nat], NEW S \in SUBSET (1 .. n)
  PROVE  Total(held, S) \in Nat
BY FramesFinite, FS_CardinalityType DEF Total, Frames

\* ... it grows by what one more stage holds, ...
LEMMA TotalAdd ==
  ASSUME NEW n \in Nat, NEW held \in [1 .. n -> Nat], NEW S \in SUBSET (1 .. n),
         NEW j \in 1 .. n, j \notin S
  PROVE  Total(held, S \cup {j}) = Total(held, S) + held[j]
<1>1. held[j] \in Nat /\ IsFiniteSet(Frames(held, S))
  BY FramesFinite
<1> QED BY <1>1, FramesAdd

\* ... more stages that each hold more hold more together, ...
LEMMA TotalMonotone ==
  ASSUME NEW n \in Nat, NEW held \in [1 .. n -> Nat], NEW S \in SUBSET (1 .. n),
         NEW m \in Nat, NEW more \in [1 .. m -> Nat], NEW T \in SUBSET (1 .. m),
         S \subseteq T, \A j \in S : held[j] <= more[j]
  PROVE  Total(held, S) <= Total(more, T)
<1>1. IsFiniteSet(Frames(more, T))
  BY FramesFinite
<1>2. Frames(held, S) \in SUBSET Frames(more, T)
  <2>1. \A j \in S : 1 .. held[j] \subseteq 1 .. more[j]
    <3> SUFFICES ASSUME NEW j \in S, NEW k \in 1 .. held[j] PROVE k \in 1 .. more[j]
      OBVIOUS
    <3>1. held[j] \in Nat /\ more[j] \in Nat /\ held[j] <= more[j]
      OBVIOUS
    <3> QED BY <3>1
  <2> QED BY <2>1 DEF Frames
<1>3. Cardinality(Frames(held, S)) <= Cardinality(Frames(more, T))
  BY <1>1, <1>2, FS_Subset
<1> QED BY <1>3 DEF Total, Frames

\* ... and each stage no more than all of them.
LEMMA TotalMember ==
  ASSUME NEW n \in Nat, NEW held \in [1 .. n -> Nat], NEW S \in SUBSET (1 .. n), NEW j \in S
  PROVE  held[j] <= Total(held, S)
<1>1. held[j] \in Nat /\ j \in 1 .. n /\ j \notin {}
  OBVIOUS
<1>2. Total(held, {} \cup {j}) = Total(held, {}) + held[j] /\ {} \cup {j} = {j}
  BY <1>1, TotalAdd
<1>3. Total(held, {}) \in Nat /\ Total(held, S) \in Nat
  BY TotalNat
<1>4. Total(held, {j}) <= Total(held, S)
  <2>1. {j} \in SUBSET (1 .. n) /\ {j} \subseteq S /\ \A i \in {j} : held[i] <= held[i]
    OBVIOUS
  <2> QED BY <2>1, TotalMonotone
<1>5. held[j] <= Total(held, {j})
  BY <1>1, <1>2, <1>3
<1>6. Total(held, {j}) \in Nat
  BY <1>1, <1>2, <1>3
<1> QED BY <1>1, <1>3, <1>4, <1>5, <1>6

-----------------------------------------------------------------------------
(* The inductive invariant.                                                *)

ConfigType ==
  /\ stages \in Seq(Kinds) /\ Last <= MaxStages
  /\ unknown \in SUBSET (1 .. Last) /\ begun \in SUBSET (1 .. Last)
  /\ left \in Nat /\ ended \in BOOLEAN
FinishType ==
  /\ stage \in 1 .. Last + 1 /\ complete \in BOOLEAN
  /\ policy \in Policies \cup {NoPolicy} /\ capped \in BOOLEAN
  /\ unknownStage \in Nat /\ observationEnd \in Nat
  /\ protected \in Nat /\ quiet \in Nat /\ generated \in Nat
CallType ==
  /\ pc \in {"idle", "draining"} /\ capacity \in Nat /\ produced \in Nat
  /\ emitted \in Nat /\ drained \in [1 .. MaxStages -> Nat]
  /\ cut \in SUBSET (1 .. Last) /\ tripped \in BOOLEAN /\ failures \in Nat

\* Every variable has its type.
TypeOK == ConfigType /\ FinishType /\ CallType

\* A stream that did not begin to finish has no stage that did, a call in
\* progress has a policy and room, and only the stages up to the current one
\* began, so no stage is pushed input after its own end began.
OrderInv ==
  /\ policy = NoPolicy => begun = {} /\ cut = {} /\ stage = 1 /\ ~complete /\ emitted = 0
  /\ pc = "draining" =>
       /\ policy # NoPolicy /\ ~complete
       /\ capacity \in Capacities \ {0} /\ produced <= capacity
  /\ pc = "idle" => produced = 0 /\ capacity = 0
  /\ begun \subseteq 1 .. stage
  /\ tripped = FALSE

\* The current stage is observed exactly while its tail was once unknown, and
\* what was observed of it is consistent.
ObservationInv ==
  /\ \A i \in unknown : stages[i].asymptotic # "never"
  /\ unknownStage = 0 \/ (unknownStage = stage /\ stage \in begun)
  /\ unknownStage = stage => stages[stage].asymptotic # "never"
  /\ stage \in begun /\ stage \in unknown => unknownStage = stage
  /\ unknownStage # stage => protected = 0 /\ quiet = 0 /\ generated = 0
  /\ generated <= policy.max
  /\ generated > 0 => protected = 0

\* What the stages from i up to the barrier hold: most that is ever protected.
Through(i) == Total([j \in 1 .. Last |-> Held(j)], i .. Barrier(i) - 1)
\* Most frames of the stages before k.
Prefix(k) == Total([i \in 1 .. Last |-> StageBudget(i)], 1 .. k - 1)
\* Most frames that the current stage can have rendered without failing.
Rendered ==
  IF stage \notin begun THEN 0
  ELSE IF unknownStage = stage
       THEN Held(stage) - left + Through(stage) - protected + generated
       ELSE Held(stage) - left

\* The frames rendered are paid for: out of what the stage declares, out of
\* what was protected, or out of the frames counted against the cap.
BudgetInv ==
  /\ stage \in begun => left <= Held(stage)
  /\ unknownStage = stage => protected <= Through(stage)
  /\ failures = 0 =>
       /\ \A i \in 1 .. Last : i < stage => drained[i] <= StageBudget(i)
       /\ stage <= Last => drained[stage] <= Rendered
  /\ \A i \in 1 .. MaxStages : i > stage \/ i > Last => drained[i] = 0
  /\ emitted + produced <= Prefix(stage) + Rendered

\* Whatever a tail gave out, it gave out after what was protected, which holds
\* at least the stage's own latency.
CutInv ==
  /\ unknownStage = stage =>
       /\ drained[stage] + protected >= stages[stage].latency + generated
       /\ drained[stage] + protected >= stages[stage].latency + quiet
  /\ \A i \in cut : drained[i] >= stages[i].latency + policy.hold

IInv == TypeOK /\ OrderInv /\ ObservationInv /\ BudgetInv /\ CutInv

-----------------------------------------------------------------------------
(* What the stages of a chain hold.                                        *)

\* There is a longest cap.
LEMMA LongestCap == MaxCap \in Nat /\ \A p \in Policies : p.max <= MaxCap
<1> DEFINE caps == {p.max : p \in Policies}
<1>1. \E m \in caps : \A p \in Policies : p.max <= m
  BY ChainAssumption
<1>2. MaxCap \in caps /\ \A p \in Policies : p.max <= MaxCap
  BY <1>1 DEF MaxCap
<1>3. caps \subseteq Nat
  BY ChainAssumption
<1> QED BY <1>2, <1>3

\* A policy holds for at least a frame and no longer than its cap.
LEMMA PolicyIs ==
  ASSUME NEW p \in Policies
  PROVE  p.hold \in Nat \ {0} /\ p.max \in Nat /\ p.hold <= p.max /\ p.max <= MaxCap /\ p # NoPolicy
<1>1. p \in [hold : Nat \ {0}, max : Nat] /\ p.hold <= p.max
  BY ChainAssumption
<1>2. NoPolicy.hold = 0
  BY DEF NoPolicy
<1> QED BY <1>1, <1>2, LongestCap

\* A stage declares natural numbers.
LEMMA StageIs ==
  ASSUME stages \in Seq(Kinds), NEW i \in 1 .. Last
  PROVE  stages[i].latency \in Nat /\ stages[i].tail \in Nat /\ Held(i) \in Nat
<1>1. stages[i] \in Stage
  BY ChainAssumption DEF Last
<1> QED BY <1>1 DEF Stage, Held

\* The barrier of a stage is a later one, or past the end, and the first one.
LEMMA BarrierIs ==
  ASSUME stages \in Seq(Kinds), NEW i \in 1 .. Last
  PROVE  /\ Last \in Nat /\ Barrier(i) \in i + 1 .. Last + 1
         /\ Barrier(i) # Last + 1 => stages[Barrier(i)].barrier
         /\ \A j \in i + 1 .. Last : stages[j].barrier => Barrier(i) <= j
<1> DEFINE barriers == {j \in i + 1 .. Last : stages[j].barrier}
<1>1. Last \in Nat
  BY DEF Last
<1>2. CASE barriers = {}
  <2>1. Barrier(i) = Last + 1
    BY <1>2 DEF Barrier
  <2> QED BY <1>1, <1>2, <2>1
<1>3. CASE barriers # {}
  <2>1. \E j \in barriers : \A k \in barriers : j <= k
    <3>1. barriers \in SUBSET Nat
      BY <1>1
    <3> HIDE DEF barriers
    <3> QED BY <1>3, <3>1, LeastNatural
  <2>2. Barrier(i) = CHOOSE j \in barriers : \A k \in barriers : j <= k
    BY <1>3 DEF Barrier
  <2>3. Barrier(i) \in barriers /\ \A k \in barriers : Barrier(i) <= k
    <3> HIDE DEF barriers
    <3> QED BY <2>1, <2>2
  <2> QED BY <1>1, <2>3
<1> QED BY <1>2, <1>3

HeldOf == [j \in 1 .. Last |-> Held(j)]
BudgetOf == [i \in 1 .. Last |-> StageBudget(i)]

\* The most that is protected for a stage, and its budget, are numbers of frames.
LEMMA BudgetIs ==
  ASSUME stages \in Seq(Kinds)
  PROVE  /\ Last \in Nat
         /\ HeldOf \in [1 .. Last -> Nat] /\ BudgetOf \in [1 .. Last -> Nat]
         /\ \A i \in 1 .. Last : Through(i) \in Nat /\ StageBudget(i) \in Nat
         /\ \A i \in 1 .. Last : stages[i].asymptotic = "never" => StageBudget(i) = Held(i)
         /\ \A i \in 1 .. Last :
              stages[i].asymptotic # "never" => StageBudget(i) = Held(i) + MaxCap + Through(i)
<1>1. Last \in Nat
  BY DEF Last
<1>2. \A i \in 1 .. Last : Held(i) \in Nat
  BY StageIs
<1>3. HeldOf \in [1 .. Last -> Nat]
  BY <1>2 DEF HeldOf
<1>4. \A i \in 1 .. Last : Through(i) \in Nat
  <2> SUFFICES ASSUME NEW i \in 1 .. Last PROVE Through(i) \in Nat
    OBVIOUS
  <2>1. Barrier(i) \in i + 1 .. Last + 1
    BY BarrierIs
  <2>2. i .. Barrier(i) - 1 \in SUBSET (1 .. Last)
    BY <1>1, <2>1
  <2> QED BY <1>1, <1>3, <2>2, TotalNat DEF Through, HeldOf
<1>5. \A i \in 1 .. Last :
        StageBudget(i) = Held(i) + (IF stages[i].asymptotic = "never" THEN 0 ELSE MaxCap + Through(i))
  BY DEF StageBudget, Through
<1>6. \A i \in 1 .. Last : StageBudget(i) \in Nat
  BY <1>2, <1>4, <1>5, LongestCap
<1>7. BudgetOf \in [1 .. Last -> Nat]
  BY <1>6 DEF BudgetOf
<1>8. \A i \in 1 .. Last : stages[i].asymptotic = "never" => StageBudget(i) = Held(i)
  BY <1>2, <1>5
<1>9. \A i \in 1 .. Last :
        stages[i].asymptotic # "never" => StageBudget(i) = Held(i) + MaxCap + Through(i)
  <2> SUFFICES ASSUME NEW i \in 1 .. Last, stages[i].asymptotic # "never"
               PROVE  StageBudget(i) = Held(i) + MaxCap + Through(i)
    OBVIOUS
  <2> QED BY <1>2, <1>4, <1>5, LongestCap
<1> QED BY <1>1, <1>3, <1>4, <1>6, <1>7, <1>8, <1>9

\* The budgets of the stages before one another add up to that of the chain.
LEMMA PrefixIs ==
  ASSUME stages \in Seq(Kinds)
  PROVE  /\ Prefix(1) = 0 /\ Budget = Prefix(Last + 1)
         /\ \A k \in 1 .. Last + 1 : Prefix(k) \in Nat /\ Prefix(k) <= Budget
         /\ \A k \in 1 .. Last : Prefix(k + 1) = Prefix(k) + StageBudget(k)
<1>1. Last \in Nat /\ BudgetOf \in [1 .. Last -> Nat]
  BY BudgetIs
<1>2. Prefix(1) = 0
  <2>1. UNION {{j} \X (1 .. BudgetOf[j]) : j \in 1 .. 1 - 1} = {}
    OBVIOUS
  <2> QED BY <2>1, FS_EmptySet DEF Prefix, Total, BudgetOf
<1>3. Budget = Prefix(Last + 1)
  <2>1. 1 .. (Last + 1) - 1 = 1 .. Last
    BY <1>1
  <2>2. Prefix(Last + 1) = Total(BudgetOf, 1 .. (Last + 1) - 1)
    BY DEF Prefix, BudgetOf
  <2>3. Budget = Total(BudgetOf, 1 .. Last)
    BY DEF Budget, BudgetOf
  <2> QED BY <2>1, <2>2, <2>3
<1>4. \A k \in 1 .. Last + 1 : Prefix(k) \in Nat /\ Prefix(k) <= Budget
  <2> SUFFICES ASSUME NEW k \in 1 .. Last + 1 PROVE Prefix(k) \in Nat /\ Prefix(k) <= Budget
    OBVIOUS
  <2>1. /\ 1 .. k - 1 \in SUBSET (1 .. Last) /\ 1 .. Last \in SUBSET (1 .. Last)
        /\ \A j \in 1 .. k - 1 : BudgetOf[j] <= BudgetOf[j]
    BY <1>1
  <2>2. Total(BudgetOf, 1 .. k - 1) \in Nat
    BY <1>1, <2>1, TotalNat
  <2>3. Total(BudgetOf, 1 .. k - 1) <= Total(BudgetOf, 1 .. Last)
    BY <1>1, <2>1, TotalMonotone
  <2> QED BY <2>2, <2>3 DEF Prefix, Budget, BudgetOf
<1>5. ASSUME NEW k \in 1 .. Last PROVE Prefix(k + 1) = Prefix(k) + StageBudget(k)
  <2>1. /\ 1 .. k - 1 \in SUBSET (1 .. Last) /\ k \in 1 .. Last /\ k \notin 1 .. k - 1
        /\ 1 .. (k + 1) - 1 = (1 .. k - 1) \cup {k}
    BY <1>1
  <2>2. Total(BudgetOf, (1 .. k - 1) \cup {k}) = Total(BudgetOf, 1 .. k - 1) + BudgetOf[k]
    <3> DEFINE S == 1 .. k - 1
    <3>1. S \in SUBSET (1 .. Last) /\ k \in 1 .. Last /\ k \notin S
      BY <2>1
    <3> HIDE DEF S
    <3>2. Total(BudgetOf, S \cup {k}) = Total(BudgetOf, S) + BudgetOf[k]
      BY <1>1, <3>1, TotalAdd
    <3> QED BY <3>2 DEF S
  <2>3. Prefix(k + 1) = Total(BudgetOf, 1 .. (k + 1) - 1)
    BY DEF Prefix, BudgetOf
  <2> QED BY <2>1, <2>2, <2>3 DEF Prefix, BudgetOf
<1> QED BY <1>2, <1>3, <1>4, <1>5

\* What is protected for a stage holds at least its latency.
LEMMA ProtectionIs ==
  ASSUME stages \in Seq(Kinds), NEW i \in 1 .. Last
  PROVE  /\ Protection(i, Barrier(i)) \in Nat
         /\ stages[i].latency <= Protection(i, Barrier(i))
         /\ Protection(i, Barrier(i)) <= Through(i)
<1> DEFINE kept == [j \in 1 .. Last |->
                      stages[j].latency + IF j \in unknown THEN 0 ELSE stages[j].tail]
           S == i .. Barrier(i) - 1
<1>1. Last \in Nat /\ S \in SUBSET (1 .. Last) /\ i \in S
  BY BarrierIs
<1>2. \A j \in 1 .. Last : /\ kept[j] \in Nat /\ stages[j].latency <= kept[j] /\ kept[j] <= HeldOf[j]
  <2> SUFFICES ASSUME NEW j \in 1 .. Last
               PROVE  kept[j] \in Nat /\ stages[j].latency <= kept[j] /\ kept[j] <= HeldOf[j]
    OBVIOUS
  <2>1. stages[j].latency \in Nat /\ stages[j].tail \in Nat
    BY StageIs
  <2> QED BY <2>1 DEF HeldOf, Held
<1>3. kept \in [1 .. Last -> Nat] /\ HeldOf \in [1 .. Last -> Nat]
  BY <1>2, BudgetIs
<1>4. Protection(i, Barrier(i)) = Total(kept, S) /\ Through(i) = Total(HeldOf, S)
  BY DEF Protection, Through, HeldOf
<1> HIDE DEF kept, S
<1>5. Total(kept, S) \in Nat
  BY <1>1, <1>3, TotalNat
<1>6. kept[i] <= Total(kept, S)
  BY <1>1, <1>3, TotalMember
<1>7. Total(kept, S) <= Total(HeldOf, S)
  <2>1. \A j \in S : kept[j] <= HeldOf[j]
    BY <1>1, <1>2
  <2> QED BY <1>1, <1>3, <2>1, TotalMonotone
<1>8. stages[i].latency \in Nat /\ kept[i] \in Nat /\ stages[i].latency <= kept[i]
  BY <1>2, StageIs
<1> QED BY <1>4, <1>5, <1>6, <1>7, <1>8

\* What a chain of well-formed stages satisfies.
ChainFacts ==
  /\ Last \in Nat
  /\ HeldOf \in [1 .. Last -> Nat] /\ BudgetOf \in [1 .. Last -> Nat]
  /\ \A i \in 1 .. Last :
       /\ stages[i].latency \in Nat /\ stages[i].tail \in Nat /\ Held(i) \in Nat
       /\ Through(i) \in Nat /\ StageBudget(i) \in Nat
       /\ stages[i].asymptotic = "never" => StageBudget(i) = Held(i)
       /\ stages[i].asymptotic # "never" => StageBudget(i) = Held(i) + MaxCap + Through(i)
       /\ Barrier(i) \in i + 1 .. Last + 1
       /\ Barrier(i) # Last + 1 => stages[Barrier(i)].barrier
       /\ \A j \in i + 1 .. Last : stages[j].barrier => Barrier(i) <= j
       /\ Protection(i, Barrier(i)) \in Nat
       /\ stages[i].latency <= Protection(i, Barrier(i))
       /\ Protection(i, Barrier(i)) <= Through(i)
       /\ Prefix(i + 1) = Prefix(i) + StageBudget(i)
  /\ Prefix(1) = 0 /\ Budget = Prefix(Last + 1)
  /\ \A k \in 1 .. Last + 1 : Prefix(k) \in Nat /\ Prefix(k) <= Budget

\* All that is known of a chain of stages, in one fact.
LEMMA ChainIs == stages \in Seq(Kinds) => ChainFacts
BY StageIs, BarrierIs, BudgetIs, PrefixIs, ProtectionIs DEF ChainFacts

\* A stage added at the end moves no barrier of the stages before it closer, so
\* it can only lengthen what they are allowed.
LEMMA AddGrows ==
  ASSUME stages \in Seq(Kinds), Add
  PROVE  /\ stages' \in Seq(Kinds) /\ Last' = Last + 1 /\ Last' <= MaxStages
         /\ \A i \in 1 .. Last :
              /\ stages'[i] = stages[i] /\ Held(i)' = Held(i)
              /\ Through(i) <= Through(i)' /\ StageBudget(i) <= StageBudget(i)'
         /\ \A k \in 1 .. Last + 1 : Prefix(k) <= Prefix(k)'
         /\ Budget <= Budget'
<1>1. PICK kind \in Kinds : stages' = Append(stages, kind)
  BY DEF Add
<1>2. /\ stages' \in Seq(Kinds) /\ Last \in Nat /\ Last' = Last + 1
      /\ stages'[Last + 1] = kind /\ \A i \in 1 .. Last : stages'[i] = stages[i]
  BY <1>1 DEF Last
<1>3. ChainFacts
  BY ChainIs
<1>4. ChainFacts'
  <2>1. (stages \in Seq(Kinds) => ChainFacts)'
    BY ChainIs, PTL
  <2> QED BY <1>2, <2>1
<1>5. \A i \in 1 .. Last : Held(i)' = Held(i) /\ HeldOf[i] <= HeldOf'[i]
  <2> SUFFICES ASSUME NEW i \in 1 .. Last PROVE Held(i)' = Held(i) /\ HeldOf[i] <= HeldOf'[i]
    OBVIOUS
  <2>1. i \in 1 .. Last' /\ Held(i)' = Held(i) /\ Held(i) \in Nat
    <3>1. i \in 1 .. Last' /\ stages'[i] = stages[i]
      BY <1>2
    <3>2. Held(i) \in Nat
      BY <1>3 DEF ChainFacts
    <3> QED BY <3>1, <3>2 DEF Held
  <2>2. HeldOf[i] = Held(i) /\ HeldOf'[i] = Held(i)'
    BY <2>1 DEF HeldOf
  <2> QED BY <2>1, <2>2
<1>6. \A i \in 1 .. Last : Barrier(i) <= Barrier(i)'
  <2> SUFFICES ASSUME NEW i \in 1 .. Last PROVE Barrier(i) <= Barrier(i)'
    OBVIOUS
  <2>1. Barrier(i) \in i + 1 .. Last + 1 /\ \A j \in i + 1 .. Last : stages[j].barrier => Barrier(i) <= j
    BY <1>3 DEF ChainFacts
  <2>2. /\ Barrier(i)' \in i + 1 .. Last + 2
        /\ Barrier(i)' # Last + 2 => stages'[Barrier(i)'].barrier
    <3>1. i \in 1 .. Last' /\ Last' + 1 = Last + 2
      BY <1>2
    <3>2. Barrier(i)' \in i + 1 .. Last' + 1 /\ (Barrier(i)' # Last' + 1 => stages'[Barrier(i)'].barrier)
      BY <1>4, <3>1 DEF ChainFacts
    <3> QED BY <3>1, <3>2
  <2>3. CASE Barrier(i)' \in 1 .. Last
    <3>1. stages[Barrier(i)'].barrier
      BY <1>2, <2>2, <2>3
    <3> QED BY <2>1, <2>2, <2>3, <3>1
  <2>4. CASE Barrier(i)' \notin 1 .. Last
    BY <1>2, <2>1, <2>2, <2>4
  <2> QED BY <2>3, <2>4
<1>7. \A i \in 1 .. Last : Through(i) <= Through(i)'
  <2> SUFFICES ASSUME NEW i \in 1 .. Last PROVE Through(i) <= Through(i)'
    OBVIOUS
  <2> DEFINE S == i .. Barrier(i) - 1
             T == i .. Barrier(i)' - 1
  <2>1. /\ S \in SUBSET (1 .. Last) /\ T \in SUBSET (1 .. Last') /\ S \subseteq T
    <3>1. i \in 1 .. Last' /\ Last' + 1 = Last + 2
      BY <1>2
    <3>2. Barrier(i) \in i + 1 .. Last + 1
      BY <1>3 DEF ChainFacts
    <3>3. Barrier(i)' \in i + 1 .. Last' + 1
      BY <1>4, <3>1 DEF ChainFacts
    <3>4. Barrier(i) <= Barrier(i)'
      BY <1>6
    <3> QED BY <1>2, <3>1, <3>2, <3>3, <3>4
  <2>2. Through(i) = Total(HeldOf, S) /\ Through(i)' = Total(HeldOf', T)
    BY DEF Through, HeldOf
  <2>3. HeldOf \in [1 .. Last -> Nat] /\ HeldOf' \in [1 .. Last' -> Nat] /\ Last' \in Nat
    BY <1>3, <1>4 DEF ChainFacts
  <2>4. \A j \in S : HeldOf[j] <= HeldOf'[j]
    BY <1>5, <2>1
  <2> HIDE DEF S, T
  <2>5. Total(HeldOf, S) <= Total(HeldOf', T)
    BY <1>2, <2>1, <2>3, <2>4, TotalMonotone
  <2> QED BY <2>2, <2>5
<1>8. \A i \in 1 .. Last : StageBudget(i) <= StageBudget(i)'
  <2> SUFFICES ASSUME NEW i \in 1 .. Last PROVE StageBudget(i) <= StageBudget(i)'
    OBVIOUS
  <2>1. /\ i \in 1 .. Last' /\ stages'[i] = stages[i] /\ Held(i)' = Held(i) /\ Held(i) \in Nat
        /\ Through(i) <= Through(i)' /\ Through(i) \in Nat /\ Through(i)' \in Nat
    <3>1. i \in 1 .. Last' /\ stages'[i] = stages[i]
      BY <1>2
    <3>2. Held(i) \in Nat /\ Through(i) \in Nat
      BY <1>3 DEF ChainFacts
    <3>3. Through(i)' \in Nat
      BY <1>4, <3>1 DEF ChainFacts
    <3> QED BY <1>5, <1>7, <3>1, <3>2, <3>3
  <2>2. StageBudget(i) = Held(i) + (IF stages[i].asymptotic = "never" THEN 0 ELSE MaxCap + Through(i))
    BY DEF StageBudget, Through
  <2>3. StageBudget(i)' = Held(i)' + (IF stages'[i].asymptotic = "never" THEN 0 ELSE MaxCap + Through(i)')
    BY DEF StageBudget, Through
  <2> QED BY <2>1, <2>2, <2>3, LongestCap
<1>9. \A S \in SUBSET (1 .. Last) : \A T \in SUBSET (1 .. Last') :
        S \subseteq T => Total(BudgetOf, S) <= Total(BudgetOf', T)
  <2> SUFFICES ASSUME NEW S \in SUBSET (1 .. Last), NEW T \in SUBSET (1 .. Last'), S \subseteq T
               PROVE  Total(BudgetOf, S) <= Total(BudgetOf', T)
    OBVIOUS
  <2>1. BudgetOf \in [1 .. Last -> Nat] /\ BudgetOf' \in [1 .. Last' -> Nat] /\ Last' \in Nat
    BY <1>3, <1>4 DEF ChainFacts
  <2>2. \A j \in S : BudgetOf[j] <= BudgetOf'[j]
    <3> SUFFICES ASSUME NEW j \in S PROVE BudgetOf[j] <= BudgetOf'[j]
      OBVIOUS
    <3>1. j \in 1 .. Last /\ j \in 1 .. Last'
      OBVIOUS
    <3>2. BudgetOf[j] = StageBudget(j) /\ BudgetOf'[j] = StageBudget(j)'
      BY <3>1 DEF BudgetOf
    <3> QED BY <1>8, <3>1, <3>2
  <2> QED BY <1>2, <2>1, <2>2, TotalMonotone
<1>10. \A k \in 1 .. Last + 1 : Prefix(k) <= Prefix(k)'
  <2> SUFFICES ASSUME NEW k \in 1 .. Last + 1 PROVE Prefix(k) <= Prefix(k)'
    OBVIOUS
  <2>1. 1 .. k - 1 \in SUBSET (1 .. Last) /\ 1 .. k - 1 \in SUBSET (1 .. Last')
    BY <1>2
  <2>2. Prefix(k) = Total(BudgetOf, 1 .. k - 1) /\ Prefix(k)' = Total(BudgetOf', 1 .. k - 1)
    BY DEF Prefix, BudgetOf
  <2> QED BY <1>9, <2>1, <2>2
<1>11. Budget <= Budget'
  <2>1. 1 .. Last \in SUBSET (1 .. Last) /\ 1 .. Last' \in SUBSET (1 .. Last') /\ 1 .. Last \subseteq 1 .. Last'
    BY <1>2
  <2>2. Budget = Total(BudgetOf, 1 .. Last) /\ Budget' = Total(BudgetOf', 1 .. Last')
    BY DEF Budget, BudgetOf
  <2> QED BY <1>9, <2>1, <2>2
<1>12. Last' <= MaxStages
  BY <1>2, ChainAssumption DEF Add
<1> QED BY <1>2, <1>5, <1>7, <1>8, <1>10, <1>11, <1>12

-----------------------------------------------------------------------------
(* One round of the loop.                                                  *)

\* With the stages unchanged nothing that is derived from them alone changes.
LEMMA StagesUnchanged ==
  ASSUME UNCHANGED stages
  PROVE  /\ Last' = Last /\ Budget' = Budget
         /\ \A i : /\ Held(i)' = Held(i) /\ Through(i)' = Through(i)
                   /\ StageBudget(i)' = StageBudget(i) /\ Prefix(i)' = Prefix(i)
<1>1. Last' = Last
  BY DEF Last
<1>2. \A i : Held(i)' = Held(i)
  BY DEF Held
<1>3. \A i : Barrier(i)' = Barrier(i)
  BY <1>1 DEF Barrier
<1>4. \A i : Through(i)' = Through(i)
  BY <1>1, <1>2, <1>3 DEF Through
<1>5. \A i : StageBudget(i)' = StageBudget(i)
  BY <1>1, <1>2, <1>3 DEF StageBudget
<1>6. (\A i : Prefix(i)' = Prefix(i)) /\ Budget' = Budget
  BY <1>1, <1>5 DEF Prefix, Budget
<1> QED BY <1>1, <1>2, <1>4, <1>5, <1>6

\* What a round finds of the stage it drains.
DrainFacts ==
  /\ stage \in 1 .. Last /\ stage \in 1 .. MaxStages /\ policy \in Policies /\ ~complete
  /\ pc = "draining" /\ capacity - produced \in Nat
  /\ Held(stage) \in Nat /\ Through(stage) \in Nat /\ StageBudget(stage) \in Nat
  /\ stages[stage].latency \in Nat /\ Rendered \in Nat
  /\ Left \in Nat /\ Left <= Held(stage)
  /\ Protected \in Nat /\ Quiet \in Nat /\ Generated \in Nat /\ End \in Nat
  /\ Segment \in Nat /\ Segment <= capacity - produced
UnboundedFacts ==
  /\ Allowed \in Nat /\ Segment <= Allowed
  /\ stages[stage].asymptotic # "never"
  /\ StageBudget(stage) = Held(stage) + MaxCap + Through(stage)
  /\ Protected <= Through(stage) /\ Generated <= policy.max
  /\ Generated > 0 => Protected = 0
  /\ Rendered <= Held(stage) - Left + Through(stage) - Protected + Generated
  /\ drained[stage] + Protected >= stages[stage].latency + Generated
  /\ drained[stage] + Protected >= stages[stage].latency + Quiet
BoundedFacts ==
  /\ Held(stage) <= StageBudget(stage)
  /\ Protected = protected /\ Generated = generated /\ Quiet = quiet /\ End = observationEnd
  /\ \/ unknownStage # stage /\ Rendered = Held(stage) - Left
     \/ /\ unknownStage = stage /\ stage \in begun
        /\ StageBudget(stage) = Held(stage) + MaxCap + Through(stage)
        /\ Rendered = Held(stage) - Left + Through(stage) - protected + generated
        /\ protected <= Through(stage) /\ generated <= policy.max

\* What the stage that is drained may rely on, with a known finish and without.
LEMMA DrainIs ==
  ASSUME IInv, Draining
  PROVE  DrainFacts /\ (Unbounded => UnboundedFacts) /\ (~Unbounded => BoundedFacts)
<1> USE DEF IInv, TypeOK
<1>1. /\ stages \in Seq(Kinds) /\ ChainFacts /\ stage \in 1 .. Last
      /\ stage \in 1 .. MaxStages
  <2>1. stages \in Seq(Kinds) /\ ChainFacts
    BY ChainIs DEF ConfigType
  <2>2. Last \in Nat /\ Last <= MaxStages /\ stage \in 1 .. Last + 1 /\ stage <= Last
    BY <2>1 DEF ConfigType, FinishType, Draining, ChainFacts
  <2>3. MaxStages \in Nat
    BY ChainAssumption
  <2> QED BY <2>1, <2>2, <2>3
<1>2. /\ Held(stage) \in Nat /\ Through(stage) \in Nat /\ StageBudget(stage) \in Nat
      /\ stages[stage].latency \in Nat /\ stages[stage].tail \in Nat /\ Barrier(stage) \in Nat
      /\ Protection(stage, Barrier(stage)) \in Nat
      /\ stages[stage].latency <= Protection(stage, Barrier(stage))
      /\ Protection(stage, Barrier(stage)) <= Through(stage)
      /\ stages[stage].asymptotic # "never" => StageBudget(stage) = Held(stage) + MaxCap + Through(stage)
      /\ Held(stage) <= StageBudget(stage)
  <2>1. /\ Held(stage) \in Nat /\ Through(stage) \in Nat /\ StageBudget(stage) \in Nat
        /\ stages[stage].latency \in Nat /\ stages[stage].tail \in Nat
        /\ Barrier(stage) \in stage + 1 .. Last + 1
        /\ Protection(stage, Barrier(stage)) \in Nat
        /\ stages[stage].latency <= Protection(stage, Barrier(stage))
        /\ Protection(stage, Barrier(stage)) <= Through(stage)
        /\ stages[stage].asymptotic # "never" => StageBudget(stage) = Held(stage) + MaxCap + Through(stage)
        /\ stages[stage].asymptotic = "never" => StageBudget(stage) = Held(stage)
    BY <1>1 DEF ChainFacts
  <2>2. Barrier(stage) \in Nat
    BY <1>1, <2>1 DEF ChainFacts
  <2>3. Held(stage) <= StageBudget(stage)
    BY <2>1, LongestCap
  <2> QED BY <2>1, <2>2, <2>3
<1>3. /\ policy \in Policies /\ ~complete /\ pc = "draining" /\ capacity - produced \in Nat
      /\ produced \in Nat /\ capacity \in Nat
      /\ policy.max \in Nat /\ policy.hold \in Nat \ {0} /\ policy.hold <= policy.max
  <2>1. policy \in Policies /\ ~complete /\ pc = "draining"
    BY DEF Draining, OrderInv, FinishType
  <2>2. produced \in Nat /\ capacity \in Nat /\ produced < capacity
    BY DEF Draining, CallType
  <2> QED BY <2>1, <2>2, PolicyIs
<1>4. /\ left \in Nat /\ protected \in Nat /\ quiet \in Nat /\ generated \in Nat
      /\ observationEnd \in Nat /\ drained[stage] \in Nat
      /\ unknownStage = 0 \/ (unknownStage = stage /\ stage \in begun)
      /\ unknownStage = stage => stages[stage].asymptotic # "never"
      /\ stage \in begun /\ stage \in unknown => unknownStage = stage
      /\ unknownStage # stage => protected = 0 /\ quiet = 0 /\ generated = 0
      /\ generated <= policy.max
      /\ generated > 0 => protected = 0
      /\ stage \in begun => left <= Held(stage)
      /\ unknownStage = stage => protected <= Through(stage)
      /\ unknownStage = stage =>
           /\ drained[stage] + protected >= stages[stage].latency + generated
           /\ drained[stage] + protected >= stages[stage].latency + quiet
  BY <1>1 DEF ConfigType, FinishType, CallType, ObservationInv, BudgetInv, CutInv
<1>5. Unbounded => stages[stage].asymptotic # "never"
  BY DEF Unbounded, ObservationInv
<1>6. Left \in Nat /\ Left <= Held(stage) /\ (stage \in begun => Left = left)
                   /\ (stage \notin begun => Left = Held(stage))
  BY <1>2, <1>4 DEF Left, Held
<1>7. Protected \in Nat /\ Quiet \in Nat /\ Generated \in Nat /\ End \in Nat
  BY <1>2, <1>4 DEF Protected, Quiet, Generated, End
<1>8. Rendered \in Nat
  BY <1>2, <1>4 DEF Rendered
<1>9. /\ Allowed \in Nat /\ Segment \in Nat /\ Segment <= capacity - produced
      /\ Unbounded => Segment <= Allowed
  <2>1. Allowed \in Nat
    BY <1>3, <1>7 DEF Allowed, Smaller, Less
  <2> HIDE DEF Allowed
  <2> QED BY <1>3, <2>1 DEF Segment, Smaller
<1>10. DrainFacts
  BY <1>1, <1>2, <1>3, <1>6, <1>7, <1>8, <1>9 DEF DrainFacts
<1>11. ASSUME Unbounded PROVE UnboundedFacts
  <2>1. CASE Fresh
    <3>1. stage \notin begun /\ Rendered = 0
      BY <1>4, <2>1 DEF Fresh, Unbounded, Rendered
    <3>2. Protected = Protection(stage, Barrier(stage)) /\ Quiet = 0 /\ Generated = 0
      BY <2>1 DEF Protected, Quiet, Generated
    <3> QED BY <1>2, <1>3, <1>4, <1>5, <1>6, <1>9, <1>11, <3>1, <3>2 DEF UnboundedFacts
  <2>2. CASE ~Fresh
    <3>1. unknownStage = stage /\ stage \in begun
      BY <1>1, <1>4, <1>11, <2>2 DEF Fresh
    <3>2. Rendered = Held(stage) - left + Through(stage) - protected + generated
      BY <3>1 DEF Rendered
    <3>3. Protected = protected /\ Quiet = quiet /\ Generated = generated
      BY <2>2 DEF Protected, Quiet, Generated
    <3> QED BY <1>2, <1>3, <1>4, <1>5, <1>6, <1>9, <1>11, <3>1, <3>2, <3>3 DEF UnboundedFacts
  <2> QED BY <2>1, <2>2
<1>12. ASSUME ~Unbounded PROVE BoundedFacts
  <2>1. Protected = protected /\ Generated = generated /\ Quiet = quiet /\ End = observationEnd
    BY <1>12 DEF Protected, Generated, Quiet, End, Fresh
  <2>2. CASE unknownStage = stage
    <3>1. stage \in begun /\ Rendered = Held(stage) - left + Through(stage) - protected + generated
      BY <1>1, <1>4, <2>2 DEF Rendered
    <3> QED BY <1>2, <1>4, <1>6, <2>1, <2>2, <3>1 DEF BoundedFacts
  <2>3. CASE unknownStage # stage
    <3>1. Rendered = Held(stage) - Left
      BY <1>2, <1>4, <1>6, <2>3 DEF Rendered
    <3> QED BY <1>2, <2>1, <2>3, <3>1 DEF BoundedFacts
  <2> QED BY <2>2, <2>3
<1> QED BY <1>10, <1>11, <1>12

\* Stages that read their parameters anew report a tail of unknown length only
\* if they can have one.
LEMMA ResyncIs ==
  ASSUME IInv, NEW S, Resync(S)
  PROVE  /\ unknown' \in SUBSET (1 .. Last)
         /\ \A i \in unknown' : stages[i].asymptotic # "never" /\ (i \in unknown \/ i \in S)
<1>1. PICK on \in SUBSET (S \cap Switched) : unknown' = (unknown \ (S \cap Switched)) \cup on
  BY DEF Resync
<1>2. unknown \in SUBSET (1 .. Last) /\ \A i \in unknown : stages[i].asymptotic # "never"
  BY DEF IInv, TypeOK, ConfigType, ObservationInv
<1>3. Switched \subseteq 1 .. Last /\ \A i \in Switched : stages[i].asymptotic # "never"
  BY DEF Switched, Last
<1> QED BY <1>1, <1>2, <1>3

\* No stage is pushed input after its own finish began.
LEMMA PushIs ==
  ASSUME IInv, Draining, NEW k \in Nat, PushDownstream(stage + 1 .. k),
         begun' = begun \cup {stage}
  PROVE  /\ unknown' \in SUBSET (1 .. Last)
         /\ \A i \in unknown' : stages[i].asymptotic # "never"
         /\ stage \in unknown' => stage \in unknown
         /\ tripped' = FALSE
<1>1. stage \in 1 .. Last /\ Last \in Nat /\ begun \subseteq 1 .. stage /\ tripped = FALSE
  BY ChainIs DEF IInv, TypeOK, ConfigType, FinishType, Draining, OrderInv, ChainFacts
<1>2. tripped' = FALSE
  <2>1. tripped' = (tripped \/ \E j \in stage + 1 .. k : j \in begun')
    BY DEF PushDownstream
  <2>2. \A j \in stage + 1 .. k : j \notin begun'
    BY <1>1
  <2> QED BY <1>1, <2>1, <2>2
<1>3. CASE Resync(stage + 1 .. k)
  <2>1. stage \notin stage + 1 .. k
    BY <1>1
  <2> QED BY <1>2, <1>3, <2>1, ResyncIs
<1>4. CASE stage \in Switched /\ unknown' = unknown \ {stage}
  BY <1>2, <1>4 DEF IInv, TypeOK, ConfigType, ObservationInv
<1> QED BY <1>3, <1>4 DEF PushDownstream

\* The drain leaves the stage after n more frames, and these were paid for.
LEMMA AdvanceKeeps ==
  ASSUME IInv, Draining, NEW n \in Nat, Advance,
         UNCHANGED <<stages, complete, policy, pc, capacity, emitted, failures>>,
         begun' = begun \cup {stage} \/ begun' = begun, capped' \in BOOLEAN,
         unknown' \in SUBSET (1 .. Last), \A i \in unknown' : stages[i].asymptotic # "never",
         tripped' = FALSE,
         produced' = produced + n, n <= capacity - produced,
         drained' = [drained EXCEPT ![stage] = @ + n],
         Rendered + n <= StageBudget(stage),
         \/ cut' = cut
         \/ cut' = cut \cup {stage} /\ drained[stage] + n >= stages[stage].latency + policy.hold
  PROVE  IInv'
<1>1. DrainFacts /\ stages \in Seq(Kinds) /\ ChainFacts
  BY DrainIs, ChainIs DEF IInv, TypeOK, ConfigType
<1>2. /\ stage \in 1 .. Last /\ stage \in 1 .. MaxStages /\ Last \in Nat
      /\ stage' = stage + 1 /\ Last' = Last /\ 1 .. Last \subseteq 1 .. MaxStages
  <2>1. Last <= MaxStages /\ MaxStages \in Nat
    BY ChainAssumption DEF IInv, TypeOK, ConfigType
  <2> QED BY <1>1, <2>1, StagesUnchanged DEF DrainFacts, ChainFacts, Advance
<1>3. /\ drained \in [1 .. MaxStages -> Nat] /\ drained[stage] \in Nat
      /\ cut \in SUBSET (1 .. Last) /\ begun \in SUBSET (1 .. Last) /\ begun \subseteq 1 .. stage
      /\ drained'[stage] = drained[stage] + n
      /\ \A i \in 1 .. Last : drained[i] \in Nat /\ (i # stage => drained'[i] = drained[i])
  <2>1. /\ drained \in [1 .. MaxStages -> Nat]
        /\ cut \in SUBSET (1 .. Last) /\ begun \in SUBSET (1 .. Last) /\ begun \subseteq 1 .. stage
    BY DEF IInv, TypeOK, ConfigType, CallType, OrderInv
  <2> QED BY <1>2, <2>1
<1>4. TypeOK'
  <2>1. ConfigType'
    <3>1. stages' \in Seq(Kinds) /\ Last' <= MaxStages
      BY <1>2 DEF IInv, TypeOK, ConfigType
    <3>2. unknown' \in SUBSET (1 .. Last') /\ begun' \in SUBSET (1 .. Last') /\ left' \in Nat /\ ended' \in BOOLEAN
      BY <1>2, <1>3 DEF Advance
    <3> QED BY <3>1, <3>2 DEF ConfigType
  <2>2. FinishType'
    BY <1>2 DEF IInv, TypeOK, FinishType, Advance
  <2>3. CallType'
    <3>1. drained' \in [1 .. MaxStages -> Nat]
      <4>1. drained[stage] + n \in Nat
        BY <1>3
      <4> QED BY <1>2, <1>3, <4>1
    <3>2. cut' \in SUBSET (1 .. Last')
      BY <1>2, <1>3
    <3>3. produced' \in Nat
      BY DEF IInv, TypeOK, CallType
    <3> QED BY <3>1, <3>2, <3>3 DEF IInv, TypeOK, CallType
  <2> QED BY <2>1, <2>2, <2>3 DEF TypeOK
<1>5. OrderInv'
  <2>1. policy # NoPolicy /\ pc = "draining" /\ ~complete
    BY <1>1, PolicyIs DEF DrainFacts
  <2>2. produced \in Nat /\ capacity \in Nat /\ capacity \in Capacities \ {0}
    BY <2>1 DEF IInv, TypeOK, CallType, OrderInv
  <2>3. produced' <= capacity'
    BY <2>2
  <2>4. begun' \subseteq 1 .. stage'
    <3>1. 1 .. stage \subseteq 1 .. stage + 1 /\ stage \in 1 .. stage + 1
      BY <1>2
    <3> QED BY <1>2, <1>3, <3>1
  <2> QED BY <2>1, <2>2, <2>3, <2>4 DEF OrderInv
<1>6. stage' \notin begun'
  <2>1. stage + 1 \notin 1 .. stage /\ stage + 1 # stage
    BY <1>2
  <2> QED BY <1>2, <1>3, <2>1
<1>7. ObservationInv'
  <2>1. policy.max \in Nat
    BY <1>1, PolicyIs DEF DrainFacts
  <2> QED BY <1>2, <1>6, <2>1 DEF ObservationInv, Advance
<1>8. BudgetInv'
  <2>1. Rendered' = 0 /\ unknownStage' = 0 /\ unknownStage' # stage'
    BY <1>2, <1>6 DEF Rendered, Advance
  <2>2. ASSUME failures = 0, NEW i \in 1 .. Last, i < stage'
        PROVE  drained'[i] <= StageBudget(i)'
    <3>1. CASE i = stage
      <4>1. drained[stage] <= Rendered
        BY <1>2, <1>3, <2>2 DEF IInv, BudgetInv
      <4>2. Rendered \in Nat /\ StageBudget(stage) \in Nat
        BY <1>1 DEF DrainFacts
      <4>3. drained'[stage] <= StageBudget(stage)
        BY <1>3, <4>1, <4>2
      <4> QED BY <3>1, <4>3, StagesUnchanged
    <3>2. CASE i # stage
      <4>1. i < stage /\ drained'[i] = drained[i]
        BY <1>2, <1>3, <2>2, <3>2
      <4> QED BY <2>2, <4>1, StagesUnchanged DEF IInv, BudgetInv
    <3> QED BY <3>1, <3>2
  <2>3. \A i \in 1 .. MaxStages : i > stage' \/ i > Last' => drained'[i] = 0
    <3> SUFFICES ASSUME NEW i \in 1 .. MaxStages, i > stage' \/ i > Last' PROVE drained'[i] = 0
      OBVIOUS
    <3>1. (i > stage \/ i > Last) /\ i # stage
      BY <1>2
    <3>2. drained[i] = 0
      BY <3>1 DEF IInv, BudgetInv
    <3> QED BY <1>3, <3>1, <3>2
  <2>4. emitted' + produced' <= Prefix(stage)' + Rendered'
    <3>1. emitted + produced <= Prefix(stage) + Rendered /\ emitted \in Nat /\ produced \in Nat
      BY DEF IInv, BudgetInv, TypeOK, CallType
    <3>2. Prefix(stage + 1) = Prefix(stage) + StageBudget(stage) /\ Prefix(stage) \in Nat
      BY <1>1, <1>2 DEF ChainFacts
    <3>3. Rendered \in Nat /\ StageBudget(stage) \in Nat
      BY <1>1 DEF DrainFacts
    <3>4. Prefix(stage)' = Prefix(stage + 1)
      BY <1>2, StagesUnchanged DEF Prefix, StageBudget
    <3> QED BY <2>1, <3>1, <3>2, <3>3, <3>4
  <2>5. failures' = 0 =>
          /\ \A i \in 1 .. Last' : i < stage' => drained'[i] <= StageBudget(i)'
          /\ stage' <= Last' => drained'[stage'] <= Rendered'
    <3> SUFFICES ASSUME failures = 0
                 PROVE  /\ \A i \in 1 .. Last : i < stage' => drained'[i] <= StageBudget(i)'
                        /\ stage' <= Last => drained'[stage'] <= Rendered'
      BY <1>2
    <3>1. stage' <= Last => drained'[stage'] = 0
      <4>1. stage' <= Last => stage' \in 1 .. MaxStages /\ stage' > stage /\ stage' # stage
        BY <1>2
      <4> QED BY <1>2, <1>3, <4>1 DEF IInv, BudgetInv
    <3> QED BY <2>1, <2>2, <3>1
  <2> QED BY <1>6, <2>1, <2>3, <2>4, <2>5 DEF BudgetInv
<1>9. CutInv'
  <2>1. unknownStage' # stage'
    BY <1>2 DEF Advance
  <2>2. ASSUME NEW i \in cut' PROVE drained'[i] >= stages'[i].latency + policy'.hold
    <3>0. i \in 1 .. Last /\ drained[i] \in Nat
      BY <1>2, <1>3, <2>2
    <3>1. CASE i = stage /\ drained[stage] + n >= stages[stage].latency + policy.hold
      BY <1>3, <3>0, <3>1
    <3>2. CASE i \in cut
      <4>1. drained[i] >= stages[i].latency + policy.hold /\ drained'[i] >= drained[i]
        BY <1>2, <1>3, <3>0, <3>2 DEF IInv, CutInv
      <4>2. stages[i].latency \in Nat
        BY <1>1, <3>0 DEF ChainFacts
      <4>3. policy.hold \in Nat
        BY <1>1, PolicyIs DEF DrainFacts
      <4>4. drained'[i] \in Nat
        BY <1>2, <1>3, <3>0
      <4> QED BY <3>0, <4>1, <4>2, <4>3, <4>4
    <3> QED BY <2>2, <3>1, <3>2
  <2> QED BY <2>1, <2>2 DEF CutInv
<1> QED BY <1>4, <1>5, <1>7, <1>8, <1>9 DEF IInv

\* The drain stays on the stage after n more frames, of which those that were
\* paid for reach the caller: all of them, or none if the call fails.
LEMMA StayKeeps ==
  ASSUME IInv, Draining, NEW n \in Nat, NEW paid \in Nat,
         NEW p \in Nat, NEW q \in Nat, NEW g \in Nat, Observe(p, q, g),
         UNCHANGED <<stages, stage, complete, policy, emitted>>,
         cut' = cut, capped' = capped,
         begun' = begun \cup {stage}, ended' \in BOOLEAN,
         unknown' \in SUBSET (1 .. Last), \A i \in unknown' : stages[i].asymptotic # "never",
         stage \in unknown' => stage \in unknown,
         tripped' = FALSE,
         drained' = [drained EXCEPT ![stage] = @ + n],
         \/ /\ UNCHANGED <<pc, capacity, failures>> /\ produced' = produced + n
            /\ n <= capacity - produced /\ paid = n
         \/ /\ pc' = "idle" /\ capacity' = 0 /\ produced' = 0 /\ failures' = failures + 1
            /\ paid = 0,
         Unbounded => /\ left' = Left /\ g + Protected >= Generated + p + paid
                      /\ p <= Through(stage) /\ g <= policy.max /\ (g > 0 => p = 0)
                      /\ drained[stage] + n + p >= stages[stage].latency + g
                      /\ drained[stage] + n + p >= stages[stage].latency + q,
         ~Unbounded => /\ p = Protected /\ q = Quiet /\ g = Generated
                       /\ n <= Left /\ left' = Left - n /\ paid <= n
  PROVE  IInv'
<1>1. /\ DrainFacts /\ stages \in Seq(Kinds) /\ ChainFacts
      /\ (Unbounded => UnboundedFacts) /\ (~Unbounded => BoundedFacts)
  BY DrainIs, ChainIs DEF IInv, TypeOK, ConfigType
<1>2. /\ stage \in 1 .. Last /\ stage \in 1 .. MaxStages /\ Last \in Nat
      /\ stage' = stage /\ Last' = Last /\ 1 .. Last \subseteq 1 .. MaxStages
  <2>1. Last <= MaxStages /\ MaxStages \in Nat
    BY ChainAssumption DEF IInv, TypeOK, ConfigType
  <2> QED BY <1>1, <2>1, StagesUnchanged DEF DrainFacts, ChainFacts
<1>3. /\ drained \in [1 .. MaxStages -> Nat] /\ drained[stage] \in Nat
      /\ cut \in SUBSET (1 .. Last) /\ begun \in SUBSET (1 .. Last) /\ begun \subseteq 1 .. stage
      /\ drained'[stage] = drained[stage] + n
      /\ \A i \in 1 .. Last : drained[i] \in Nat /\ (i # stage => drained'[i] = drained[i])
  <2>1. /\ drained \in [1 .. MaxStages -> Nat]
        /\ cut \in SUBSET (1 .. Last) /\ begun \in SUBSET (1 .. Last) /\ begun \subseteq 1 .. stage
    BY DEF IInv, TypeOK, ConfigType, CallType, OrderInv
  <2> QED BY <1>2, <2>1
<1>4. /\ unknownStage \in Nat /\ failures \in Nat /\ produced \in Nat /\ capacity \in Nat /\ emitted \in Nat
      /\ policy # NoPolicy /\ pc = "draining" /\ ~complete /\ policy.max \in Nat /\ policy.hold \in Nat
      /\ capacity \in Capacities \ {0} /\ capacity - produced \in Nat
  BY <1>1, PolicyIs DEF IInv, TypeOK, FinishType, CallType, DrainFacts, OrderInv
<1>5. /\ Held(stage) \in Nat /\ Through(stage) \in Nat /\ StageBudget(stage) \in Nat
      /\ Left \in Nat /\ Left <= Held(stage) /\ Rendered \in Nat /\ left' \in Nat /\ left' <= Held(stage)
      /\ Protected \in Nat /\ Generated \in Nat
      /\ stages[stage].latency \in Nat
  <2>1. /\ Held(stage) \in Nat /\ Through(stage) \in Nat /\ StageBudget(stage) \in Nat
        /\ Left \in Nat /\ Left <= Held(stage) /\ Rendered \in Nat
        /\ Protected \in Nat /\ Generated \in Nat
        /\ stages[stage].latency \in Nat
    BY <1>1 DEF DrainFacts
  <2>2. left' \in Nat /\ left' <= Held(stage)
    <3>1. CASE Unbounded
      BY <2>1, <3>1
    <3>2. CASE ~Unbounded
      BY <2>1, <3>2
    <3> QED BY <3>1, <3>2
  <2> QED BY <2>1, <2>2
\* What is observed now.
<1>6. /\ unknownStage' = IF Unbounded THEN stage ELSE unknownStage
      /\ observationEnd' \in Nat /\ protected' = p /\ quiet' = q /\ generated' = g
  BY <1>1 DEF Observe, DrainFacts
<1>7. /\ stage \in begun' /\ Held(stage)' = Held(stage) /\ Through(stage)' = Through(stage)
      /\ StageBudget(stage)' = StageBudget(stage) /\ Prefix(stage)' = Prefix(stage)
  BY <1>2, StagesUnchanged DEF Held, Through, StageBudget, Prefix, Barrier
<1>8. TypeOK'
  <2>1. ConfigType'
    <3>1. stages' \in Seq(Kinds) /\ Last' <= MaxStages
      BY <1>2 DEF IInv, TypeOK, ConfigType
    <3>2. unknown' \in SUBSET (1 .. Last') /\ begun' \in SUBSET (1 .. Last')
      BY <1>2, <1>3
    <3> QED BY <1>5, <3>1, <3>2 DEF ConfigType
  <2>2. FinishType'
    <3>1. unknownStage' \in Nat
      BY <1>2, <1>4, <1>6
    <3> QED BY <1>2, <1>6, <3>1 DEF IInv, TypeOK, FinishType
  <2>3. CallType'
    <3>1. drained' \in [1 .. MaxStages -> Nat]
      <4>1. drained[stage] + n \in Nat
        BY <1>3
      <4> QED BY <1>2, <1>3, <4>1
    <3>2. cut' \in SUBSET (1 .. Last') /\ tripped' \in BOOLEAN /\ emitted' \in Nat
      BY <1>2, <1>3, <1>4
    <3>3. produced' \in Nat /\ capacity' \in Nat /\ failures' \in Nat /\ pc' \in {"idle", "draining"}
      BY <1>4
    <3> QED BY <3>1, <3>2, <3>3 DEF CallType
  <2> QED BY <2>1, <2>2, <2>3 DEF TypeOK
<1>9. OrderInv'
  <2>1. begun' \subseteq 1 .. stage'
    BY <1>2, <1>3
  <2>2. pc' = "draining" => capacity' \in Capacities \ {0} /\ produced' <= capacity'
    BY <1>4
  <2>3. pc' = "idle" => produced' = 0
    BY <1>4
  <2> QED BY <1>4, <2>1, <2>2, <2>3 DEF OrderInv
\* What the frames rendered so far may be.
<1> DEFINE Goal ==
             /\ ObservationInv' /\ Rendered' >= Rendered + paid /\ Rendered' \in Nat
             /\ Rendered' >= Rendered
             /\ unknownStage' = stage' =>
                  /\ protected' <= Through(stage)
                  /\ drained'[stage] + protected' >= stages[stage].latency + generated'
                  /\ drained'[stage] + protected' >= stages[stage].latency + quiet'
<1>10. ASSUME Unbounded PROVE Goal
  <2>1. unknownStage' = stage' /\ stages[stage].asymptotic # "never"
    BY <1>1, <1>2, <1>6, <1>10 DEF UnboundedFacts
  <2>2. Rendered' = Held(stage) - left' + Through(stage) - p + g
    BY <1>2, <1>6, <1>7, <2>1 DEF Rendered
  <2>3. Rendered' >= Rendered + paid /\ Rendered' \in Nat /\ Rendered' >= Rendered
    <3>1. Rendered <= Held(stage) - Left + Through(stage) - Protected + Generated
      BY <1>1, <1>10 DEF UnboundedFacts
    <3> QED BY <1>5, <1>10, <2>2, <3>1
  <2>4. ObservationInv'
    BY <1>2, <1>6, <1>7, <1>10, <2>1 DEF ObservationInv
  <2>5. /\ drained'[stage] + protected' >= stages[stage].latency + generated'
        /\ drained'[stage] + protected' >= stages[stage].latency + quiet'
    BY <1>3, <1>6, <1>10
  <2>6. protected' <= Through(stage)
    BY <1>6, <1>10
  <2> QED BY <2>1, <2>3, <2>4, <2>5, <2>6
<1>11. ASSUME ~Unbounded PROVE Goal
  <2>1. /\ unknownStage' = unknownStage /\ stage \notin unknown'
        /\ p = protected /\ q = quiet /\ g = generated
    BY <1>1, <1>6, <1>11 DEF BoundedFacts, Unbounded
  <2>2. ObservationInv'
    BY <1>2, <1>6, <1>7, <2>1 DEF IInv, ObservationInv
  <2>3. CASE unknownStage # stage
    <3>1. Rendered = Held(stage) - Left
      BY <1>1, <1>11, <2>3 DEF BoundedFacts
    <3>2. Rendered' = Held(stage) - left'
      BY <1>2, <1>7, <2>1, <2>3 DEF Rendered
    <3>3. Rendered' >= Rendered + paid /\ Rendered' \in Nat /\ Rendered' >= Rendered
      BY <1>5, <1>11, <3>1, <3>2
    <3> QED BY <1>2, <2>1, <2>2, <2>3, <3>3
  <2>4. CASE unknownStage = stage
    <3>1. /\ Rendered = Held(stage) - Left + Through(stage) - protected + generated
          /\ protected <= Through(stage)
      BY <1>1, <1>11, <2>4 DEF BoundedFacts
    <3>2. Rendered' = Held(stage) - left' + Through(stage) - p + g
      BY <1>2, <1>6, <1>7, <2>1, <2>4 DEF Rendered
    <3>3. Rendered' >= Rendered + paid /\ Rendered' \in Nat /\ Rendered' >= Rendered
      BY <1>5, <1>11, <2>1, <3>1, <3>2
    <3>4. /\ drained[stage] + p >= stages[stage].latency + g
          /\ drained[stage] + p >= stages[stage].latency + q
      BY <2>1, <2>4 DEF IInv, CutInv
    <3>5. /\ drained'[stage] + protected' >= stages[stage].latency + generated'
          /\ drained'[stage] + protected' >= stages[stage].latency + quiet'
      <4>1. /\ (drained[stage] + n) + p >= stages[stage].latency + g
            /\ (drained[stage] + n) + p >= stages[stage].latency + q
        <5>1. \A d, l, a, b \in Nat : d + a >= l + b => (d + n) + a >= l + b
          OBVIOUS
        <5> QED BY <1>3, <1>5, <3>4, <5>1
      <4> QED BY <1>3, <1>6, <4>1
    <3> QED BY <1>2, <1>6, <2>1, <2>2, <3>1, <3>3, <3>5
  <2> QED BY <2>3, <2>4
<1>12. Goal
  BY <1>10, <1>11
<1>13. BudgetInv'
  <2>1. failures' = 0 => failures = 0 /\ paid = n
    BY <1>4
  <2>2. ASSUME failures' = 0
        PROVE  /\ \A i \in 1 .. Last : i < stage => drained'[i] <= StageBudget(i)'
               /\ drained'[stage] <= Rendered'
    <3>1. \A i \in 1 .. Last : i < stage => drained'[i] <= StageBudget(i)'
      <4> SUFFICES ASSUME NEW i \in 1 .. Last, i < stage PROVE drained'[i] <= StageBudget(i)'
        OBVIOUS
      <4>1. drained'[i] = drained[i] /\ drained[i] <= StageBudget(i)
        BY <1>2, <1>3, <2>1, <2>2 DEF IInv, BudgetInv
      <4> QED BY <4>1, StagesUnchanged
    <3>2. drained'[stage] <= Rendered'
      <4>1. drained[stage] <= Rendered
        BY <1>2, <2>1, <2>2 DEF IInv, BudgetInv
      <4> QED BY <1>3, <1>5, <1>12, <2>1, <2>2, <4>1
    <3> QED BY <3>1, <3>2
  <2>3. emitted' + produced' <= Prefix(stage)' + Rendered'
    <3>1. emitted + produced <= Prefix(stage) + Rendered
      BY DEF IInv, BudgetInv
    <3>2. Prefix(stage) \in Nat
      <4>1. stage \in 1 .. Last + 1
        BY <1>2
      <4> QED BY <1>1, <4>1 DEF ChainFacts
    <3>3. emitted' + produced' <= emitted + produced + paid
      BY <1>4
    <3>4. emitted' = emitted /\ produced' \in Nat
      BY <1>4
    <3> QED BY <1>4, <1>5, <1>7, <1>12, <3>1, <3>2, <3>3, <3>4
  <2>4. \A i \in 1 .. MaxStages : i > stage' \/ i > Last' => drained'[i] = 0
    <3> SUFFICES ASSUME NEW i \in 1 .. MaxStages, i > stage \/ i > Last PROVE drained'[i] = 0
      BY <1>2
    <3>1. i # stage
      BY <1>2
    <3> QED BY <1>3, <3>1 DEF IInv, BudgetInv
  <2> QED BY <1>2, <1>5, <1>7, <1>12, <2>2, <2>3, <2>4 DEF BudgetInv
<1>14. CutInv'
  <2>1. ASSUME NEW i \in cut' PROVE drained'[i] >= stages'[i].latency + policy'.hold
    <3>1. i \in 1 .. Last /\ i \in cut /\ drained[i] \in Nat /\ drained[i] >= stages[i].latency + policy.hold
      BY <1>3, <2>1 DEF IInv, CutInv
    <3>2. stages[i].latency \in Nat
      BY <1>1, <3>1 DEF ChainFacts
    <3>3. drained'[i] \in Nat /\ drained'[i] >= drained[i]
      BY <1>2, <1>3, <3>1
    <3> QED BY <1>4, <3>1, <3>2, <3>3
  <2> QED BY <1>2, <1>12, <2>1 DEF CutInv
<1> QED BY <1>8, <1>9, <1>12, <1>13, <1>14 DEF IInv

\* The frames rendered so far are within the budget of the stage, whether or
\* not a call is in progress.
LEMMA RenderedIs ==
  ASSUME IInv, stage \in 1 .. Last
  PROVE  Rendered \in Nat /\ Rendered <= StageBudget(stage) /\ StageBudget(stage) \in Nat
<1>1. stages \in Seq(Kinds) /\ ChainFacts
  BY ChainIs DEF IInv, TypeOK, ConfigType
<1>2. /\ Held(stage) \in Nat /\ Through(stage) \in Nat /\ StageBudget(stage) \in Nat
      /\ stages[stage].asymptotic = "never" => StageBudget(stage) = Held(stage)
      /\ stages[stage].asymptotic # "never" => StageBudget(stage) = Held(stage) + MaxCap + Through(stage)
  BY <1>1 DEF ChainFacts
<1>3. /\ left \in Nat /\ protected \in Nat /\ generated \in Nat /\ generated <= policy.max
      /\ stage \in begun => left <= Held(stage)
      /\ unknownStage = stage => protected <= Through(stage) /\ stages[stage].asymptotic # "never"
  BY DEF IInv, TypeOK, ConfigType, FinishType, ObservationInv, BudgetInv
<1>4. policy.max \in Nat /\ policy.max <= MaxCap /\ MaxCap \in Nat
  BY PolicyIs, LongestCap DEF IInv, TypeOK, FinishType, NoPolicy
<1>5. CASE stage \notin begun
  BY <1>2, <1>5 DEF Rendered
<1>6. CASE stage \in begun /\ unknownStage = stage
  <2>1. Rendered = Held(stage) - left + Through(stage) - protected + generated
    BY <1>6 DEF Rendered
  <2>2. left <= Held(stage) /\ protected <= Through(stage)
        /\ StageBudget(stage) = Held(stage) + MaxCap + Through(stage)
    BY <1>2, <1>3, <1>6
  <2> QED BY <1>2, <1>3, <1>4, <2>1, <2>2
<1>7. CASE stage \in begun /\ unknownStage # stage
  <2>1. Rendered = Held(stage) - left /\ left <= Held(stage)
    BY <1>3, <1>7 DEF Rendered
  <2>2. Held(stage) <= StageBudget(stage)
    BY <1>2, LongestCap
  <2> QED BY <1>2, <1>3, <2>1, <2>2
<1> QED BY <1>5, <1>6, <1>7

\* What the finish of a stage rendered was allowed, and is within its budget.
LEMMA RenderIs ==
  ASSUME IInv, Draining, NEW n \in 0 .. Segment, ~Unbounded => n <= Left
  PROVE  /\ n \in Nat /\ n <= capacity - produced
         /\ Rendered + n <= StageBudget(stage)
<1>1. DrainFacts /\ (Unbounded => UnboundedFacts) /\ (~Unbounded => BoundedFacts)
  BY DrainIs
<1>2. /\ Held(stage) \in Nat /\ Through(stage) \in Nat /\ Rendered \in Nat
      /\ Left \in Nat /\ Left <= Held(stage) /\ Protected \in Nat /\ Generated \in Nat /\ Quiet \in Nat
      /\ Segment \in Nat /\ Segment <= capacity - produced /\ capacity - produced \in Nat
      /\ StageBudget(stage) \in Nat
      /\ policy.max \in Nat /\ policy.hold \in Nat /\ policy.max <= MaxCap /\ MaxCap \in Nat
  BY <1>1, PolicyIs, LongestCap DEF DrainFacts
<1>3. n \in Nat /\ n <= capacity - produced
  BY <1>2
<1>4. CASE Unbounded
  <2>1. /\ Rendered <= Held(stage) - Left + Through(stage) - Protected + Generated
        /\ StageBudget(stage) = Held(stage) + MaxCap + Through(stage)
        /\ Segment <= Allowed /\ Generated <= policy.max /\ Protected <= Through(stage)
    BY <1>1, <1>4 DEF UnboundedFacts
  <2>2. Allowed <= Protected + policy.max - Generated
    BY <1>2, <2>1 DEF Allowed, Smaller, Less
  <2>3. n <= Protected + policy.max - Generated
    <3>1. Allowed \in Nat
      BY <1>1, <1>4 DEF UnboundedFacts
    <3> QED BY <1>2, <2>1, <2>2, <3>1
  <2> QED BY <1>2, <1>3, <2>1, <2>3
<1>5. CASE ~Unbounded
  <2>1. n <= Left
    BY <1>5
  <2>2. CASE unknownStage # stage
    <3>1. Rendered = Held(stage) - Left /\ Held(stage) <= StageBudget(stage)
      BY <1>1, <1>5, <2>2 DEF BoundedFacts
    <3> QED BY <1>2, <1>3, <2>1, <3>1
  <2>3. CASE unknownStage = stage
    <3>1. /\ StageBudget(stage) = Held(stage) + MaxCap + Through(stage)
          /\ Rendered = Held(stage) - Left + Through(stage) - protected + generated
          /\ protected = Protected /\ generated = Generated
          /\ protected <= Through(stage) /\ generated <= policy.max
      BY <1>1, <1>5, <2>3 DEF BoundedFacts
    <3> QED BY <1>2, <1>3, <2>1, <3>1
  <2> QED BY <2>2, <2>3
<1> QED BY <1>4, <1>5

\* A finite stage renders no more than it still holds.
LEMMA FinishIs ==
  ASSUME IInv, Draining, NEW n \in Nat, NEW done, StageFinish(n, done)
  PROVE  (~Unbounded => n <= Left) /\ n \in 0 .. Segment
<1>1. Left \in Nat /\ Segment \in Nat
  BY DrainIs DEF DrainFacts
<1> QED BY <1>1 DEF StageFinish, Renders, Smaller

\* What n frames of a tail, silent ones at their end, are observed as.
LEMMA ObservedIs ==
  ASSUME IInv, Draining, Unbounded, NEW n \in Nat, NEW silent \in Nat, silent <= Observed(n)
  PROVE  /\ Less(Protected, n) \in Nat /\ Observed(n) \in Nat /\ QuietAfter(n, silent) \in Nat
         /\ Observed(n) + Protected = Less(Protected, n) + n
         /\ Less(Protected, n) <= Protected /\ (Observed(n) > 0 => Less(Protected, n) = 0)
         /\ (drained[stage] + n) + Less(Protected, n)
              >= stages[stage].latency + (Generated + Observed(n))
         /\ (drained[stage] + n) + Less(Protected, n) >= stages[stage].latency + Generated
         /\ (drained[stage] + n) + Less(Protected, n) >= stages[stage].latency + QuietAfter(n, silent)
         /\ (drained[stage] + n) + Less(Protected, n) >= stages[stage].latency + Quiet
         /\ drained[stage] \in Nat
<1>1. /\ Protected \in Nat /\ Quiet \in Nat /\ Generated \in Nat /\ stages[stage].latency \in Nat
      /\ drained[stage] \in Nat
      /\ drained[stage] + Protected >= stages[stage].latency + Generated
      /\ drained[stage] + Protected >= stages[stage].latency + Quiet
  BY DrainIs DEF DrainFacts, UnboundedFacts, IInv, TypeOK, CallType
<1> HIDE DEF IInv
<1>2. /\ Less(Protected, n) \in Nat /\ Observed(n) \in Nat
      /\ Observed(n) + Protected = Less(Protected, n) + n
      /\ Less(Protected, n) <= Protected /\ (Observed(n) > 0 => Less(Protected, n) = 0)
  BY <1>1 DEF Observed, Less
<1>3. QuietAfter(n, silent) \in Nat /\ QuietAfter(n, silent) <= Quiet + Observed(n)
  BY <1>1, <1>2 DEF QuietAfter
<1>4. (drained[stage] + n) + Less(Protected, n) = (drained[stage] + Protected) + Observed(n)
  BY <1>1, <1>2
<1> QED BY <1>1, <1>2, <1>3, <1>4

\* The policy cuts a tail only after its latency and the whole hold.
LEMMA CutIsLate ==
  ASSUME IInv, Draining, Unbounded, NEW n \in Nat, NEW silent \in Nat, silent <= Observed(n), n > 0,
         IsQuiet(n, silent) \/ Generated + Observed(n) >= policy.max
  PROVE  drained[stage] + n >= stages[stage].latency + policy.hold
<1>1. /\ Protected \in Nat /\ Generated \in Nat /\ Quiet \in Nat /\ stages[stage].latency \in Nat
      /\ Generated > 0 => Protected = 0
      /\ policy.hold \in Nat \ {0} /\ policy.max \in Nat /\ policy.hold <= policy.max
  BY DrainIs, PolicyIs DEF DrainFacts, UnboundedFacts
<1>2. CASE Observed(n) > 0
  <2>1. Less(Protected, n) = 0
    BY <1>2, ObservedIs
  <2>2. /\ drained[stage] + n >= stages[stage].latency + (Generated + Observed(n))
        /\ drained[stage] + n >= stages[stage].latency + QuietAfter(n, silent)
        /\ Observed(n) \in Nat /\ QuietAfter(n, silent) \in Nat /\ drained[stage] \in Nat
    BY <2>1, ObservedIs
  <2> QED BY <1>1, <2>2 DEF IsQuiet
<1>3. CASE ~(Observed(n) > 0)
  <2>1. Observed(n) = 0
    BY <1>3, ObservedIs
  <2>2. Generated >= policy.max
    BY <1>1, <2>1 DEF IsQuiet
  <2>3. Protected = 0
    BY <1>1, <2>2
  <2> QED BY <1>1, <2>1, <2>3 DEF Observed, Less
<1> QED BY <1>2, <1>3

-----------------------------------------------------------------------------
(* Every action keeps the invariant.                                       *)

\* A chain whose finish is re-armed is as good as new.
LEMMA RearmedInv ==
  ASSUME stages' \in Seq(Kinds), Last' <= MaxStages, unknown' \in SUBSET (1 .. Last'),
         \A i \in unknown' : stages'[i].asymptotic # "never",
         Rearmed, pc' = "idle", capacity' = 0, produced' = 0, tripped' = FALSE, failures' \in Nat
  PROVE  IInv'
<1>1. ChainFacts'
  <2>1. (stages \in Seq(Kinds) => ChainFacts)'
    BY ChainIs, PTL
  <2> QED BY <2>1
<1>2. Last' \in Nat /\ 1 \in 1 .. Last' + 1 /\ 1 .. Last' \subseteq 1 .. MaxStages
  <2>1. Last' \in Nat
    BY <1>1 DEF ChainFacts
  <2>2. MaxStages \in Nat /\ Last' <= MaxStages
    BY ChainAssumption
  <2>3. \A a, b \in Nat : 1 \in 1 .. a + 1 /\ (a <= b => 1 .. a \subseteq 1 .. b)
    OBVIOUS
  <2> QED BY <2>1, <2>2, <2>3
<1>3. TypeOK'
  BY <1>2 DEF Rearmed, TypeOK, ConfigType, FinishType, CallType
<1>4. OrderInv'
  BY DEF Rearmed, OrderInv
<1>5. ObservationInv'
  <2>1. policy'.max = 0
    BY DEF Rearmed, NoPolicy
  <2> QED BY <2>1 DEF Rearmed, ObservationInv
<1>6. BudgetInv'
  <2>1. Rendered' = 0
    BY DEF Rearmed, Rendered
  <2>2. Prefix(stage)' \in Nat
    <3>1. stage' \in 1 .. Last' + 1
      BY <1>2 DEF Rearmed
    <3> QED BY <1>1, <3>1 DEF ChainFacts
  <2>3. \A i \in 1 .. MaxStages : drained'[i] = 0
    BY DEF Rearmed
  <2>4. \A i \in 1 .. Last' : ~(i < stage')
    BY <1>2 DEF Rearmed
  <2>5. emitted' + produced' <= Prefix(stage)' + Rendered'
    BY <2>1, <2>2 DEF Rearmed
  <2>6. stage' <= Last' => drained'[stage'] <= Rendered'
    <3>1. stage' <= Last' => stage' \in 1 .. MaxStages
      BY <1>2 DEF Rearmed
    <3> QED BY <2>1, <2>3, <3>1
  <2>7. unknownStage' # stage' /\ stage' \notin begun'
    BY DEF Rearmed
  <2> QED BY <2>3, <2>4, <2>5, <2>6, <2>7 DEF BudgetInv
<1>7. CutInv'
  BY DEF Rearmed, CutInv
<1> QED BY <1>3, <1>4, <1>5, <1>6, <1>7 DEF IInv

\* The empty chain satisfies the invariant.
LEMMA InitInv == Init => IInv
<1> SUFFICES ASSUME Init PROVE IInv
  OBVIOUS
<1>1. stages \in Seq(Kinds) /\ Last = 0 /\ 1 .. Last = {} /\ ChainFacts /\ MaxStages \in Nat
  BY ChainIs, ChainAssumption DEF Init, Last
<1>2. TypeOK
  <2>1. ConfigType
    <3>1. Last <= MaxStages
      BY <1>1
    <3>2. unknown = {} /\ begun = {} /\ left = 0 /\ ended = FALSE
      BY DEF Init
    <3>3. FALSE \in BOOLEAN
      OBVIOUS
    <3> QED BY <1>1, <3>1, <3>2, <3>3 DEF ConfigType
  <2>2. FinishType
    <3>1. stage \in 1 .. Last + 1
      BY <1>1 DEF Init
    <3> QED BY <3>1 DEF Init, FinishType
  <2>3. CallType
    BY <1>1 DEF Init, CallType
  <2> QED BY <2>1, <2>2, <2>3 DEF TypeOK
<1>3. OrderInv
  BY DEF Init, OrderInv
<1>4. ObservationInv
  <2>1. policy.max = 0
    BY DEF Init, NoPolicy
  <2> QED BY <2>1 DEF Init, ObservationInv
<1>5. BudgetInv
  BY <1>1 DEF Init, BudgetInv, Rendered, ChainFacts
<1>6. CutInv
  BY DEF Init, CutInv
<1> QED BY <1>2, <1>3, <1>4, <1>5, <1>6 DEF IInv

\* `reset` and `clear` re-arm the finish and keep the invariant.
LEMMA ResetInv == IInv /\ (Reset \/ Clear) => IInv'
<1> SUFFICES ASSUME IInv, Reset \/ Clear PROVE IInv'
  OBVIOUS
<1>1. /\ pc = "idle" /\ produced = 0 /\ capacity = 0 /\ tripped = FALSE /\ failures \in Nat
      /\ stages \in Seq(Kinds) /\ Last <= MaxStages /\ unknown \in SUBSET (1 .. Last)
      /\ \A i \in unknown : stages[i].asymptotic # "never"
  BY DEF IInv, TypeOK, ConfigType, CallType, OrderInv, ObservationInv, Reset, Clear
<1>2. pc' = "idle" /\ produced' = 0 /\ tripped' = FALSE /\ failures' \in Nat /\ capacity' = 0
  BY <1>1 DEF Reset, Clear, call
<1>3. /\ stages' \in Seq(Kinds) /\ Last' <= MaxStages /\ unknown' \in SUBSET (1 .. Last')
      /\ \A i \in unknown' : stages'[i].asymptotic # "never"
  <2>1. CASE Reset
    BY <1>1, <2>1, StagesUnchanged DEF Reset, config
  <2>2. CASE Clear
    <3>1. stages' = << >> /\ unknown' = {} /\ Last' = 0
      BY <2>2 DEF Clear, Last
    <3> QED BY <3>1, ChainAssumption
  <2> QED BY <2>1, <2>2
<1>4. Rearmed
  BY DEF Reset, Clear
<1> QED BY <1>2, <1>3, <1>4, RearmedInv

\* The derived bounds and the variables of a step that renders nothing and
\* leaves the current stage alone.
LEMMA QuietKeeps ==
  ASSUME IInv, UNCHANGED <<stages, begun, stage, left, observation, drained, cut, emitted, failures>>,
         ended' \in BOOLEAN, complete' \in BOOLEAN, capped' \in BOOLEAN,
         policy' \in Policies \cup {NoPolicy}, policy' = policy \/ policy = NoPolicy,
         unknown' \in SUBSET (1 .. Last), \A i \in unknown' : stages[i].asymptotic # "never",
         stage \in begun /\ stage \in unknown' => stage \in unknown,
         tripped' = FALSE,
         policy' = NoPolicy => ~complete',
         \/ pc' = "idle" /\ capacity' = 0 /\ produced' = 0
         \/ /\ pc' = "draining" /\ policy' # NoPolicy /\ ~complete'
            /\ capacity' \in Capacities \ {0} /\ produced' = 0
  PROVE  IInv'
<1>1. Last' = Last /\ Last \in Nat /\ stages \in Seq(Kinds) /\ ChainFacts /\ Capacities \subseteq Nat
  BY StagesUnchanged, ChainIs, ChainAssumption DEF IInv, TypeOK, ConfigType, ChainFacts
<1>0. pc' \in {"idle", "draining"} /\ capacity' \in Nat /\ produced' = 0
  <2>1. pc' \in {"idle", "draining"} /\ capacity' \in Capacities \cup {0} /\ produced' = 0
    OBVIOUS
  <2>2. Capacities \cup {0} \subseteq Nat
    BY ChainAssumption
  <2> QED BY <2>1, <2>2
<1>2. TypeOK'
  <2>1. ConfigType'
    BY <1>1 DEF IInv, TypeOK, ConfigType
  <2>2. FinishType'
    BY <1>1 DEF IInv, TypeOK, FinishType, observation
  <2>3. CallType'
    <3>1. FALSE \in BOOLEAN
      OBVIOUS
    <3>2. pc' \in {"idle", "draining"} /\ capacity' \in Nat /\ produced' = 0
      BY <1>0
    <3> QED BY <1>1, <3>1, <3>2 DEF IInv, TypeOK, CallType
  <2> QED BY <2>1, <2>2, <2>3 DEF TypeOK
<1>3. OrderInv'
  <2>1. policy' = NoPolicy => policy = NoPolicy
    OBVIOUS
  <2>2. capacity' \in Nat /\ produced' <= capacity'
    <3>1. capacity' \in Nat /\ produced' = 0
      BY <1>0
    <3> QED BY <3>1
  <2> QED BY <2>1, <2>2 DEF IInv, OrderInv
<1>4. policy'.max \in Nat /\ policy.max <= policy'.max
  <2>1. policy.max \in Nat /\ NoPolicy.max = 0
    BY PolicyIs DEF IInv, TypeOK, FinishType, NoPolicy
  <2>2. policy'.max \in Nat
    BY <2>1, PolicyIs
  <2> QED BY <2>1, <2>2
<1>5. ObservationInv'
  <2>1. generated \in Nat /\ generated <= policy.max /\ policy.max \in Nat
    BY PolicyIs DEF IInv, ObservationInv, TypeOK, FinishType, NoPolicy
  <2>2. generated' <= policy'.max
    BY <1>4, <2>1 DEF observation
  <2> QED BY <2>2 DEF IInv, ObservationInv, observation
<1>6. BudgetInv'
  <2>1. Rendered' = Rendered /\ Rendered \in Nat
    <3>1. Rendered' = Rendered
      <4>1. Held(stage)' = Held(stage) /\ Through(stage)' = Through(stage)
        BY <1>1, StagesUnchanged DEF Held, Through, Barrier
      <4> QED BY <4>1 DEF Rendered, observation
    <3>2. CASE stage \in begun
      <4>1. stage \in 1 .. Last
        BY <3>2 DEF IInv, TypeOK, ConfigType
      <4>2. Held(stage) \in Nat /\ Through(stage) \in Nat
        BY <1>1, <4>1 DEF ChainFacts
      <4> QED BY <3>1, <3>2, <4>2 DEF IInv, BudgetInv, Rendered, TypeOK, ConfigType, FinishType
    <3>3. CASE stage \notin begun
      BY <3>1, <3>3 DEF Rendered
    <3> QED BY <3>1, <3>2, <3>3
  <2>2. Prefix(stage)' = Prefix(stage) /\ Prefix(stage) \in Nat
    <3>1. Prefix(stage)' = Prefix(stage)
      BY StagesUnchanged DEF Prefix
    <3>2. stage \in 1 .. Last + 1
      BY DEF IInv, TypeOK, FinishType
    <3> QED BY <1>1, <3>1, <3>2 DEF ChainFacts
  <2>3. emitted' + produced' <= Prefix(stage)' + Rendered'
    <3>1. emitted + produced <= Prefix(stage) + Rendered /\ emitted \in Nat /\ produced \in Nat
      BY DEF IInv, BudgetInv, TypeOK, CallType
    <3> QED BY <2>1, <2>2, <3>1
  <2>4. \A i \in 1 .. Last : StageBudget(i)' = StageBudget(i)
    BY StagesUnchanged
  <2>5. Held(stage)' = Held(stage) /\ Through(stage)' = Through(stage)
    BY <1>1, StagesUnchanged DEF Held, Through, Barrier
  <2> QED BY <1>1, <2>1, <2>3, <2>4, <2>5 DEF IInv, BudgetInv, observation
<1>7. CutInv'
  <2>1. policy = NoPolicy => cut = {}
    BY DEF IInv, OrderInv
  <2> QED BY <2>1 DEF IInv, CutInv, observation
<1> QED BY <1>2, <1>3, <1>5, <1>6, <1>7 DEF IInv

\* A processed block keeps the invariant.
LEMMA ProcessInv == IInv /\ Process => IInv'
<1> SUFFICES ASSUME IInv, Process PROVE IInv'
  OBVIOUS
<1>1. PICK reached \in 0 .. Last :
        Resync(1 .. reached) /\ tripped' = (tripped \/ \E i \in 1 .. reached : i \in begun)
  BY DEF Process
<1>2. policy = NoPolicy /\ pc = "idle" /\ begun = {} /\ tripped = FALSE /\ produced = 0 /\ capacity = 0
      /\ complete = FALSE /\ ended \in BOOLEAN /\ capped \in BOOLEAN
  BY DEF Process, Open, IInv, OrderInv, TypeOK, ConfigType, FinishType
<1>3. tripped' = FALSE
  BY <1>1, <1>2
<1>4. unknown' \in SUBSET (1 .. Last) /\ \A i \in unknown' : stages[i].asymptotic # "never"
  BY <1>1, ResyncIs
<1> QED BY <1>2, <1>3, <1>4, QuietKeeps DEF Process, config, finish, call

\* A call of `finish_into` keeps the invariant, refused or begun.
LEMMA BeginInv == IInv /\ (\E n \in Capacities : BeginFinish(n)) => IInv'
<1> SUFFICES ASSUME IInv, NEW n \in Capacities, BeginFinish(n) PROVE IInv'
  OBVIOUS
<1>1. /\ policy' \in Policies /\ policy' # NoPolicy /\ (policy' = policy \/ policy = NoPolicy)
  <2>1. policy' \in Policies /\ (policy' = policy \/ policy = NoPolicy)
    BY DEF BeginFinish, IInv, TypeOK, FinishType
  <2> QED BY <2>1, PolicyIs
<1>2. /\ pc = "idle" /\ produced = 0 /\ capacity = 0 /\ tripped = FALSE
      /\ unknown \in SUBSET (1 .. Last) /\ (\A i \in unknown : stages[i].asymptotic # "never")
      /\ ended \in BOOLEAN /\ capped \in BOOLEAN
  BY DEF BeginFinish, IInv, OrderInv, ObservationInv, TypeOK, ConfigType, FinishType
<1>3. /\ UNCHANGED <<stages, unknown, begun, left, ended, stage, capped, observation>>
      /\ UNCHANGED <<emitted, drained, cut, tripped, failures>>
  BY DEF BeginFinish, config, lifecycles, history
<1>4. complete' \in BOOLEAN
  <2>1. complete' = (stages = << >>)
    BY DEF BeginFinish
  <2> QED BY <2>1, Zenon
<1>5. \/ pc' = "idle" /\ capacity' = 0 /\ produced' = 0
      \/ pc' = "draining" /\ ~complete' /\ capacity' \in Capacities \ {0} /\ produced' = 0
  BY <1>2 DEF BeginFinish, call
<1> QED BY <1>1, <1>2, <1>3, <1>4, <1>5, QuietKeeps

\* A step of something else keeps the invariant.
LEMMA StutterInv == IInv /\ UNCHANGED vars => IInv'
<1> SUFFICES ASSUME IInv, UNCHANGED vars PROVE IInv'
  OBVIOUS
<1>1. UNCHANGED stages
  BY DEF vars, config
<1>2. TypeOK'
  BY <1>1, StagesUnchanged DEF vars, lifecycles, observation, finish, call, history,
                               IInv, TypeOK, ConfigType, FinishType, CallType
<1>3. OrderInv' /\ ObservationInv' /\ CutInv'
  BY <1>1 DEF vars, lifecycles, observation, finish, call, history, IInv, OrderInv, ObservationInv, CutInv
<1>4. Rendered' = Rendered /\ Through(stage)' = Through(stage) /\ Held(stage)' = Held(stage)
  <2>1. stage' = stage /\ left' = left /\ begun' = begun /\ UNCHANGED observation
    BY DEF vars, lifecycles, finish
  <2>2. Through(stage)' = Through(stage) /\ Held(stage)' = Held(stage)
    BY <1>1, <2>1, StagesUnchanged DEF Held, Through, Barrier
  <2> QED BY <2>1, <2>2 DEF Rendered, observation
<1>5. Prefix(stage)' = Prefix(stage)
  BY <1>1, StagesUnchanged DEF Prefix, vars, finish
<1>6. BudgetInv'
  BY <1>1, <1>4, <1>5, StagesUnchanged DEF IInv, BudgetInv, vars, lifecycles, observation, finish, call, history
<1> QED BY <1>2, <1>3, <1>6 DEF IInv

\* A stage that is added keeps the invariant.
LEMMA AddInv == IInv /\ Add => IInv'
<1> SUFFICES ASSUME IInv, Add PROVE IInv'
  OBVIOUS
<1>1. /\ stages \in Seq(Kinds) /\ ChainFacts /\ Last \in Nat /\ MaxStages \in Nat
      /\ stage \in 1 .. Last + 1
  BY ChainIs, ChainAssumption DEF IInv, TypeOK, ConfigType, FinishType, ChainFacts
<1>2. /\ stages' \in Seq(Kinds) /\ Last' = Last + 1 /\ Last' <= MaxStages
      /\ \A i \in 1 .. Last :
           /\ stages'[i] = stages[i] /\ Held(i)' = Held(i)
           /\ Through(i) <= Through(i)' /\ StageBudget(i) <= StageBudget(i)'
      /\ \A k \in 1 .. Last + 1 : Prefix(k) <= Prefix(k)'
  BY <1>1, AddGrows
<1>3. ChainFacts'
  <2>1. (stages \in Seq(Kinds) => ChainFacts)'
    BY ChainIs, PTL
  <2> QED BY <1>2, <2>1
<1>4. /\ UNCHANGED <<begun, left, ended, observation, finish, call, history>>
      /\ UNCHANGED <<begun, left, ended, stage, complete, policy, capped, pc, capacity, produced>>
      /\ UNCHANGED <<emitted, drained, cut, tripped, failures>>
      /\ UNCHANGED <<unknownStage, observationEnd, protected, quiet, generated>>
  BY DEF Add, observation, finish, call, history
<1>5. /\ 1 .. Last \subseteq 1 .. Last' /\ Last + 1 \in 1 .. Last'
      /\ 1 .. Last + 1 \subseteq 1 .. Last' + 1 /\ Last + 1 \notin 1 .. Last
      /\ 1 .. Last' \subseteq 1 .. MaxStages
  BY <1>1, <1>2
<1>6. /\ unknown' \in SUBSET (1 .. Last')
      /\ \A i \in unknown' : stages'[i].asymptotic # "never"
      /\ stage \in begun /\ stage \in unknown' => stage \in unknown
  <2>1. PICK kind \in Kinds : /\ stages' = Append(stages, kind)
                              /\ \/ kind.asymptotic # "never" /\ unknown' = unknown \cup {Last + 1}
                                 \/ kind.asymptotic # "always" /\ unknown' = unknown
    BY DEF Add
  <2>2. stages'[Last + 1] = kind
    BY <1>1, <2>1 DEF Last
  <2>3. unknown \in SUBSET (1 .. Last) /\ \A i \in unknown : stages[i].asymptotic # "never"
    BY DEF IInv, TypeOK, ConfigType, ObservationInv
  <2>4. begun \in SUBSET (1 .. Last)
    BY DEF IInv, TypeOK, ConfigType
  <2> QED BY <1>2, <1>5, <2>1, <2>2, <2>3, <2>4
<1>7. TypeOK'
  <2>1. ConfigType'
    BY <1>2, <1>4, <1>5, <1>6 DEF IInv, TypeOK, ConfigType
  <2>2. FinishType'
    BY <1>1, <1>4, <1>5 DEF IInv, TypeOK, FinishType
  <2>3. CallType'
    BY <1>4, <1>5 DEF IInv, TypeOK, CallType
  <2> QED BY <2>1, <2>2, <2>3 DEF TypeOK
<1>8. OrderInv'
  BY <1>4 DEF IInv, OrderInv
<1>9. stage \in begun => stage \in 1 .. Last
  BY DEF IInv, TypeOK, ConfigType
<1>10. ObservationInv'
  <2>1. unknownStage = stage => stage \in begun
    BY <1>1 DEF IInv, ObservationInv
  <2>2. unknownStage = stage => stages'[stage].asymptotic # "never"
    BY <1>2, <1>9, <2>1 DEF IInv, ObservationInv
  <2> QED BY <1>4, <1>6, <2>2 DEF IInv, ObservationInv
<1>11. Rendered \in Nat /\ Rendered <= Rendered' /\ Rendered' \in Nat
  <2>1. CASE stage \notin begun
    BY <1>4, <2>1 DEF Rendered
  <2>2. CASE stage \in begun
    <3>1. /\ stage \in 1 .. Last /\ stage \in 1 .. Last'
          /\ Held(stage) \in Nat /\ Through(stage) \in Nat /\ Held(stage)' = Held(stage)
          /\ left \in Nat /\ left <= Held(stage)
          /\ protected \in Nat /\ generated \in Nat
          /\ unknownStage = stage => protected <= Through(stage)
      <4>1. stage \in 1 .. Last /\ stage \in 1 .. Last' /\ stages'[stage] = stages[stage] /\ stage' = stage
        BY <1>2, <1>4, <1>5, <1>9, <2>2
      <4>2. Held(stage)' = Held(stage)
        BY <4>1 DEF Held
      <4>3. Held(stage) \in Nat /\ Through(stage) \in Nat
        BY <1>1, <4>1 DEF ChainFacts
      <4> QED BY <2>2, <4>1, <4>2, <4>3 DEF IInv, TypeOK, ConfigType, FinishType, BudgetInv
    <3>2. Through(stage)' \in Nat /\ Through(stage) <= Through(stage)'
      <4>1. PICK i \in 1 .. Last : i = stage
        BY <3>1
      <4>2. Through(i)' \in Nat /\ Through(i) <= Through(i)'
        BY <1>2, <1>3, <1>5 DEF ChainFacts
      <4>3. stage' = i
        BY <1>4, <4>1
      <4> QED BY <4>1, <4>2, <4>3 DEF Through, Barrier
    <3>3. Rendered' = IF unknownStage = stage
                      THEN Held(stage) - left + Through(stage)' - protected + generated
                      ELSE Held(stage) - left
      BY <1>4, <2>2, <3>1 DEF Rendered
    <3>4. Rendered = IF unknownStage = stage
                     THEN Held(stage) - left + Through(stage) - protected + generated
                     ELSE Held(stage) - left
      BY <2>2 DEF Rendered
    <3> QED BY <3>1, <3>2, <3>3, <3>4
  <2> QED BY <2>1, <2>2
<1>12. stage \in begun => Held(stage)' = Held(stage) /\ Through(stage) <= Through(stage)'
                         /\ Through(stage)' \in Nat /\ Through(stage) \in Nat
  <2> SUFFICES ASSUME stage \in begun
               PROVE  /\ Held(stage)' = Held(stage) /\ Through(stage) <= Through(stage)'
                      /\ Through(stage)' \in Nat /\ Through(stage) \in Nat
    OBVIOUS
  <2>1. PICK i \in 1 .. Last : i = stage
    BY <1>9
  <2>2. /\ Through(i)' \in Nat /\ Through(i) <= Through(i)' /\ Through(i) \in Nat
        /\ Held(i)' = Held(i)
    BY <1>1, <1>2, <1>3, <1>5 DEF ChainFacts
  <2>3. stage' = i
    BY <1>4, <2>1
  <2> QED BY <2>1, <2>2, <2>3 DEF Through, Barrier, Held
<1>13. BudgetInv'
  <2>1. \A i \in 1 .. MaxStages : i > stage' \/ i > Last' => drained'[i] = 0
    <3> SUFFICES ASSUME NEW i \in 1 .. MaxStages, i > stage \/ i > Last + 1 PROVE drained[i] = 0
      BY <1>2, <1>4
    <3>1. i > stage \/ i > Last
      BY <1>1
    <3> QED BY <3>1 DEF IInv, BudgetInv
  <2>2. ASSUME failures = 0, NEW i \in 1 .. Last', i < stage PROVE drained[i] <= StageBudget(i)'
    <3>1. i \in 1 .. Last
      BY <1>1, <1>2, <2>2
    <3>2. drained[i] <= StageBudget(i) /\ drained[i] \in Nat
      BY <1>5, <2>2, <3>1 DEF IInv, BudgetInv, TypeOK, CallType
    <3>3. StageBudget(i) \in Nat /\ StageBudget(i)' \in Nat /\ StageBudget(i) <= StageBudget(i)'
      BY <1>1, <1>2, <1>3, <3>1 DEF ChainFacts
    <3> QED BY <3>2, <3>3
  <2>3. ASSUME failures = 0, stage <= Last' PROVE drained[stage] <= Rendered'
    <3>1. CASE stage <= Last
      <4>1. drained[stage] <= Rendered /\ stage \in 1 .. MaxStages
        BY <1>1, <1>5, <2>3, <3>1 DEF IInv, BudgetInv
      <4>2. drained[stage] \in Nat
        BY <4>1 DEF IInv, TypeOK, CallType
      <4> QED BY <1>11, <4>1, <4>2
    <3>2. CASE stage > Last
      <4>1. stage \in 1 .. MaxStages
        BY <1>1, <1>2, <2>3
      <4>2. drained[stage] = 0
        BY <3>2, <4>1 DEF IInv, BudgetInv
      <4> QED BY <1>11, <4>2
    <3> QED BY <1>1, <3>1, <3>2
  <2>4. emitted' + produced' <= Prefix(stage)' + Rendered'
    <3>1. emitted + produced <= Prefix(stage) + Rendered /\ emitted \in Nat /\ produced \in Nat
      BY DEF IInv, BudgetInv, TypeOK, CallType
    <3>2. Prefix(stage) \in Nat /\ Prefix(stage)' \in Nat /\ Prefix(stage) <= Prefix(stage)'
      <4>1. PICK k \in 1 .. Last + 1 : k = stage
        BY <1>1
      <4>2. Prefix(k) \in Nat /\ Prefix(k)' \in Nat /\ Prefix(k) <= Prefix(k)'
        BY <1>1, <1>2, <1>3, <1>5 DEF ChainFacts
      <4>3. stage' = k
        BY <1>4, <4>1
      <4> QED BY <4>1, <4>2, <4>3 DEF Prefix
    <3> QED BY <1>4, <1>11, <3>1, <3>2
  <2>5. /\ stage \in begun => left' <= Held(stage)'
        /\ unknownStage = stage => protected' <= Through(stage)'
    <3>1. stage \in begun => left <= Held(stage)
      BY DEF IInv, BudgetInv
    <3>2. unknownStage = stage => stage \in begun
      BY <1>1 DEF IInv, ObservationInv
    <3>3. unknownStage = stage => protected <= Through(stage)
      BY DEF IInv, BudgetInv
    <3>4. protected \in Nat
      BY DEF IInv, TypeOK, FinishType
    <3> QED BY <1>4, <1>12, <3>1, <3>2, <3>3, <3>4
  <2>6. failures' = 0 =>
          /\ \A i \in 1 .. Last' : i < stage' => drained'[i] <= StageBudget(i)'
          /\ stage' <= Last' => drained'[stage'] <= Rendered'
    BY <1>4, <2>2, <2>3
  <2> QED BY <1>4, <2>1, <2>4, <2>5, <2>6 DEF BudgetInv
<1>14. CutInv'
  <2>1. unknownStage = stage => stage \in 1 .. Last
    BY <1>1, <1>9 DEF IInv, ObservationInv
  <2>2. cut \in SUBSET (1 .. Last)
    BY DEF IInv, TypeOK, CallType
  <2> QED BY <1>2, <1>4, <2>1, <2>2 DEF IInv, CutInv
<1> QED BY <1>7, <1>8, <1>10, <1>13, <1>14 DEF IInv

\* A round that renders nothing more: the tail is exhausted.
LEMMA CutExhaustedInv == IInv /\ CutExhausted => IInv'
<1> SUFFICES ASSUME IInv, CutExhausted PROVE IInv'
  OBVIOUS
<1>1. Draining /\ Unbounded /\ Allowed = 0 /\ Advance
  BY DEF CutExhausted
<1>2. DrainFacts /\ UnboundedFacts /\ policy.hold \in Nat \ {0} /\ policy.max \in Nat /\ policy.hold <= policy.max
  BY <1>1, DrainIs, PolicyIs DEF DrainFacts
<1>3. /\ 0 \in Nat /\ 0 \in 0 .. Segment /\ (~Unbounded => 0 <= Left)
  BY <1>1, <1>2 DEF DrainFacts
<1>4. Rendered + 0 <= StageBudget(stage) /\ 0 <= capacity - produced
  BY <1>1, <1>3, RenderIs
<1>5. drained[stage] + 0 >= stages[stage].latency + policy.hold
  <2>1. /\ Protected \in Nat /\ Quiet \in Nat /\ Generated \in Nat /\ drained[stage] \in Nat
        /\ stages[stage].latency \in Nat
        /\ drained[stage] + Protected >= stages[stage].latency + Generated
        /\ drained[stage] + Protected >= stages[stage].latency + Quiet
    BY <1>2 DEF DrainFacts, UnboundedFacts, IInv, TypeOK, CallType
  <2>2. Protected = 0 /\ (Generated >= policy.max \/ Quiet >= policy.hold)
    BY <1>1, <1>2, <2>1 DEF Allowed, Smaller, Less
  <2> QED BY <1>2, <2>1, <2>2
<1>6. /\ UNCHANGED <<stages, complete, policy, pc, capacity, emitted, failures>>
      /\ begun' = begun /\ capped' = TRUE /\ unknown' = unknown /\ tripped' = tripped
      /\ produced' = produced /\ drained' = drained /\ cut' = cut \cup {stage}
  BY DEF CutExhausted, config, call
<1>7. /\ produced' = produced + 0 /\ drained' = [drained EXCEPT ![stage] = @ + 0]
      /\ unknown' \in SUBSET (1 .. Last) /\ (\A i \in unknown' : stages[i].asymptotic # "never")
      /\ tripped' = FALSE
  <2>1. produced \in Nat /\ drained \in [1 .. MaxStages -> Nat] /\ stage \in 1 .. MaxStages
    BY <1>2 DEF IInv, TypeOK, CallType, DrainFacts
  <2>2. drained[stage] + 0 = drained[stage]
    BY <2>1
  <2>3. [drained EXCEPT ![stage] = @ + 0] = drained
    BY <2>1, <2>2
  <2> QED BY <1>6, <2>1, <2>3 DEF IInv, TypeOK, ConfigType, ObservationInv, OrderInv
<1>8. capped' \in BOOLEAN
  BY <1>6
<1> QED BY <1>1, <1>3, <1>4, <1>5, <1>6, <1>7, <1>8, AdvanceKeeps

\* A stage whose tail is over passes the turn on and keeps the invariant.
LEMMA DrainEndInv == IInv /\ DrainEnd => IInv'
<1> SUFFICES ASSUME IInv, DrainEnd PROVE IInv'
  OBVIOUS
<1>1. Draining /\ StageFinish(0, TRUE) /\ Advance
  BY DEF DrainEnd
<1>2. 0 \in Nat /\ 0 \in 0 .. Segment /\ (~Unbounded => 0 <= Left)
  BY <1>1, FinishIs
<1>3. Rendered + 0 <= StageBudget(stage) /\ 0 <= capacity - produced
  BY <1>1, <1>2, RenderIs
<1>4. /\ UNCHANGED <<stages, complete, policy, pc, capacity, emitted, failures>>
      /\ begun' = begun \cup {stage} /\ capped' = capped /\ unknown' = unknown /\ tripped' = tripped
      /\ produced' = produced /\ drained' = [drained EXCEPT ![stage] = @ + 0] /\ cut' = cut
  BY <1>1 DEF DrainEnd, StageFinish, config, call
<1>5. /\ produced' = produced + 0 /\ capped' \in BOOLEAN
      /\ unknown' \in SUBSET (1 .. Last) /\ (\A i \in unknown' : stages[i].asymptotic # "never")
      /\ tripped' = FALSE
  BY <1>4 DEF IInv, TypeOK, ConfigType, FinishType, CallType, ObservationInv, OrderInv
<1> QED BY <1>1, <1>2, <1>3, <1>4, <1>5, AdvanceKeeps

\* Frames of a tail of known length keep the invariant.
LEMMA DrainFiniteInv == IInv /\ DrainFinite => IInv'
<1> SUFFICES ASSUME IInv, Draining, ~Unbounded, NEW frames \in 1 .. Segment, NEW done \in BOOLEAN,
                    StageFinish(frames, done), PushDownstream(Downstream),
                    produced' = produced + frames,
                    IF done THEN Advance
                    ELSE StayOnStage(frames, done)
                         /\ Observe(protected, quiet, generated) /\ UNCHANGED stage,
                    UNCHANGED <<config, complete, policy, capped, pc, capacity, emitted, cut, failures>>
             PROVE  IInv'
  BY DEF DrainFinite
<1>1. DrainFacts /\ BoundedFacts /\ Last \in Nat
  BY DrainIs, ChainIs DEF IInv, TypeOK, ConfigType, ChainFacts
<1>2. frames \in Nat /\ frames <= Left /\ frames \in 0 .. Segment
  <2>1. frames \in Nat
    BY <1>1 DEF DrainFacts
  <2> QED BY <2>1, FinishIs
<1>3. Rendered + frames <= StageBudget(stage) /\ frames <= capacity - produced
  BY <1>2, RenderIs
<1>4. /\ UNCHANGED <<stages, complete, policy, capped, pc, capacity, emitted, cut, failures>>
      /\ begun' = begun \cup {stage} /\ drained' = [drained EXCEPT ![stage] = @ + frames]
      /\ capped' \in BOOLEAN
  BY DEF StageFinish, config, IInv, TypeOK, FinishType
<1>5. /\ unknown' \in SUBSET (1 .. Last) /\ (\A i \in unknown' : stages[i].asymptotic # "never")
      /\ (stage \in unknown' => stage \in unknown) /\ tripped' = FALSE
  BY <1>1, <1>4, PushIs DEF Downstream
<1>6. CASE done
  BY <1>2, <1>3, <1>4, <1>5, <1>6, AdvanceKeeps
<1>7. CASE ~done
  <2>1. left' = Left - frames /\ ended' = FALSE /\ Observe(protected, quiet, generated) /\ stage' = stage
    BY <1>7 DEF StayOnStage
  <2>2. /\ protected = Protected /\ quiet = Quiet /\ generated = Generated
        /\ protected \in Nat /\ quiet \in Nat /\ generated \in Nat
    BY <1>1 DEF BoundedFacts, DrainFacts
  <2>3. ended' \in BOOLEAN /\ frames <= frames
    <3>1. ended' \in BOOLEAN
      BY <2>1, Zenon
    <3> QED BY <1>2, <3>1
  <2> QED BY <1>2, <1>3, <1>4, <1>5, <2>1, <2>2, <2>3, StayKeeps
<1> QED BY <1>6, <1>7

\* Frames of a tail of unknown length keep the invariant, protected or not.
LEMMA DrainUnknownInv == IInv /\ DrainUnknown => IInv'
<1> SUFFICES ASSUME IInv, Draining, Unbounded, NEW frames \in 1 .. Segment, NEW done \in BOOLEAN,
                    NEW silent \in 0 .. Segment, silent <= Observed(frames),
                    StageFinish(frames, done), PushDownstream(Downstream),
                    produced' = produced + frames,
                    \/ EndsTail(frames, silent) /\ Advance /\ cut' = cut \cup {stage}
                    \/ /\ ~(IsQuiet(frames, silent) \/ Generated + Observed(frames) >= policy.max)
                       /\ UNCHANGED <<capped, cut>>
                       /\ IF done THEN Advance
                          ELSE /\ StayOnStage(frames, done) /\ UNCHANGED stage
                               /\ Observe(Less(Protected, frames), QuietAfter(frames, silent),
                                          Generated + Observed(frames)),
                    UNCHANGED <<config, complete, policy, pc, capacity, emitted, failures>>
             PROVE  IInv'
  BY DEF DrainUnknown
<1>1. DrainFacts /\ UnboundedFacts /\ Last \in Nat
  BY DrainIs, ChainIs DEF IInv, TypeOK, ConfigType, ChainFacts
<1>2. frames \in Nat /\ frames > 0 /\ silent \in Nat /\ frames \in 0 .. Segment
  BY <1>1 DEF DrainFacts
<1>3. Rendered + frames <= StageBudget(stage) /\ frames <= capacity - produced
  BY <1>2, RenderIs
<1>4. /\ UNCHANGED <<stages, complete, policy, pc, capacity, emitted, failures>>
      /\ begun' = begun \cup {stage} /\ drained' = [drained EXCEPT ![stage] = @ + frames]
      /\ capped \in BOOLEAN
  BY DEF StageFinish, config, IInv, TypeOK, FinishType
<1>5. /\ unknown' \in SUBSET (1 .. Last) /\ (\A i \in unknown' : stages[i].asymptotic # "never")
      /\ (stage \in unknown' => stage \in unknown) /\ tripped' = FALSE
  BY <1>1, <1>4, PushIs DEF Downstream
<1>6. CASE EndsTail(frames, silent) /\ Advance /\ cut' = cut \cup {stage}
  <2>1. IsQuiet(frames, silent) \/ Generated + Observed(frames) >= policy.max
    BY <1>6 DEF EndsTail
  <2>2. drained[stage] + frames >= stages[stage].latency + policy.hold
    BY <1>2, <2>1, CutIsLate
  <2>3. capped' \in BOOLEAN
    <3>1. capped' = (capped \/ ~IsQuiet(frames, silent))
      BY <1>6 DEF EndsTail
    <3> QED BY <1>4, <3>1, Zenon
  <2> QED BY <1>2, <1>3, <1>4, <1>5, <1>6, <2>2, <2>3, AdvanceKeeps
<1>7. CASE /\ ~(IsQuiet(frames, silent) \/ Generated + Observed(frames) >= policy.max)
           /\ UNCHANGED <<capped, cut>>
           /\ done /\ Advance
  BY <1>2, <1>3, <1>4, <1>5, <1>7, AdvanceKeeps
<1>8. CASE /\ ~(IsQuiet(frames, silent) \/ Generated + Observed(frames) >= policy.max)
           /\ UNCHANGED <<capped, cut>>
           /\ ~done /\ StayOnStage(frames, done) /\ UNCHANGED stage
           /\ Observe(Less(Protected, frames), QuietAfter(frames, silent),
                      Generated + Observed(frames))
  <2>1. left' = Left /\ ended' = FALSE
    BY <1>8 DEF StayOnStage
  <2>2. /\ Less(Protected, frames) \in Nat /\ Observed(frames) \in Nat /\ QuietAfter(frames, silent) \in Nat
        /\ Observed(frames) + Protected = Less(Protected, frames) + frames
        /\ Less(Protected, frames) <= Protected /\ (Observed(frames) > 0 => Less(Protected, frames) = 0)
        /\ (drained[stage] + frames) + Less(Protected, frames)
             >= stages[stage].latency + (Generated + Observed(frames))
        /\ (drained[stage] + frames) + Less(Protected, frames)
             >= stages[stage].latency + QuietAfter(frames, silent)
    BY <1>2, ObservedIs
  <2>3. /\ Generated \in Nat /\ Protected \in Nat /\ Protected <= Through(stage)
        /\ (Generated > 0 => Protected = 0) /\ policy.max \in Nat /\ Through(stage) \in Nat
    BY <1>1, PolicyIs DEF DrainFacts, UnboundedFacts
  <2>4. /\ Generated + Observed(frames) \in Nat
        /\ (Generated + Observed(frames)) + Protected >= Generated + Less(Protected, frames) + frames
        /\ Less(Protected, frames) <= Through(stage)
        /\ Generated + Observed(frames) <= policy.max
        /\ Generated + Observed(frames) > 0 => Less(Protected, frames) = 0
    BY <1>2, <1>8, <2>2, <2>3
  <2>5. ended' \in BOOLEAN /\ cut' = cut /\ capped' = capped
    BY <1>8, <2>1
  <2> QED BY <1>2, <1>3, <1>4, <1>5, <1>8, <2>1, <2>2, <2>4, <2>5, StayKeeps
<1> QED BY <1>6, <1>7, <1>8

\* The return of `finish_into` keeps the invariant.
LEMMA ReturnInv == IInv /\ ReturnFinish => IInv'
<1> SUFFICES ASSUME IInv, ReturnFinish PROVE IInv'
  OBVIOUS
<1>1. /\ UNCHANGED <<stages, unknown, begun, left, ended, stage, policy, capped>>
      /\ UNCHANGED <<unknownStage, observationEnd, protected, quiet, generated>>
      /\ UNCHANGED <<drained, cut, tripped, failures>>
      /\ emitted' = emitted + produced /\ pc' = "idle" /\ capacity' = 0 /\ produced' = 0
      /\ complete' = (stage > Last)
  BY DEF ReturnFinish, config, lifecycles, observation
<1>2. policy # NoPolicy /\ emitted \in Nat /\ produced \in Nat
  BY DEF ReturnFinish, IInv, OrderInv, TypeOK, CallType
<1>3. complete' \in BOOLEAN
  <2>1. complete' = (stage > Last)
    BY <1>1
  <2>2. (stage > Last) \in BOOLEAN
    OBVIOUS
  <2> QED BY <2>1, <2>2
<1>4. TypeOK'
  BY <1>1, <1>2, <1>3, StagesUnchanged DEF IInv, TypeOK, ConfigType, FinishType, CallType
<1>5. OrderInv' /\ ObservationInv' /\ CutInv'
  BY <1>1, <1>2 DEF IInv, OrderInv, ObservationInv, CutInv
<1>6. Rendered' = Rendered /\ Through(stage)' = Through(stage) /\ Held(stage)' = Held(stage)
  <2>1. Through(stage)' = Through(stage) /\ Held(stage)' = Held(stage)
    BY <1>1, StagesUnchanged DEF Held, Through, Barrier
  <2> QED BY <1>1, <2>1 DEF Rendered
<1>7. Prefix(stage)' = Prefix(stage)
  BY <1>1, StagesUnchanged DEF Prefix
<1>8. BudgetInv'
  BY <1>1, <1>2, <1>6, <1>7, StagesUnchanged DEF IInv, BudgetInv
<1> QED BY <1>4, <1>5, <1>8 DEF IInv

\* The stage itself fails: its finish began, and nothing was rendered.
LEMMA FailFinishInv == IInv /\ FailFinish => IInv'
<1> SUFFICES ASSUME IInv, FailFinish PROVE IInv'
  OBVIOUS
<1>1. Draining /\ Observe(Protected, Quiet, Generated)
  BY DEF FailFinish
<1>2. DrainFacts /\ (Unbounded => UnboundedFacts)
  BY <1>1, DrainIs
<1>3. /\ UNCHANGED <<stages, stage, complete, policy, emitted>> /\ cut' = cut /\ capped' = capped
      /\ begun' = begun \cup {stage} /\ left' = Left /\ ended' = ended /\ unknown' = unknown
      /\ drained' = drained /\ tripped' = tripped
      /\ pc' = "idle" /\ capacity' = 0 /\ produced' = 0 /\ failures' = failures + 1
  BY DEF FailFinish, Fail, config
<1>4. /\ drained' = [drained EXCEPT ![stage] = @ + 0] /\ drained[stage] \in Nat
      /\ unknown' \in SUBSET (1 .. Last) /\ (\A i \in unknown' : stages[i].asymptotic # "never")
      /\ (stage \in unknown' => stage \in unknown) /\ tripped' = FALSE /\ ended' \in BOOLEAN
  <2>1. drained \in [1 .. MaxStages -> Nat] /\ stage \in 1 .. MaxStages
    BY <1>2 DEF IInv, TypeOK, CallType, DrainFacts
  <2>2. drained[stage] + 0 = drained[stage]
    BY <2>1
  <2>3. [drained EXCEPT ![stage] = @ + 0] = drained
    BY <2>1, <2>2
  <2> QED BY <1>3, <2>1, <2>3 DEF IInv, TypeOK, ConfigType, ObservationInv, OrderInv
<1>5. /\ Protected \in Nat /\ Quiet \in Nat /\ Generated \in Nat /\ Left \in Nat
      /\ stages[stage].latency \in Nat
  BY <1>2 DEF DrainFacts
<1>6. Unbounded => /\ Generated + Protected >= Generated + Protected + 0
                   /\ Protected <= Through(stage) /\ Generated <= policy.max
                   /\ (Generated > 0 => Protected = 0)
                   /\ drained[stage] + 0 + Protected >= stages[stage].latency + Generated
                   /\ drained[stage] + 0 + Protected >= stages[stage].latency + Quiet
  BY <1>2, <1>4, <1>5 DEF UnboundedFacts
<1>7. 0 \in Nat /\ 0 <= Left /\ Left = Left - 0 /\ 0 <= 0
  BY <1>5
<1> QED BY <1>1, <1>3, <1>4, <1>5, <1>6, <1>7, StayKeeps

\* A later stage fails: what was rendered is lost to the caller.
LEMMA FailDownstreamInv == IInv /\ FailDownstream => IInv'
<1> SUFFICES ASSUME IInv, Draining, Fail,
                    NEW k \in Downstream, NEW frames \in 1 .. Segment, NEW done \in BOOLEAN,
                    NEW silent \in 0 .. Segment, silent <= Observed(frames),
                    StageFinish(frames, done), StayOnStage(frames, done),
                    PushDownstream(stage + 1 .. k),
                    IF Unbounded /\ (End <= stage + 1 \/ k >= End)
                    THEN Observe(Less(Protected, frames),
                                 IF Observed(frames) = 0 THEN Quiet ELSE QuietAfter(frames, silent),
                                 Generated)
                    ELSE silent = 0 /\ Observe(Protected, Quiet, Generated)
             PROVE  IInv'
  BY DEF FailDownstream
<1>1. DrainFacts /\ (Unbounded => UnboundedFacts) /\ Last \in Nat
  BY DrainIs, ChainIs DEF IInv, TypeOK, ConfigType, ChainFacts
<1>2. frames \in Nat /\ silent \in Nat /\ k \in Nat /\ frames \in 0 .. Segment
      /\ (~Unbounded => frames <= Left)
  <2>1. frames \in Nat /\ silent \in Nat
    BY <1>1 DEF DrainFacts
  <2>2. stage \in Nat
    BY <1>1 DEF DrainFacts
  <2>3. k \in Nat
    BY <2>2, <1>1 DEF Downstream
  <2> QED BY <2>1, <2>3, FinishIs
<1>3. /\ UNCHANGED <<stages, stage, complete, policy, emitted>> /\ cut' = cut /\ capped' = capped
      /\ begun' = begun \cup {stage} /\ drained' = [drained EXCEPT ![stage] = @ + frames]
      /\ pc' = "idle" /\ capacity' = 0 /\ produced' = 0 /\ failures' = failures + 1
      /\ left' = (IF Unbounded THEN Left ELSE Left - frames) /\ ended' \in BOOLEAN
  BY DEF Fail, config, StageFinish, StayOnStage
<1>4. /\ unknown' \in SUBSET (1 .. Last) /\ (\A i \in unknown' : stages[i].asymptotic # "never")
      /\ (stage \in unknown' => stage \in unknown) /\ tripped' = FALSE
  BY <1>2, <1>3, PushIs
<1>5. /\ Protected \in Nat /\ Quiet \in Nat /\ Generated \in Nat /\ Left \in Nat /\ 0 \in Nat
      /\ stages[stage].latency \in Nat /\ drained[stage] \in Nat /\ Through(stage) \in Nat
  BY <1>1 DEF DrainFacts, IInv, TypeOK, CallType
<1>6. CASE Unbounded /\ (End <= stage + 1 \/ k >= End)
  <2> DEFINE q == IF Observed(frames) = 0 THEN Quiet ELSE QuietAfter(frames, silent)
  <2>1. /\ Less(Protected, frames) \in Nat /\ QuietAfter(frames, silent) \in Nat
        /\ Observed(frames) \in Nat
        /\ Less(Protected, frames) <= Protected
        /\ (drained[stage] + frames) + Less(Protected, frames) >= stages[stage].latency + Generated
        /\ (drained[stage] + frames) + Less(Protected, frames)
             >= stages[stage].latency + QuietAfter(frames, silent)
        /\ (drained[stage] + frames) + Less(Protected, frames) >= stages[stage].latency + Quiet
    BY <1>2, <1>6, ObservedIs
  <2>2. Protected <= Through(stage) /\ Generated <= policy.max /\ (Generated > 0 => Protected = 0)
    BY <1>1, <1>6 DEF UnboundedFacts
  <2>3. /\ Generated + Protected >= Generated + Less(Protected, frames) + 0
        /\ Less(Protected, frames) <= Through(stage)
        /\ (Generated > 0 => Less(Protected, frames) = 0)
    BY <1>5, <2>1, <2>2
  <2>4. q \in Nat /\ Observe(Less(Protected, frames), q, Generated)
        /\ (drained[stage] + frames) + Less(Protected, frames) >= stages[stage].latency + q
    BY <1>5, <1>6, <2>1
  <2>5. left' = Left
    BY <1>3, <1>6
  <2> HIDE DEF q
  <2> QED BY <1>2, <1>3, <1>4, <1>5, <1>6, <2>1, <2>2, <2>3, <2>4, <2>5, StayKeeps
<1>7. CASE ~(Unbounded /\ (End <= stage + 1 \/ k >= End))
  <2>1. Observe(Protected, Quiet, Generated)
    BY <1>7
  <2>2. Unbounded => /\ Generated + Protected >= Generated + Protected + 0
                     /\ Protected <= Through(stage) /\ Generated <= policy.max
                     /\ (Generated > 0 => Protected = 0)
                     /\ drained[stage] + frames + Protected >= stages[stage].latency + Generated
                     /\ drained[stage] + frames + Protected >= stages[stage].latency + Quiet
    <3>1. \A d, l, a, b \in Nat : d + a >= l + b => d + frames + a >= l + b
      BY <1>2
    <3>2. Unbounded => /\ drained[stage] + Protected >= stages[stage].latency + Generated
                       /\ drained[stage] + Protected >= stages[stage].latency + Quiet
                       /\ Protected <= Through(stage) /\ Generated <= policy.max
                       /\ (Generated > 0 => Protected = 0)
      BY <1>1 DEF UnboundedFacts
    <3>3. Generated + Protected >= Generated + Protected + 0
      BY <1>5
    <3>4. Unbounded => /\ drained[stage] + frames + Protected >= stages[stage].latency + Generated
                       /\ drained[stage] + frames + Protected >= stages[stage].latency + Quiet
      BY <1>5, <3>1, <3>2
    <3> QED BY <3>2, <3>3, <3>4
  <2>3. (Unbounded => left' = Left) /\ (~Unbounded => left' = Left - frames) /\ 0 <= frames
    BY <1>2, <1>3
  <2> QED BY <1>2, <1>3, <1>4, <1>5, <2>1, <2>2, <2>3, StayKeeps
<1> QED BY <1>6, <1>7

\* Every step keeps the invariant.
LEMMA NextInv == IInv /\ [Next]_vars => IInv'
BY AddInv, ProcessInv, ResetInv, BeginInv, CutExhaustedInv, DrainEndInv, DrainFiniteInv,
   DrainUnknownInv, ReturnInv, FailFinishInv, FailDownstreamInv, StutterInv DEF Next, Round

\* The invariant holds in every reachable state of the chain.
LEMMA Invariance == Spec => []IInv
BY InitInv, NextInv, PTL DEF Spec

-----------------------------------------------------------------------------
(* The theorems.                                                           *)

\* Every variable keeps its type.
THEOREM TypeCorrect == Spec => []TypeOK
BY Invariance, PTL DEF IInv

\* Whatever the stages do, a tail that never fails stays within the budget of
\* its stage, no stage is given input once its own finish began, and a tail is
\* cut only after the stage's latency and the whole silence hold.
THEOREM DrainsAreBounded == Spec => []TailsEndInTime
<1>1. IInv => TailsEndInTime
  <2> SUFFICES ASSUME IInv PROVE TailsEndInTime
    OBVIOUS
  <2>1. /\ stages \in Seq(Kinds) /\ ChainFacts /\ Last \in Nat /\ 1 .. Last \subseteq 1 .. MaxStages
        /\ stage \in 1 .. Last + 1
    <3>1. /\ stages \in Seq(Kinds) /\ ChainFacts /\ Last \in Nat /\ MaxStages \in Nat
          /\ Last <= MaxStages /\ stage \in 1 .. Last + 1
      BY ChainIs, ChainAssumption DEF IInv, TypeOK, ConfigType, FinishType, ChainFacts
    <3> QED BY <3>1
  <2>2. tripped = FALSE /\ \A i \in cut : drained[i] >= stages[i].latency + policy.hold
    BY DEF IInv, OrderInv, CutInv
  <2>3. ASSUME failures = 0, NEW i \in 1 .. Last PROVE drained[i] <= StageBudget(i)
    <3>1. StageBudget(i) \in Nat
      BY <2>1 DEF ChainFacts
    <3>2. CASE i < stage
      BY <2>3, <3>2 DEF IInv, BudgetInv
    <3>3. CASE i > stage
      <4>1. drained[i] = 0
        BY <2>1, <3>3 DEF IInv, BudgetInv
      <4> QED BY <3>1, <4>1
    <3>4. CASE i = stage
      <4>1. drained[stage] <= Rendered /\ drained[stage] \in Nat
        BY <2>1, <2>3, <3>4 DEF IInv, BudgetInv, TypeOK, CallType
      <4>2. Rendered <= StageBudget(stage) /\ Rendered \in Int
        BY <2>1, <3>4, RenderedIs
      <4> QED BY <3>1, <3>4, <4>1, <4>2
    <3> QED BY <2>1, <3>2, <3>3, <3>4
  <2> QED BY <2>2, <2>3 DEF TailsEndInTime
<1> QED BY <1>1, Invariance, PTL

-----------------------------------------------------------------------------
(* The chain keeps its contract.                                           *)

\* What was delivered is within the budget of the whole chain.
LEMMA EmittedIs == IInv => emitted + produced <= Budget /\ Budget \in Nat
<1> SUFFICES ASSUME IInv PROVE emitted + produced <= Budget /\ Budget \in Nat
  OBVIOUS
<1>1. /\ stages \in Seq(Kinds) /\ ChainFacts /\ Last \in Nat /\ stage \in 1 .. Last + 1
      /\ emitted \in Nat /\ produced \in Nat
      /\ emitted + produced <= Prefix(stage) + Rendered
  BY ChainIs DEF IInv, TypeOK, ConfigType, FinishType, CallType, BudgetInv, ChainFacts
<1>2. Prefix(stage) \in Nat /\ Prefix(stage) <= Budget /\ Budget \in Nat
  <2>1. Budget = Prefix(Last + 1) /\ Last + 1 \in 1 .. Last + 1
    BY <1>1 DEF ChainFacts
  <2> QED BY <1>1, <2>1 DEF ChainFacts
<1>3. CASE stage \in 1 .. Last
  <2>1. Prefix(stage + 1) = Prefix(stage) + StageBudget(stage) /\ Prefix(stage + 1) <= Budget
    <3>1. stage + 1 \in 1 .. Last + 1
      BY <1>1, <1>3
    <3> QED BY <1>1, <1>3, <3>1 DEF ChainFacts
  <2>2. Rendered \in Nat /\ Rendered <= StageBudget(stage) /\ StageBudget(stage) \in Nat
    BY <1>3, RenderedIs
  <2> QED BY <1>1, <1>2, <2>1, <2>2
<1>4. CASE stage \notin 1 .. Last
  <2>1. stage \notin begun
    BY <1>4 DEF IInv, TypeOK, ConfigType
  <2>2. Rendered = 0
    BY <2>1 DEF Rendered
  <2> QED BY <1>1, <1>2, <2>2
<1> QED BY <1>3, <1>4

\* Every step of the chain is a step of the contract or changes none of what
\* its owner sees.
LEMMA StepKeeps == IInv /\ IInv' /\ [Next]_vars => [Contract!Next]_(Contract!contractVars)
<1> SUFFICES ASSUME IInv, IInv', [Next]_vars
             PROVE  Contract!Next \/ UNCHANGED <<Status, emitted, Budget>>
  BY DEF Contract!contractVars
<1>1. CASE Add
  <2>1. Budget <= Budget' /\ Budget \in Nat /\ Budget' \in Nat
    <3>1. Budget <= Budget'
      BY <1>1, AddGrows DEF IInv, TypeOK, ConfigType
    <3>2. (IInv => emitted + produced <= Budget /\ Budget \in Nat)'
      BY EmittedIs, PTL
    <3> QED BY <3>1, <3>2, EmittedIs
  <2>2. Status' = Status /\ emitted' = emitted
    BY <1>1 DEF Add, finish, history, Status, Open
  <2> QED BY <2>1, <2>2 DEF Contract!Next, Contract!Grow
<1>2. CASE Process
  BY <1>2, StagesUnchanged DEF Process, config, finish, Status, Open
<1>3. CASE Reset \/ Clear
  <2>1. Rearmed
    BY <1>3 DEF Reset, Clear
  <2>2. Status' = "open" /\ emitted' = 0
    BY <2>1 DEF Rearmed, Status, Open
  <2>3. Budget' \in Nat
    <3>1. (IInv => emitted + produced <= Budget /\ Budget \in Nat)'
      BY EmittedIs, PTL
    <3> QED BY <3>1
  <2> QED BY <2>2, <2>3 DEF Contract!Next, Contract!Reset
<1>4. ASSUME NEW n \in Capacities, BeginFinish(n)
      PROVE  Contract!Next \/ UNCHANGED <<Status, emitted, Budget>>
  <2>1. /\ Budget' = Budget /\ emitted' = emitted /\ stage' = stage /\ ~complete
        /\ complete' = (stages = << >>) /\ policy' \in Policies /\ policy' # NoPolicy
    <3>1. UNCHANGED <<stages, emitted, stage>> /\ ~complete /\ complete' = (stages = << >>)
      BY <1>4 DEF BeginFinish, config, history
    <3>2. policy' \in Policies
      BY <1>4 DEF BeginFinish, IInv, TypeOK, FinishType
    <3> QED BY <3>1, <3>2, StagesUnchanged, PolicyIs
  <2>2. CASE stages = << >>
    <3>1. Status' = "finished"
      BY <2>1, <2>2 DEF Status
    <3>2. emitted = 0
      <4>1. Last = 0 /\ stages \in Seq(Kinds)
        BY <2>2 DEF Last, IInv, TypeOK, ConfigType
      <4>2. stage = 1 /\ stage \notin 1 .. Last /\ stage \notin begun
        BY <4>1 DEF IInv, TypeOK, ConfigType, FinishType
      <4>3. Prefix(1) = 0
        BY <4>1, ChainIs DEF ChainFacts
      <4> QED BY <4>2, <4>3 DEF IInv, BudgetInv, Rendered, TypeOK, CallType
    <3> QED BY <2>1, <3>1, <3>2 DEF Contract!Next, Contract!FinishEmpty
  <2>3. CASE stages # << >>
    <3>1. Status' = "finishing" /\ Status \in {"open", "finishing"}
      BY <2>1, <2>3 DEF Status, Open
    <3> QED BY <2>1, <3>1 DEF Contract!Next, Contract!Begin
  <2> QED BY <2>2, <2>3
<1>5. CASE CutExhausted \/ DrainEnd \/ DrainFinite \/ DrainUnknown \/ FailFinish \/ FailDownstream
  <2>1. Draining /\ UNCHANGED <<stages, complete, policy, emitted>>
    BY <1>5 DEF CutExhausted, DrainEnd, DrainFinite, DrainUnknown, FailFinish, FailDownstream, Fail,
                config
  <2>2. policy # NoPolicy
    BY <2>1 DEF Draining, IInv, OrderInv
  <2> QED BY <2>1, <2>2, StagesUnchanged DEF Status, Open
<1>6. CASE ReturnFinish
  <2>1. /\ pc = "draining" /\ (stage > Last \/ produced = capacity)
        /\ complete' = (stage > Last) /\ emitted' = emitted + produced /\ produced' = 0
        /\ UNCHANGED <<stages, stage, policy>>
    BY <1>6 DEF ReturnFinish, config
  <2>2. /\ policy # NoPolicy /\ ~complete /\ capacity \in Capacities \ {0} /\ produced <= capacity
        /\ produced \in Nat /\ capacity \in Nat /\ emitted \in Nat
    BY <2>1 DEF IInv, OrderInv, TypeOK, CallType
  <2>3. Budget' = Budget /\ emitted' <= Budget
    BY <2>1, StagesUnchanged, EmittedIs
  <2> DEFINE done == stage > Last
  <2>4. Status # "finished" /\ Status' = IF done THEN "finished" ELSE "finishing"
    BY <2>1, <2>2 DEF Status, Open
  <2>5. Contract!Finish(capacity, produced, done)
    BY <2>1, <2>2, <2>3, <2>4 DEF Contract!Finish
  <2>6. produced \in 0 .. capacity /\ done \in BOOLEAN
    BY <2>2
  <2> HIDE DEF done
  <2> QED BY <2>2, <2>3, <2>5, <2>6 DEF Contract!Next, Contract!FinishBlock
<1>7. CASE UNCHANGED vars
  BY <1>7, StagesUnchanged DEF vars, config, finish, history, Status, Open
<1> QED BY <1>1, <1>2, <1>3, <1>4, <1>5, <1>6, <1>7 DEF Next, Round

\* The chain is open, then finishing, then finished until it is reset; a finish
\* call fills its block unless the stream ends in it, and all calls together
\* deliver no more than a budget that only the stages determine.
THEOREM ContractKept == Spec => KeepsContract
<1>1. Init => Contract!Init
  <2> SUFFICES ASSUME Init PROVE Status = "open" /\ emitted = 0 /\ Budget \in Nat
    BY DEF Contract!Init
  <2>1. Budget \in Nat
    BY InitInv, EmittedIs
  <2> QED BY <2>1 DEF Init, Status, Open
<1> QED BY <1>1, Invariance, StepKeeps, PTL DEF Spec, KeepsContract, Contract!Spec

=============================================================================
