---------------------------- MODULE ChainContract ----------------------------
(***************************************************************************)
(* What a DSP chain promises its owner about the end of a stream: it is     *)
(* open, then finishing, then finished until it is reset; a finish fills    *)
(* the block it was given unless the stream ends in it; and the tail of a   *)
(* stream is never longer than a budget that only the stages determine.     *)
(***************************************************************************)
EXTENDS Naturals

CONSTANTS Blocks      \* frames of one finish call

VARIABLES
  chain,      \* "open", "finishing" or "finished"
  emitted,    \* tail frames delivered since the finish began
  budget      \* most tail frames of this chain

contractVars == <<chain, emitted, budget>>

Init == chain = "open" /\ emitted = 0 /\ budget \in Nat

\* An empty block, or a stage failing: begun, and nothing delivered.
Begin ==
  /\ chain' = IF chain = "open" THEN "finishing" ELSE chain
  /\ UNCHANGED emitted

Finish(n, produced, done) ==
  /\ chain # "finished" /\ n > 0
  /\ produced <= n /\ (produced < n => done)
  /\ emitted' = emitted + produced /\ emitted' <= budget
  /\ chain' = IF done THEN "finished" ELSE "finishing"

\* A chain without stages ends at once, whatever the block.
FinishEmpty == emitted = 0 /\ chain' = "finished" /\ UNCHANGED emitted

\* `reset`, `set_sample_rate`, `clear`: open again, perhaps with other stages.
Reset == chain' = "open" /\ emitted' = 0 /\ budget' \in Nat

\* A stage added to a chain can only lengthen its tail.
Grow == budget' >= budget /\ UNCHANGED <<chain, emitted>>

FinishBlock ==
  \E n \in Blocks : \E produced \in 0 .. n, done \in BOOLEAN : Finish(n, produced, done)

Next ==
  \/ (Begin \/ FinishEmpty \/ FinishBlock) /\ UNCHANGED budget
  \/ Reset \/ Grow

Spec == Init /\ [][Next]_contractVars
=============================================================================
