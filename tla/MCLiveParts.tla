------------------------------ MODULE MCLiveParts ------------------------------
(***************************************************************************)
(* The publication of snapshots and the decoder over HTTP, each on its own   *)
(* and with its fairness: `part` is the one that runs, the other rests where *)
(* it starts.                                                                *)
(***************************************************************************)
EXTENDS SnapshotPublication, StreamingDecoder
CONSTANTS w1, w2, r1, a1, a2, a3

VARIABLE part

MCLengthOf == [v \in Versions |-> IF v = 3 THEN 4 ELSE 5]

PartsInit ==
  /\ part \in {"snapshot", "decoder"}
  /\ Init /\ StreamingInit
  /\ part # "decoder" => owner = "track"

InSnapshot(A) == part = "snapshot" /\ A /\ UNCHANGED <<part, streamingVars>>
InDecoder(A) == part = "decoder" /\ A /\ UNCHANGED <<part, vars>>

PartsNext == InSnapshot(Next) \/ InDecoder(StreamingNext)

partsVars == <<part, vars, streamingVars>>

\* The fairness of the two specifications.
FairParts ==
  /\ PartsInit /\ [][PartsNext]_partsVars
  /\ \A w \in Writers : WF_partsVars(InSnapshot(WriterSteps(w)))
  /\ \A r \in Readers :
       WF_partsVars(InSnapshot(ReadSteps(r))) /\ WF_partsVars(InSnapshot(Poll(r)))
  /\ WF_partsVars(InDecoder(Step))
=============================================================================
