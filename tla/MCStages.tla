------------------------------- MODULE MCStages -------------------------------
(***************************************************************************)
(* Six components that no other module composes, each on its own: `stage`  *)
(* is the one that runs, the others rest where they start.                  *)
(***************************************************************************)
EXTENDS SaturationAdapter, OutputGuard, FFTConvolver, BlockStream, RingBuffer,
        NoiseShaping, TLC
CONSTANTS direct, x2, x4

VARIABLE stage

MCFilterTail == [q \in Qualities |-> IF q = direct THEN 1 ELSE 2]
Symmetry == Permutations({x2, x4})

MCSettings == {[enabled |-> TRUE, ceiling |-> 4], [enabled |-> FALSE, ceiling |-> 3]}

Response(c, t) == [channels |-> c, taps |-> t]
MCResponses == {Response(1, 3), Response(1, 6), Response(1, 14), Response(2, 27)}
MCGeometries == [channels : {1, 2}, partitions : {1, 2}]

K(from, to, size, most, unit, skip, extension) ==
  [from |-> from, to |-> to, block |-> size, most |-> most, unit |-> unit,
   skip |-> skip, extension |-> extension]
MCKernels ==
  {K(2, 3, 2, 3, 2, 1, 0), K(3, 2, 3, 2, 3, 1, 0), K(1, 2, 2, 6, 3, 0, 2),
   K(3, 2, 2, 4, 0, 0, 1), K(1, 2, 2, 4, 2, 3, 0)}
MCSizes == {0, 1, 2, 5}

MCCurves == [tpdf |-> 0, lipshitz |-> 2, weighted |-> 3, improved |-> 3]

Init ==
  /\ stage \in {"saturation", "guard", "convolver", "resampler", "ring", "shaper"}
  /\ SaturationInit /\ GuardInit /\ ConvolverInit /\ BlockInit /\ RingInit /\ ShapingInit
  /\ stage # "saturation" => params = [armed |-> TRUE, enabled |-> TRUE,
                                       quality |-> direct, highpass |-> FALSE]
  /\ stage # "guard" => published = [limiter |-> CHOOSE s \in MCSettings : s.ceiling = 3,
                                     shaper |-> 0]
  /\ stage # "convolver" => response = Response(1, 3)
  /\ stage # "resampler" => kernel = K(2, 3, 2, 3, 2, 1, 0)
  /\ stage # "shaper" => shaperParams = [enabled |-> TRUE, curve |-> "tpdf"]

Rest ==
  /\ stage # "saturation" => UNCHANGED saturationVars
  /\ stage # "guard" => UNCHANGED guardVars
  /\ stage # "convolver" => UNCHANGED convolverVars
  /\ stage # "resampler" => UNCHANGED blockVars
  /\ stage # "ring" => UNCHANGED ringVars
  /\ stage # "shaper" => UNCHANGED shapingVars

Next ==
  /\ UNCHANGED stage
  /\ \/ stage = "saturation" /\ SaturationNext /\ Rest
     \/ stage = "guard" /\ GuardNext /\ Rest
     \/ stage = "convolver" /\ ConvolverNext /\ Rest
     \/ stage = "resampler" /\ BlockNext /\ Rest
     \/ stage = "ring" /\ RingNext /\ Rest
     \/ stage = "shaper" /\ ShapingNext /\ Rest

Spec == Init /\ [][Next]_<<stage, saturationVars, guardVars, convolverVars, blockVars, ringVars,
                            shapingVars>>
=============================================================================
