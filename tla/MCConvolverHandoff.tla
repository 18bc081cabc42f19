------------------------- MODULE MCConvolverHandoff -------------------------
(* Model values and the symmetry of control threads for ConvolverHandoff.  *)
EXTENDS ConvolverHandoff, TLC

CONSTANTS c1, c2
MCControllers == {c1, c2}
OneController == {c1}
Symmetry == Permutations(MCControllers)
=============================================================================
