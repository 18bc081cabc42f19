-------------------------- MODULE MCLoudnessDatabase --------------------------
(* Two workers that both measure, store and ask for what is fresh: one file  *)
(* that changes once, one build, no crash.                                   *)
EXTENDS LoudnessDatabase, TLC
CONSTANTS file, first, second

MCAlbums == {}
MCRoles == [w \in Workers |-> {"put", "fresh"}]
Symmetry == Permutations(Workers)
=============================================================================
