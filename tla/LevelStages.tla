------------------------------ MODULE LevelStages ------------------------------
(***************************************************************************)
(* The stages that change the level with the loudness: the dynamic loudness *)
(* stage of the chain, and the normalizer behind it.                        *)
(***************************************************************************)
EXTENDS DynamicLoudness, LoudnessNormalizer

\* Each of them changes the level gradually, and starts no stream in the middle
\* (dynamic_loudness.rs:477-481, normalizer.rs:347-382).
LoudnessIsGradual == HeadroomIsGradual /\ NormalizationIsSeamless

=============================================================================
