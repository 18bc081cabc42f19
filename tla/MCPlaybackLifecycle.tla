------------------------- MODULE MCPlaybackLifecycle -------------------------
(* Two controllers racing to publish; the callback alone over a sound chain, *)
(* or an owner that calls the pipeline between callbacks and stages that     *)
(* fail.                                                                    *)
EXTENDS PlaybackLifecycle, TLC

CONSTANTS p1, p2
MCPublishers == {p1, p2}
MCHosts ==
  {[controllers |-> {p1, p2}, calls |-> FALSE, faults |-> FALSE],
   [controllers |-> {p1}, calls |-> TRUE, faults |-> TRUE]}
=============================================================================
