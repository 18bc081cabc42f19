----------------------------- MODULE MCSharedState -----------------------------
(***************************************************************************)
(* What threads share, and the adapters that adopt what is published, each on *)
(* its own: `part` is the one that runs, the others rest where they start.   *)
(* The readers and writers of snapshots are interchangeable, and so are the   *)
(* addresses not yet used.                                                   *)
(***************************************************************************)
EXTENDS SnapshotPublication, LoudnessDatabase,
        SmoothedStages, LevelStages, TLC
CONSTANTS w1, w2, r1, r2, a1, a2, a3, a4, scanner, reader, file, web

VARIABLE part

Symmetry ==
  Permutations({w1, w2}) \cup Permutations({r1, r2}) \cup Permutations({a2, a3, a4})

MCAlbums == {<<file, web>>}
MCRoles == scanner :> {"put", "album"} @@ reader :> {"fresh", "outdated", "delete"}
Row(version, intact) ==
  [version |-> version, stamp |-> 1, content |-> 0, raced |-> FALSE, album |-> 0,
   intact |-> intact]
LeftBehind(schema, local, remote) ==
  [schema |-> schema, residue |-> FALSE, rows |-> file :> local @@ web :> remote]
MCDisks ==
  {LeftBehind("current", Row(2, TRUE), Row(1, FALSE)),
   LeftBehind("legacy", Row(1, TRUE), None)}

MCRampFrames == [rate \in StageRates |-> rate + 1]
MCWishes ==
  [equalizer |-> [gain : {0, 1}, enabled : BOOLEAN],
   crossfeed |-> {[mix |-> m[1], cutoff |-> m[2], enabled |-> e] :
                   m \in {<<0, 1>>, <<8, 5>>}, e \in BOOLEAN},
   volume |-> [volume : {0, 1, 4}, muted : BOOLEAN]]

Wanted(enabled, volume, strength) == [enabled |-> enabled, volume |-> volume, strength |-> strength]
MCLoudnessParams ==
  {Wanted(TRUE, 0, 2), Wanted(TRUE, 0, 0), Wanted(TRUE, 1, 2), Wanted(FALSE, 0, 1)}
Tuning(gain, low, high) == [preGain |-> gain, factor |-> [v \in {0, 1} |-> IF v = 0 THEN low ELSE high]]
MCDefaultTuning == Tuning(8, 4, 0)
MCTunings == {MCDefaultTuning, Tuning(6, 6, 2)}

PartInit ==
  /\ part \in {"snapshot", "database", "smoothed", "dynamics", "normalizer"}
  /\ Init /\ disk \in MCDisks /\ DatabaseInit
  /\ SmoothInit /\ DynamicInit /\ NormalizerInit
  /\ part # "database" => disk.schema = "legacy"
  /\ part # "smoothed" => wish = [volume |-> 1, muted |-> FALSE] /\ adapter.rate = 1
  /\ part # "dynamics" => held.params = Wanted(TRUE, 0, 2) /\ boost.tuning = MCDefaultTuning
  /\ part # "normalizer" => settings = [mode |-> "track", target |-> 0] /\ loudness.enabled /\ loudness.coeff = 1

Rest ==
  /\ part # "snapshot" => UNCHANGED vars
  /\ part # "database" => UNCHANGED databaseVars
  /\ part # "smoothed" => UNCHANGED smoothVars
  /\ part # "dynamics" => UNCHANGED dynamicVars
  /\ part # "normalizer" => UNCHANGED normalizerVars

PartNext ==
  /\ UNCHANGED part
  /\ \/ part = "snapshot" /\ Next /\ Rest
     \/ part = "database" /\ DatabaseNext /\ Rest
     \/ part = "smoothed" /\ SmoothNext /\ Rest
     \/ part = "dynamics" /\ DynamicNext /\ Rest
     \/ part = "normalizer" /\ NormalizerNext /\ Rest

PartSpec ==
  PartInit /\ [][PartNext]_<<part, vars, databaseVars, smoothVars, dynamicVars, normalizerVars>>
=============================================================================
