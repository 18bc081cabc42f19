-------------------------- MODULE LoudnessNormalizer --------------------------
(***************************************************************************)
(* The loudness normalizer: the thread that owns it measures, configures    *)
(* and processes, while any thread that shares its atomic state stores into *)
(* it. The atomics are relaxed and loaded one by one: a block may see of    *)
(* each any value that it has meanwhile. What its limiter does to the level *)
(* is OutputGuard's subject; here it is the delay line behind the gain.     *)
(*                                                                         *)
(* Gains are decibels times Exact, which keeps the smoother's halves exact; *)
(* the meter is external: it measures any loudness, or none it relies on.   *)
(***************************************************************************)
EXTENDS Integers, Sequences

CONSTANTS
  Targets,       \* target loudnesses that are configured
  Loudnesses,    \* loudnesses that are measured
  StoredGains,   \* gains that threads store
  StreamingMost, \* the gain of the streaming mode is clamped to -StreamingMost..StreamingMost
  LimiterDelay,  \* frames of the limiter's delay line
  NormalizerBlocks, MaxGiven, MaxStores  \* bounds: frames of a block, of all; stores

\* The ReplayGain modes take the way of the track mode through a block.
NormalizerModes == {"track", "album", "streaming"}
Silent == 1000     \* no loudness: of silence, or before an analysis
Broken == 1001     \* not a finite number

ASSUME NormalizerAssumption ==
  /\ Targets \cup Loudnesses \cup StoredGains \subseteq Int \ {Silent, Broken}
  /\ NormalizerBlocks \subseteq Nat /\ {StreamingMost, LimiterDelay, MaxGiven, MaxStores} \subseteq Nat

\* The powers of two that a bounded run needs.
TwoTo[n \in 0..MaxGiven] == IF n = 0 THEN 1 ELSE 2 * TwoTo[n - 1]
Exact == TwoTo[MaxGiven]

VARIABLES
  loudness,  \* AtomicLoudnessState
  settings,  \* of the configuration [mode, target]
  track,     \* track_loudness
  running,   \* was_enabled
  line,      \* the frames in the limiter's delay line, 0 for silence
  block,     \* the block in process: [frames, seen: of each field what a load may return,
             \* at: stores by then]
  applied,   \* of the last block that was normalized: [from, to, target, coeff, frames]
  sounded,   \* the frames that came out of the last block
  \* history: frames given, the last that was not put in line, or not kept there; stores;
  \* whether the target gain is another's than the analysed track's
  given, gap, stores, steered

normalizerVars ==
  <<loudness, settings, track, running, line, block, applied, sounded, given, gap, stores, steered>>

NoBlock == [frames |-> 0, seen |-> <<>>, at |-> 0]
Unapplied == [from |-> 0, to |-> 0, target |-> 0, coeff |-> 0, frames |-> 0]
Empty == [i \in 1..LimiterDelay |-> 0]

\* `coeff` 0 is no smoothing, 1 halves in a frame what is left of a change.
NormalizerInit ==
  /\ settings \in [mode : NormalizerModes, target : Targets]
  /\ loudness \in [enabled : BOOLEAN, mode : {settings.mode}, target : {0}, current : {0},
                   coeff : {0, 1}, album : {0}, preamp : {-Exact}]
  /\ track = Silent /\ running = loudness.enabled /\ line = Empty
  /\ block = NoBlock /\ applied = Unapplied /\ sounded = <<>>
  /\ given = 0 /\ gap = 0 /\ stores = 0 /\ steered = FALSE

-----------------------------------------------------------------------------
(* Stores.                                                                 *)

Stored(f, v) == loudness' = [loudness EXCEPT ![f] = v]

Counted == stores < MaxStores /\ stores' = stores + 1

\* The setters of the shared state, by any thread: what is not finite is dropped.
\* `set_album_gain` and `set_preamp_gain` of the owner refuse it, to the same effect.
StoreShared ==
  /\ Counted
  /\ \/ \E e \in BOOLEAN : Stored("enabled", e) /\ UNCHANGED steered
     \/ \E m \in NormalizerModes : Stored("mode", m) /\ UNCHANGED steered
     \/ \E c \in {0, 1} : Stored("coeff", c) /\ UNCHANGED steered
     \/ \E f \in {"target", "album", "preamp"}, g \in StoredGains \cup {Broken} :
          IF g = Broken THEN UNCHANGED <<loudness, steered>>
          ELSE Stored(f, g * Exact) /\ steered' = (steered \/ f = "target")
  /\ block' = [block EXCEPT !.seen = [f \in DOMAIN @ |-> @[f] \cup {loudness'[f]}]]
  /\ UNCHANGED <<settings, track, running, line, applied, sounded, given, gap>>

\* The owner's calls; none comes in the middle of a block.
Owns == block = NoBlock

\* The gain of the analysed track is published again with another target.
TargetFor(target) ==
  IF track = Silent THEN loudness.target ELSE (target - track) * Exact
SteeredFor == steered /\ track = Silent

\* `set_config`, refused as a whole; the limit goes to the limiter in place.
SetConfig(enabled, mode, target, coeff) ==
  /\ Owns /\ Counted
  /\ IF target = Broken THEN UNCHANGED <<loudness, settings, steered>>
     ELSE /\ settings' = [mode |-> mode, target |-> target]
          /\ loudness' = [loudness EXCEPT !.enabled = enabled, !.mode = mode, !.coeff = coeff,
                                          !.target = TargetFor(target)]
          /\ steered' = SteeredFor
  /\ UNCHANGED <<track, running, line, block, applied, sounded, given, gap>>

\* `set_target_lufs`
SetTarget(target) ==
  /\ Owns /\ Counted
  /\ IF target = Broken THEN UNCHANGED <<loudness, settings, steered>>
     ELSE /\ settings' = [settings EXCEPT !.target = target]
          /\ Stored("target", TargetFor(target)) /\ steered' = SteeredFor
  /\ UNCHANGED <<track, running, line, block, applied, sounded, given, gap>>

\* `set_mode`; `set_enabled` stores what any thread may.
SetMode(mode) ==
  /\ Owns /\ Counted
  /\ settings' = [settings EXCEPT !.mode = mode] /\ Stored("mode", mode)
  /\ UNCHANGED <<track, running, line, block, applied, sounded, given, gap, steered>>

\* `analyze_track`
Analyze(l) ==
  /\ Owns /\ Counted
  /\ track' = l /\ steered' = FALSE
  /\ Stored("target", IF l = Silent THEN 0 ELSE (settings.target - l) * Exact)
  /\ UNCHANGED <<settings, running, line, block, applied, sounded, given, gap>>

\* `reset`: the mode, the switches and the offsets stay.
NormalizerReset ==
  /\ Owns /\ Counted
  /\ loudness' = [loudness EXCEPT !.target = 0, !.current = 0]
  /\ track' = Silent /\ line' = Empty /\ applied' = Unapplied /\ gap' = given /\ steered' = FALSE
  /\ UNCHANGED <<settings, running, block, sounded, given>>

-----------------------------------------------------------------------------
(* A block.                                                                *)

Bounded(g) ==
  IF g > StreamingMost THEN StreamingMost ELSE IF g < -StreamingMost THEN -StreamingMost ELSE g

\* Mutant: a limiter that comes back from a bypass keeps its line.
BugRearmed == line

\* The line at the start of a block: it is cleared after a bypass.
Rearmed == IF running THEN line ELSE Empty

Frames(n) == [i \in 1..n |-> given + i]

\* `process` to the measurement of the streaming mode. A bypassed block passes.
StartBlock(n) ==
  /\ Owns /\ given + n <= MaxGiven
  /\ running' = loudness.enabled
  /\ IF ~loudness.enabled
     THEN /\ sounded' = Frames(n) /\ given' = given + n /\ gap' = given + n
          /\ UNCHANGED <<loudness, line, block, steered>>
     ELSE /\ line' = Rearmed /\ gap' = IF running THEN gap ELSE given
          /\ IF n = 0 THEN UNCHANGED <<loudness, block, steered>>
             ELSE /\ \/ UNCHANGED <<loudness, steered>>
                     \/ /\ settings.mode = "streaming" /\ steered' = TRUE
                        /\ \E l \in Loudnesses :
                             Stored("target", Bounded(settings.target - l) * Exact)
                  /\ block' = [frames |-> n, seen |-> [f \in DOMAIN loudness |-> {loudness'[f]}],
                               at |-> stores]
          /\ UNCHANGED <<given, sounded>>
  /\ UNCHANGED <<settings, track, applied, stores>>

\* What the loads of `advance_gain` may return together.
Views(held) ==
  [enabled : held.enabled, mode : held.mode, target : held.target, current : held.current,
   coeff : held.coeff, album : held.album, preamp : held.preamp]

\* The target that a mode and the gains add up to.
Effective(l) == (IF l.mode = "album" THEN l.album ELSE l.target) + l.preamp

\* What is left of a change after `n` frames.
Remaining(change, coeff, n) == IF coeff = 0 THEN 0 ELSE change \div TwoTo[n]

\* The rest of `process`: the gain runs from one end to the other, frame by frame, and
\* the limiter delays; switched off in the middle, the block has the gain 1.
EndBlock ==
  /\ block # NoBlock
  /\ \E seen \in Views(block.seen) :
     LET n == block.frames
         to == Effective(seen) - Remaining(Effective(seen) - seen.current, seen.coeff, n)
         all == line \o Frames(n)
     IN /\ IF seen.enabled
           THEN /\ Stored("current", to)
                /\ applied' = [from |-> seen.current, to |-> to, target |-> Effective(seen),
                               coeff |-> seen.coeff, frames |-> n]
           ELSE UNCHANGED <<loudness, applied>>
        /\ sounded' = SubSeq(all, 1, n) /\ line' = SubSeq(all, n + 1, n + LimiterDelay)
        /\ given' = given + n
  /\ block' = NoBlock
  /\ UNCHANGED <<settings, track, running, gap, stores, steered>>

NormalizerNext ==
  \/ StoreShared \/ NormalizerReset \/ EndBlock
  \/ \E e \in BOOLEAN, m \in NormalizerModes, t \in Targets \cup {Broken}, c \in {0, 1} :
       SetConfig(e, m, t, c)
  \/ \E t \in Targets \cup {Broken} : SetTarget(t)
  \/ \E m \in NormalizerModes : SetMode(m)
  \/ \E l \in Loudnesses \cup {Silent} : Analyze(l)
  \/ \E n \in NormalizerBlocks : StartBlock(n)

NormalizerSpec == NormalizerInit /\ [][NormalizerNext]_normalizerVars

-----------------------------------------------------------------------------
(* Properties.                                                             *)

\* A gain that goes to its target frame by frame.
FrameByFrame(from, target, coeff, n) ==
  LET gain[i \in 0..n] == IF i = 0 THEN from
                          ELSE IF coeff = 0 THEN target ELSE (gain[i - 1] + target) \div 2
  IN gain[n]

BlockEnds ==
  block # NoBlock /\ block' = NoBlock /\ (applied' # applied \/ block.seen.enabled = {TRUE})

\* A normalized block takes the gain up where the last one left it, across bypasses and
\* whatever is stored meanwhile; a block during which nothing was stored goes to what the
\* published mode and gains say together (atomic_state.rs:4-10).
GainIsContinued ==
  BlockEnds => /\ applied'.from = applied.to
               /\ stores = block.at => applied'.target = Effective(loudness)

\* The block ends where its gain would have come frame by frame (normalizer.rs:352-362).
GainIsExact ==
  BlockEnds =>
    applied'.to = FrameByFrame(applied'.from, applied'.target, applied'.coeff, applied'.frames)

\* What leaves the limiter came in LimiterDelay frames before, and never before a bypass
\* or a reset: nothing is replayed (normalizer.rs:321-330).
NothingIsReplayed ==
  given' # given /\ running' =>
    \A i \in DOMAIN sounded' :
      LET due == given + i - LimiterDelay
      IN sounded'[i] = IF due > gap' THEN due ELSE 0

\* As long as nobody else stored a target gain, it is the one of the analysed track.
TrackGainIsKept ==
  track # Silent /\ ~steered => loudness.target = (settings.target - track) * Exact

NormalizationIsSeamless ==
  /\ [][GainIsContinued /\ GainIsExact /\ NothingIsReplayed]_normalizerVars
  /\ []TrackGainIsKept
=============================================================================
