----------------------------- MODULE OutputGuard -----------------------------
(***************************************************************************)
(* The end of the output chain: the lookahead peak limiter under its        *)
(* adapter, which subtracts from the user's ceiling what the noise shaper   *)
(* behind it may add, and the latch that hands the shaper the very setting  *)
(* the limiter made room for.                                               *)
(*                                                                         *)
(* A frame is its peak, which stands for the intersample peak of the        *)
(* `Settle` + 1 frames up to it; levels are small integers, a gain counts   *)
(* the steps of 1 / Unit, divisions rounded to the safe side.  A block of   *)
(* n frames is n blocks of one frame without a publication in between.      *)
(***************************************************************************)
EXTENDS Integers, Sequences

CONSTANTS
  Settings,   \* limiter parameters that may be published, see `Setting`
  Errors,     \* shaper settings that may be published, by their error bound
  Peaks,      \* the peaks of frames, 0 among them
  GainUnit,   \* the gain 1
  Window,     \* lookahead_frames
  Settle,     \* TRUE_PEAK_DELAY and RAMP_SETTLE_FRAMES
  Release     \* a released gain recovers 1 / Release of what it lacks

Setting == [enabled : BOOLEAN, ceiling : Nat \ {0}]

ASSUME GuardAssumption ==
  /\ Settings \subseteq Setting /\ Errors \subseteq Nat
  /\ Peaks \subseteq Nat /\ 0 \in Peaks
  /\ GainUnit \in Nat \ {0} /\ Window \in Nat \ {0}
  /\ Settle \in Nat /\ Release \in Nat \ {0}

VARIABLES
  published,   \* both parameter stores: [limiter, shaper]
  adopted,      \* the limiter adapter's copies of both
  latch,       \* NoiseShaperSnapshotLatch
  shaped,      \* the shaper adapter's copy
  limiter,     \* the core, see FreshLimiter
  drain,       \* finish_remaining_frames, or what it is before and after
  turn,        \* the stage whose call is next: the limiter or the shaper
  \* history: the frame that came out last; the thresholds of the last frames of a
  \* ramp, the newest first
  out, recent

guardVars == <<published, adopted, latch, shaped, limiter, drain, turn, out, recent>>

Bigger(a, b) == IF a >= b THEN a ELSE b
Lesser(a, b) == IF a <= b THEN a ELSE b

\* `delay_frames_for` and `attack_frames_for`; with a guard the limiter is held in
\* the true-peak mode whatever mode is published.
Delay == Window + Settle
AttackFrames == Bigger(Delay - 1 - Settle, 1)

\* queue: the candidates for the maximum of the window, as [age, peak].
FreshLimiter(threshold) ==
  [threshold |-> threshold, line |-> [i \in 1..Delay |-> 0], queue |-> <<>>,
   gain |-> GainUnit, step |-> 0]

\* `apply_output_ceiling_guard`; a threshold stays positive.
Guarded(settings, error) == Bigger(settings.ceiling - error, 1)

NotDraining == -1
Drained == -2

GuardInit ==
  /\ published \in [limiter : Settings, shaper : Errors]
  /\ adopted = published /\ latch = published.shaper /\ shaped = latch
  /\ limiter = FreshLimiter(Guarded(adopted.limiter, adopted.shaper))
  /\ drain = NotDraining /\ turn = "limiter"
  /\ out = 0 /\ recent = <<>>

\* The control thread, at any point of a block.
PublishGuarded ==
  /\ \/ \E s \in Settings : published' = [published EXCEPT !.limiter = s]
     \/ \E e \in Errors : published' = [published EXCEPT !.shaper = e]
  /\ UNCHANGED <<adopted, latch, shaped, limiter, drain, turn, out, recent>>

-----------------------------------------------------------------------------
(* The core.                                                               *)

Front(queue) == IF queue = <<>> THEN 0 ELSE queue[1].peak

\* `push_frame_peak`: what left the delay line is popped off the front, what the
\* new frame dominates off the back.
Pushed(l, peak) ==
  LET aged == [i \in DOMAIN l.queue |-> [l.queue[i] EXCEPT !.age = @ + 1]]
      Old(i) == aged[i].age >= Len(l.line)
      Low(i) == aged[i].peak <= peak
      first == CHOOSE n \in 1..Len(aged) + 1 :
                 (n <= Len(aged) => ~Old(n)) /\ \A i \in 1..n - 1 : Old(i)
      last == CHOOSE n \in 0..Len(aged) :
                (n > 0 => ~Low(n)) /\ \A i \in n + 1..Len(aged) : Low(i)
  IN Append(SubSeq(aged, first, last), [age |-> 0, peak |-> peak])

Target(l) ==
  IF Front(l.queue) > l.threshold THEN (GainUnit * l.threshold) \div Front(l.queue)
  ELSE GainUnit

\* Mutant: every frame arms the ramp anew.
BugArmed(l, step) == step

\* A ramp under way only gets steeper.
Armed(l, step) == Bigger(l.step, step)

\* Attack, a linear descent that is over `Settle` frames before its frame leaves;
\* or release, never above the target.
Moved(l) ==
  LET target == Target(l)
      ramp == AttackFrames
      step == Armed(l, (l.gain - target + ramp - 1) \div ramp)
      released == l.gain + (GainUnit - l.gain) \div Release
  IN IF target < l.gain
     THEN [l EXCEPT !.step = step, !.gain = Bigger(l.gain - step, target)]
     ELSE [l EXCEPT !.step = 0, !.gain = Lesser(released, target)]

\* One frame: the gain moves by the window before the frame enters it.
Limited(l, peak) ==
  [Moved(l) EXCEPT !.line = Append(Tail(l.line), peak), !.queue = Pushed(l, peak)]

Kept(thresholds) ==
  SubSeq(thresholds, 1, Lesser(Len(thresholds), AttackFrames))

\* `thresholds` are those of the frames since the core was fresh.
Render(l, peak, thresholds) ==
  /\ limiter' = Limited(l, peak)
  /\ out' = l.line[1] /\ recent' = Kept(<<l.threshold>> \o thresholds)

-----------------------------------------------------------------------------
(* The adapters.                                                           *)

\* `sync_params`: in place, but for what the bypass invalidates.
Stays == published.limiter.enabled = adopted.limiter.enabled
Synced ==
  LET threshold == Guarded(published.limiter, published.shaper)
  IN IF Stays THEN [limiter EXCEPT !.threshold = threshold]
     ELSE FreshLimiter(threshold)
RecentSynced == IF Stays THEN recent ELSE <<>>

\* `process` of the limiter, refused once finish has begun; `frames` is a frame or
\* none.  A disabled limiter lets it pass.
LimiterProcess(frames) ==
  /\ turn = "limiter" /\ drain = NotDraining
  /\ adopted' = published /\ latch' = published.shaper
  /\ IF published.limiter.enabled /\ frames # <<>>
     THEN Render(Synced, frames[1], RecentSynced)
     ELSE limiter' = Synced /\ recent' = RecentSynced /\ UNCHANGED out
  /\ turn' = "shaper"
  /\ UNCHANGED <<published, shaped, drain>>

\* `finish` of the limiter: the lookahead in silence, without a sync.
LimiterFinish(frames) ==
  /\ turn = "limiter" /\ drain # Drained
  /\ LET due == IF drain # NotDraining THEN drain
                ELSE IF adopted.limiter.enabled THEN Delay ELSE 0
     IN IF due = 0 \/ frames = 0
        THEN /\ drain' = IF due = 0 THEN Drained ELSE due
             /\ UNCHANGED <<limiter, out, recent>>
        ELSE /\ Render(limiter, 0, recent)
             /\ drain' = IF due = 1 THEN Drained ELSE due - 1
  /\ turn' = "shaper"
  /\ UNCHANGED <<published, adopted, latch, shaped>>

BlockSetting == latch

\* `process` of the shaper, on what the limiter gave.
ShaperProcess ==
  /\ turn = "shaper" /\ turn' = "limiter" /\ shaped' = BlockSetting
  /\ UNCHANGED <<published, adopted, latch, limiter, drain, out, recent>>

\* `reset` of both, and `set_sample_rate`: no sync.
GuardReset ==
  /\ turn = "limiter"
  /\ limiter' = FreshLimiter(limiter.threshold)
  /\ drain' = NotDraining /\ out' = 0 /\ recent' = <<>>
  /\ UNCHANGED <<published, adopted, latch, shaped, turn>>

GuardNext ==
  \/ PublishGuarded \/ ShaperProcess \/ GuardReset
  \/ \E peak \in Peaks : LimiterProcess(<<peak>>)
  \/ LimiterProcess(<<>>)
  \/ \E frames \in {0, 1} : LimiterFinish(frames)

GuardSpec == GuardInit /\ [][GuardNext]_guardVars

-----------------------------------------------------------------------------
(* Properties.                                                             *)

Highest(thresholds) ==
  CHOOSE t \in {thresholds[i] : i \in DOMAIN thresholds} :
    \A i \in DOMAIN thresholds : thresholds[i] <= t

\* Every gain of the span a frame's peak is reconstructed from keeps it under the
\* ceiling, however peaks and releases followed each other: under the highest
\* threshold of the last ramp, a lower one being reached by the end of the ramp.
\* And that threshold leaves the head-room of the very setting the block is then
\* quantised with, whatever was published in the middle of it.
\* limiter.rs:177-189, adapters.rs:1986-1993.
CeilingHolds ==
  /\ recent # <<>> =>
       \A peak \in {out} \cup {limiter.line[i] : i \in 1..Settle} :
         limiter.gain * peak <= GainUnit * Highest(recent)
  /\ turn = "limiter" =>
       shaped = adopted.shaper /\ limiter.threshold = Guarded(adopted.limiter, shaped)

=============================================================================
