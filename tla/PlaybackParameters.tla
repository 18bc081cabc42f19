-------------------------- MODULE PlaybackParameters --------------------------
(***************************************************************************)
(* The parameters of a playback: control threads with cloned handles set    *)
(* them, through the facade, whose strict build publishes a configuration   *)
(* first and whose setters answer, or directly at the publishers of the      *)
(* stages, which ignore what they do not take.  A display reads the          *)
(* telemetry that the callback stores field by field.  A snapshot replaces   *)
(* another at once (see SnapshotPublication); here a setter is: check, lock  *)
(* and copy, publish.                                                       *)
(*                                                                         *)
(* Amounts and mixes are in hundredths, gains and levels in dB, frequencies  *)
(* in Hz, times in ms, linear volumes in parts of 10^7, exact in steps of    *)
(* 20 dB.  Bounds: one stage is edited, the equalizer has two bands, and two *)
(* values stand for those of a switch, a type or a curve.                    *)
(***************************************************************************)
EXTENDS Integers, Sequences

CONSTANTS
  Editors,    \* control threads
  Excess,     \* how far beyond its range the value given for a parameter may be
  MaxEdits,   \* bound: setters called
  NotFinite, Absent, Nobody, \* a number that is none, no value, no thread
  GainBands, MaxMeterUpdates \* the telemetry's bands; bound: updates

VARIABLES
  stageInUse, \* the stage that is edited, and whether through the facade
  armed,      \* saturation_armed of the facade
  controls,   \* the stage's current snapshot, or Unbuilt
  editor,     \* per control thread the setter under way and the copy it edits
  writer,     \* who holds the writer lock
  asked,      \* history: per field what the last setter to publish it was given
  edits,
  meter,      \* telemetry: of the factor every store, with the gains stored by then,
              \* of each gain the latest; a field's value is the update it is of
  meterStore, \* the update being stored
  display     \* the display: the store of the factor and the gains it may not read
              \* behind, and what its read has loaded so far

parameterVars == <<stageInUse, armed, controls, editor, writer, asked, edits>>
meterVars == <<meter, meterStore, display>>

ASSUME ParameterAssumption ==
  /\ Excess \subseteq 0 .. 20 /\ Nobody \notin Editors
  /\ NotFinite \notin Int /\ Absent \notin Int
  /\ {MaxEdits, GainBands} \subseteq Nat

-----------------------------------------------------------------------------
(* Parameters and their ranges.                                            *)

Volumes == <<0, 10000000>>
LevelRange == <<-120, 0>> \* a listening volume as the facade takes it

Ranges ==
  [volume |-> [volume |-> <<0, 100>>],
   eq |-> [gain1 |-> <<-15, 15>>, gain2 |-> <<-15, 15>>],
   limiter |-> [threshold |-> <<-20, 0>>, release |-> <<10, 1000>>],
   saturation |->
     [drive |-> <<0, 200>>, threshold |-> <<0, 100>>, mix |-> <<0, 100>>,
      input |-> <<-24, 24>>, output |-> <<-24, 24>>, highpass |-> <<1000, 12000>>],
   crossfeed |-> [mix |-> <<0, 100>>, cutoff |-> <<200, 2000>>],
   loudness |-> [listening |-> Volumes, strength |-> <<0, 100>>],
   tuning |-> [pre |-> <<-6, 0>>, transition |-> <<10, 40>>, onset |-> <<-30, 0>>],
   shaper |-> [bits |-> <<8, 32>>]]

\* The snapshots that `new` publishes.
Defaults ==
  [volume |-> [volume |-> 100, muted |-> FALSE],
   eq |-> [gain1 |-> 0, gain2 |-> 0, enabled |-> FALSE],
   limiter |-> [threshold |-> -1, release |-> 150, enabled |-> TRUE, mode |-> FALSE],
   saturation |->
     [drive |-> 25, threshold |-> 88, mix |-> 20, input |-> 0, output |-> 0, highpass |-> 4000,
      type |-> FALSE, quality |-> FALSE, highpassMode |-> FALSE, enabled |-> TRUE, armed |-> TRUE],
   crossfeed |-> [mix |-> 35, cutoff |-> 700, enabled |-> TRUE],
   loudness |-> [listening |-> 10000000, strength |-> 100, enabled |-> TRUE],
   tuning |-> [pre |-> -3, transition |-> 25, onset |-> -15],
   shaper |-> [bits |-> 24, enabled |-> TRUE, curve |-> FALSE]]

Stages == DOMAIN Ranges
FieldsOf(stage) == DOMAIN Defaults[stage]
Ranged(stage) == DOMAIN Ranges[stage]

RangeOf(use, f) == IF use.facade /\ f = "listening" THEN LevelRange ELSE Ranges[use.stage][f]

\* `sanitized` of a finite value.
Clamped(range, v) == IF v < range[1] THEN range[1] ELSE IF v > range[2] THEN range[2] ELSE v

\* `db_to_linear`
Linear(db) ==
  <<1, 10, 100, 1000, 10000, 100000, 1000000, 10000000, 100000000>>[(db + 140) \div 20 + 1]
ClampedLinear(db) == Clamped(Volumes, Linear(db))

\* What is published for a value: the facade clamps a level before it converts it.
Stored(use, f, v) ==
  IF f \notin Ranged(use.stage) THEN v
  ELSE IF use.facade /\ f = "listening" THEN ClampedLinear(Clamped(LevelRange, v))
  ELSE Clamped(RangeOf(use, f), v)

-----------------------------------------------------------------------------
(* Setters.                                                                *)

\* The sets of parameters that one setter of the facade changes.
FacadeSets ==
  [volume |-> {{"volume"}, {"muted"}},
   eq |-> {{"enabled"}, {"gain1"}, {"gain2"}, {"gain1", "gain2", "enabled"}},
   limiter |-> {{"enabled"}, {"threshold"}},
   saturation |-> {{"enabled"}, {"drive"}, {"threshold"}, {"mix"}, {"type"}, {"input", "output"}},
   crossfeed |-> {{"enabled"}, {"mix", "cutoff", "enabled"}},
   loudness |-> {{"enabled"}, {"listening", "strength", "enabled"}},
   tuning |-> {{"pre", "transition", "onset"}},
   shaper |-> {{"enabled"}, {"bits", "enabled", "curve"}}]

\* A publisher has a setter for every field and, of most stages, a `write` for all of them.
WrittenAtOnce == {"eq", "saturation", "crossfeed", "loudness", "tuning", "shaper"}
PublisherSets(stage) ==
  {{f} : f \in FieldsOf(stage)}
  \cup (IF stage \in WrittenAtOnce THEN {FieldsOf(stage)} ELSE {})
  \cup (IF stage = "saturation" THEN {{"input", "output"}} ELSE {})

SetTogether(use) == IF use.facade THEN FacadeSets[use.stage] ELSE PublisherSets(use.stage)

\* What a caller may give for a range; a number of bits is finite and not negative.
Around(range) == {range[1] - d : d \in Excess} \cup {range[2] + d : d \in Excess}
Given(use, f) ==
  IF f \notin Ranged(use.stage) THEN BOOLEAN
  ELSE IF f = "bits" THEN {IF v < 0 THEN 0 ELSE v : v \in Around(RangeOf(use, f))}
  ELSE Around(RangeOf(use, f)) \cup {NotFinite}

\* The arguments of a call: one value may stand out, the other numbers are as large as
\* their ranges allow.
Arguments(use, fields) ==
  UNION {{[f \in fields |-> IF f = odd THEN v
                            ELSE IF f \in Ranged(use.stage) THEN RangeOf(use, f)[2] ELSE choice] :
            choice \in BOOLEAN, v \in Given(use, odd)} : odd \in fields}

\* `set_*` and `write`; `set_ref_volume_db` of the publisher; and of the equalizer a
\* band that there is not.
Setters(use) ==
  {[kind |-> "set", to |-> r] : r \in UNION {Arguments(use, fields) : fields \in SetTogether(use)}}
  \cup (IF use.stage = "eq" THEN {[kind |-> "set", to |-> [gain3 |-> 0]]} ELSE {})
  \cup (IF use.stage = "loudness" /\ ~use.facade
        THEN {[kind |-> "reference", to |-> [listening |-> v]] : v \in Around(LevelRange) \cup {NotFinite}}
        ELSE {})

\* Mutant: the listening volume changes and the reference stays.
BugReference(setter, snapshot) ==
  IF setter.kind = "reference" THEN setter.to.listening ELSE snapshot.ref

\* Setting the listening volume forgets the reference it was derived from.
Reference(setter, snapshot) ==
  IF setter.kind = "reference" THEN setter.to.listening
  ELSE IF "listening" \in DOMAIN setter.to THEN Absent ELSE snapshot.ref

\* A reference is given as a level also where the volume is linear.
Wanted(setter, f) == IF setter.kind = "reference" THEN Linear(setter.to[f]) ELSE setter.to[f]

Edited(use, snapshot, setter) ==
  [f \in DOMAIN snapshot |->
     IF f = "ref" THEN Reference(setter, snapshot)
     ELSE IF f \in DOMAIN setter.to THEN Stored(use, f, Wanted(setter, f)) ELSE snapshot[f]]

-----------------------------------------------------------------------------
(* The build.                                                              *)

Unbuilt == [ref |-> Absent]
NoSetter == [kind |-> "none", to |-> Unbuilt]
AtRest == [setter |-> NoSetter, copy |-> Unbuilt]

Snapshot(use, values) ==
  [f \in FieldsOf(use.stage) \cup {"ref"} |-> IF f = "ref" THEN Absent ELSE Stored(use, f, values[f])]

\* The publishers of an advanced caller start with their defaults.
ParametersInit ==
  /\ stageInUse \in [stage : Stages, facade : BOOLEAN] /\ armed = FALSE
  /\ asked = IF stageInUse.facade THEN Unbuilt ELSE Defaults[stageInUse.stage]
  /\ controls = IF stageInUse.facade THEN Unbuilt ELSE Snapshot(stageInUse, asked)
  /\ editor = [e \in Editors |-> AtRest] /\ writer = Nobody /\ edits = 0

\* `validate`
InRange(use, f, v) == v # NotFinite /\ RangeOf(use, f)[1] <= v /\ v <= RangeOf(use, f)[2]

\* What a configuration becomes: it has no say in some parameters, arms a saturation
\* that is enabled, and may leave out the cutoff of the high-pass.
Configured(use, config) ==
  [f \in FieldsOf(use.stage) |->
     IF f \in {"muted", "release", "mode"} \/ (f = "highpass" /\ ~config["highpassMode"])
     THEN Defaults[use.stage][f]
     ELSE IF f = "armed" THEN config["enabled"] ELSE config[f]]

\* `build`: what is out of range is refused.
BuildParameters(config) ==
  LET values == Configured(stageInUse, config)
  IN /\ controls = Unbuilt
     /\ \A f \in Ranged(stageInUse.stage) : InRange(stageInUse, f, values[f])
     /\ controls' = Snapshot(stageInUse, values) /\ asked' = values
     /\ armed' = (stageInUse.stage = "saturation" /\ values["armed"])
     /\ UNCHANGED <<stageInUse, editor, writer, edits>>

-----------------------------------------------------------------------------
(* A setter.                                                               *)

\* `require_armed_saturation`, `validate_eq_band_index`, `checked_parameter`.
Accepted(setter) ==
  /\ stageInUse.facade /\ stageInUse.stage = "saturation" => armed
  /\ DOMAIN setter.to \subseteq FieldsOf(stageInUse.stage)
  /\ \A f \in DOMAIN setter.to : setter.to[f] # NotFinite

\* Refused, or on to the lock.
CallSetter(e) ==
  /\ controls # Unbuilt /\ editor[e] = AtRest /\ edits < MaxEdits
  /\ edits' = edits + 1
  /\ \E setter \in Setters(stageInUse) :
       editor' = IF Accepted(setter) THEN [editor EXCEPT ![e].setter = setter] ELSE editor
  /\ UNCHANGED <<stageInUse, armed, controls, writer, asked>>

\* `update` and `update_if`: the copy is made under the lock.
LockControls(e) ==
  /\ editor[e].setter # NoSetter /\ writer = Nobody
  /\ writer' = e /\ editor' = [editor EXCEPT ![e].copy = controls]
  /\ UNCHANGED <<stageInUse, armed, controls, asked, edits>>

\* The edited copy is published; a reference that is in force is not published again.
PublishEdit(e) ==
  /\ writer = e
  /\ LET setter == editor[e].setter
         declines == setter.kind = "reference" /\ editor[e].copy.ref = setter.to.listening
     IN /\ controls' = IF declines THEN controls ELSE Edited(stageInUse, editor[e].copy, setter)
        /\ asked' = [f \in DOMAIN asked |->
                       IF f \in DOMAIN setter.to THEN Wanted(setter, f) ELSE asked[f]]
  /\ editor' = [editor EXCEPT ![e] = AtRest] /\ writer' = Nobody
  /\ UNCHANGED <<stageInUse, armed, edits>>

ParametersNext ==
  \/ \E config \in Arguments(stageInUse, FieldsOf(stageInUse.stage)) : BuildParameters(config)
  \/ \E e \in Editors : CallSetter(e) \/ LockControls(e) \/ PublishEdit(e)

-----------------------------------------------------------------------------
(* Telemetry of dynamic loudness.                                          *)

(* Stores of the gains are relaxed: the display may load any that is no older *)
(* than what it has seen. The factor is stored with release and loaded with   *)
(* acquire: with a factor come the gains stored before it.                   *)

NoGains == [b \in 1..GainBands |-> 0]
NotLoaded == -1
NotRead == [factor |-> NotLoaded, again |-> NotLoaded, gains |-> <<>>]

MeterInit ==
  /\ meter = [factor |-> <<[update |-> 0, view |-> NoGains]>>, gains |-> NoGains]
  /\ meterStore = [update |-> 0, left |-> {}]
  /\ display = [at |-> 1, seen |-> NoGains, read |-> NotRead]

\* Mutant: the factor is stored before the gains.
BugMayStore(field) == IF field = 0 THEN TRUE ELSE 0 \notin meterStore.left

\* `update`: the gains, field 1 and on, then the factor, field 0.
MayStore(field) == field = 0 => meterStore.left = {0}

BeginUpdate ==
  /\ meterStore.left = {} /\ meterStore.update < MaxMeterUpdates
  /\ meterStore' = [update |-> meterStore.update + 1, left |-> 0..GainBands]
  /\ UNCHANGED <<meter, display>>

StoreField ==
  \E field \in meterStore.left :
    /\ MayStore(field)
    /\ meter' =
         IF field = 0
         THEN [meter EXCEPT !.factor = Append(@, [update |-> meterStore.update, view |-> meter.gains])]
         ELSE [meter EXCEPT !.gains[field] = meterStore.update]
    /\ meterStore' = [meterStore EXCEPT !.left = @ \ {field}]
    /\ UNCHANGED display

\* `factor`, then the load at the head of `band_gains`.
LoadFactor ==
  /\ display.read.again = NotLoaded
  /\ \E store \in display.at..Len(meter.factor) :
       LET loaded == meter.factor[store]
       IN display' = [at |-> store,
                      seen |-> [b \in 1..GainBands |->
                                  IF loaded.view[b] > display.seen[b] THEN loaded.view[b]
                                  ELSE display.seen[b]],
                      read |-> IF display.read.factor = NotLoaded
                               THEN [display.read EXCEPT !.factor = loaded.update]
                               ELSE [display.read EXCEPT !.again = loaded.update]]
  /\ UNCHANGED <<meter, meterStore>>

LoadGain ==
  LET b == Len(display.read.gains) + 1
  IN /\ display.read.again # NotLoaded /\ b <= GainBands
     /\ \E gain \in display.seen[b]..meter.gains[b] :
          display' = [display EXCEPT !.seen[b] = gain, !.read.gains = Append(@, gain)]
     /\ UNCHANGED <<meter, meterStore>>

\* The read returns, and another may begin.
EndRead ==
  /\ Len(display.read.gains) = GainBands
  /\ display' = [display EXCEPT !.read = NotRead]
  /\ UNCHANGED <<meter, meterStore>>

\* `dynamic_loudness_telemetry`
ReadTelemetry == LoadFactor \/ LoadGain \/ EndRead

MeterNext == BeginUpdate \/ StoreField \/ ReadTelemetry

-----------------------------------------------------------------------------
(* Properties.                                                             *)

\* However setters of several threads interleave: what a snapshot holds is what was
\* last accepted for each parameter, brought into its range, built configurations as
\* they are, and no number that is not finite; a listening volume belongs to the
\* reference it was derived from.
AcceptedIsApplied ==
  controls # Unbuilt =>
    /\ \A f \in DOMAIN asked : controls[f] = Stored(stageInUse, f, asked[f])
    /\ \A f \in Ranged(stageInUse.stage) :
         LET range == Ranges[stageInUse.stage][f] IN controls[f] \in range[1] .. range[2]
    /\ controls.ref # Absent => controls["listening"] = ClampedLinear(controls.ref)

\* Gains that are displayed with a factor are those of its update or later ones.
GainsFollowFactor ==
  \A b \in DOMAIN display.read.gains :
    display.read.gains[b] >= display.read.again /\ display.read.gains[b] >= display.read.factor

FacadeIsFaithful == AcceptedIsApplied /\ GainsFollowFactor
=============================================================================
