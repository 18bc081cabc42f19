# Formal models of audio-engine-core

TLA+ models of `audio-engine-core`: of its concurrent and protocol-bearing parts access
by access, of its sequential stages as far as control and bookkeeping decide what comes
out. TLC checks them on small instances; TLAPS proves the properties of the parts that
matter most for every instance. Paths are relative to the root of the repository;
`processor/...` and the like abbreviate `src/processor/...` of the crate. `PROJECT.json`
is the index: for every definition the lines it models, for every run its properties,
for every property a mutation of the code that it rejects, and every hazard at its line.

## 1. The system

The engine is a library. A host application owns an audio device, whose callback calls
the engine for every block and must not lock, allocate, free or wait. Control threads (a
user interface, a loader) change parameters, install impulse responses and ask for the
stream to stop; other threads decode sources and scan loudness. Most of the difficulty
lies where these meet, at the end of a stream, and where a stream is cut into blocks whose
sizes nobody controls.

| Component | State | Operations | Talks to | What is hard |
|---|---|---|---|---|
| Convolver hand-off (`processor/adapters/convolver*`) | slots `published`, `retired`; generations; enable and backpressure flags; the callback's `owned`, `incoming`, `pending_retire`; lifecycle, finish lock, wet ramp | `publish`, `reclaim_retired`, `set_enabled`, `is_quiescent`, `status`; `process`, `finish`, `reset`, `set_sample_rate`, new, drop | control threads through atomics; the chain | exclusive ownership without locks; a quiescence check of many reads; full slots; toggles in the middle of a call |
| Playback lifecycle (`pipeline.rs`) | request word, applied generation, published state; the callback's generation, state, stop ramp | `request_reset/drain/stop_with_fade`, `lifecycle_status`; `process`, `reset`, `finish_into` | controllers through three atomics; the chain | coalesced requests, chained fades, stop during a drain, a status read in pieces |
| Facade parameters (`pipeline.rs`, `lockfree_params.rs`) | the snapshots of all stages, handles, telemetry cells | strict build, setters, telemetry | snapshots, display | clamping, grouped and conditional edits, telemetry in pieces |
| Parameter snapshots (`processor/lockfree_params.rs`) | current snapshot, generation, writer mutex; realtime pointer, sequence, hazard slots, retired boxes | `publish`, `update`, `load_with_generation`, `subscribe_realtime`, `load_if_changed_since`, drop | control threads, one reader per stage | hazard pointers, a seqlock, address reuse |
| Analysis ring buffer (`pipeline/ring_buffer.rs`) | storage, frames written and consumed, overflows | `write`, `read`, `advance_read_pos` | a client with a position of its own | wrap-around, overflow, the client protocol |
| DSP chain (`processor/dsp_chain.rs`, `traits.rs`) | stages, finish stage and policy, counters of the observed tail | `add`, `process`, `finish`, `reset`, `set_sample_rate`, `clear` | its stages; the pipeline | unknown tails cut by energy, hold and cap; barriers; look-ahead; failures |
| Saturation (`adapters.rs`, `saturation.rs`) | bank of cores, crossfade, effect weight, bypass, promised tail; delay lines, source history | `process`, `finish`, `reset`, events | snapshots | transitions interrupted at block boundaries |
| Output render chain (`processor/output_chain.rs`) | timing snapshot, collector, observed tail | `render_with_policy*`, `process_pre_quantize` | source stages, resampler, limiter, shaper | nested drains, safety limits, reports |
| HTTP source (`decoder/source/http.rs`, `decoder/error.rs`) | prefetched range, position, validator; request under way; cancel token | open, read, seek, full download | an origin | retries, a resource that changes between requests, cancelling |
| Streaming decoder (`decoder/streaming.rs`) | cursor, owner of the trim, phase | open, `decode_next`, `seek` | HTTP source, codec | gapless trim exact through seeks and odd packets |
| Resamplers (`processor/resampler`) | histories, clocks, budgets, per-channel backends | `process`, `finish`, `reset`, one-shot conversion | the render chain | counts under blocks of any size, a channel that fails |
| FFT convolver (`processor/convolver.rs`, `convolver/late.rs`) | overlap-save head, spread early tier, late tier | `process`, `reset` | the adapter | deadlines of amortised work |
| Limiter, normalizer (`processor/loudness`) | delay line, queue of peaks, attack ramp; atomics, smoother | `process`, `finish`, setters, analysis | shaper; any thread | a ceiling under interrupted ramps; shared atomics |
| Smoothed stages (`eq.rs`, `crossfeed.rs`, `adapters.rs`, `dynamic_loudness.rs`, `noise_shaper.rs`) | ramps, crossfades, error histories | `process`, `reset`, `finish` | snapshots | ramps retargeted, frozen and bypassed in any order |
| Streaming spectrum (`analysis/spectrum*`) | tiers, decimators, held peaks | push, analyse, reset | display | what is due when, for any push size |
| Loudness database (`loudness_db.rs`) | one connection, one schema | upserts, album gains, get, get_fresh, outdated, delete | SQLite, files | transactions, crashes, files that change meanwhile |
| Analysis of whole buffers, auto-mix crate | none between calls | measure | none | floating-point arithmetic |

## 2. Modules

    ConvolverHandoff            kernel ownership between control threads and callback
      ConvolverHandoffProofs
    PlaybackLifecycle           request word, fades, drain, status; over ChainContract
      PlaybackLifecycleProofs   also over PlaybackParameters
    ChainContract               what a chain promises its owner at the end of a stream
    DspChainFinish              the chain that keeps it (refinement)
      DspChainFinishProofs
    SnapshotPublication         SharedParams and RealtimeSnapshot
      SharedStateProofs         also over RingBuffer and SpectrumAnalyzer
    PlaybackParameters          strict build, setters of facade and publishers, telemetry
    FrameWindow                 a contiguous run of a stream, seen through a window
    RingBuffer                  the buffer that implements it (refinement)
    LoudnessCache               a cache whose calls take effect at one moment
    LoudnessDatabase            the database that implements it (refinement)
      LoudnessProofs            also over LevelStages, SmoothedStages and
                                SaturationCore
    HttpRangeStream             ranges, retries, cancellation, full download
    StreamingDecoder            the decoder over it
      StreamingDecoderProofs
    OutputRenderChain           offline rendering with its limits and reports
      OutputRenderChainProofs
    SaturationAdapter           transitions, bypass, finite and unknown finish
      StageProofs               also over NoiseShaping, BlockStream, OutputGuard,
                                StreamingResampler and SincStream
    SaturationCore              delay lines, oversampling filters, source history
    OutputGuard                 look-ahead limiter and the shaper it makes room for
    LoudnessNormalizer          gain smoothing over shared atomics
    NoiseShaping                error histories
    SmoothedStages              equalizer, crossfeed, volume
    DynamicLoudness             band and head-room, the idle stage
    LevelStages                 what it and the normalizer promise together
    LateTail                    the late partitions of the convolver
    FFTConvolver                its three tiers
    BlockStream                 the owned resampler around a fixed-block kernel
    ResamplerKernels            polyphase, spectral, half-band and FFT kernels
    SincStream                  the sinc interpolator and its clock
    StreamingResampler          one backend or one per channel, and the one-shot call
    SpectrumAnalyzer            tiers, decimators, levels, held peaks

`MCConvolverHandoff`, `MCPlaybackLifecycle`, `MCDspChainFinish` and `MCLoudnessDatabase`
give constants to one module each. `MCSharedState`, `MCLiveParts`, `MCChains`, `MCStages` and
`MCStreams` are unions: a constant variable names the part that runs, the others rest where
they start, so that the states add up and do not multiply. The parts of a union share
nothing; components that do interact are composed in a module of the system
(`StreamingDecoder` runs `HttpRangeStream` step by step, `FFTConvolver` composes `LateTail`
with the other tiers, `SaturationAdapter` drives its cores, `OutputGuard` the limiter and
the latch to the shaper, `PlaybackLifecycle` and `DspChainFinish` meet at
`ChainContract`).

### Concurrent components: one action per access to shared state

*ConvolverHandoff.* Control threads have a program counter each (`cpc`) and the mutex `gate`
(`control_gate`); `SetEnabled` takes no lock, as in the code. The audio side has one
counter `apc`, and return addresses `after` and `flushNext`, because `sync_convolver` is
called from `process` and `finish` and `try_flush_retired` from four places in it.

| Code | Actions |
|---|---|
| `publish` | `BeginPublish`, `PublishReclaimFirst`, `PublishSwap`, `PublishStore`, `PublishSupersede`, `ReclaimAndUnlock` |
| `reclaim_retired` | `BeginReclaim`, `ReclaimAndUnlock` |
| `is_quiescent` | `BeginCheck`, `CheckEnabled`, `CheckSlots`, `CheckDrained`, `RecheckSlots`, `AnswerQuiescent` |
| `sync_convolver` | `FlushRetired`, `RetireMismatchedOwned`, `TakePublished`, `DiscardMismatchedIncoming`, `SyncDisabled`, `ReportHeld`, `SyncEnabled`, `SkipAdoption`, `AdoptFirst`, `AdoptReplacement`, `ReportReplaced` |
| `acknowledge_drained` | `AckCheckEmpty`, `AckLoad`, `AckRecheck`, `AckStore` |
| `process`, `finish` | `Process...` and `Finish...` + sync + `RenderKernel`, `BeginFinish`, `DrainTail` |
| `reset`, `set_sample_rate`, new, drop | `Reset`, `SetSampleRate`, `NewProcessor`, `DropProcessor` + acknowledge + `ReleaseLease` |

*PlaybackLifecycle.* `LoadRequest`/`ExchangeRequest` are `publish` with its compare-exchange
loop. `TakeNothing`/`TakeRequest`, `StoreState`, `StoreApplied`, one `Render...` per state
and `PublishState` are a `process` of the callback in the order of the code. `ReadApplied`,
`ReadState`, `ReadRequested` are the three loads of `lifecycle_status`. Gains are exact
fractions; `ceiling` and `rose` remember the loudest gain still allowed.

*SnapshotPublication.* A snapshot is the number of edits in it, so a lost edit is a number
too small. `heap` maps addresses to boxes, and the allocator may return any free address. A
writer goes through `LockWriter`, `EditCopy` (or `DeclineEdit`), `MarkOdd`, `StoreCurrent`,
`SequenceOdd`, `SwapPointer`, `SequenceEven`, `ScanHazard` (one slot per step),
`FinishPublish`; a reader through the loads and stores of its protocol.

*LoudnessDatabase.* A statement is a step. Workers lock, begin, execute, commit or fail;
`get_fresh` is two queries with a moment in between; the process crashes and comes back as
another build, which upgrades the schema it finds; files are written meanwhile, also while
they are measured.

*HttpRangeStream, StreamingDecoder.* A request goes from its cancellation check to the
answer and the body; every attempt may time out, be reset, be refused or be of a replaced
resource. Another thread may set the token between any two steps. Bytes carry their offset
and version, frames their number.

*PlaybackParameters, LoudnessNormalizer.* Setters check, lock and copy, publish; the facade's
report what they do not take, the publishers' ignore it, and each has its own groups, ranges
(of the code, in scaled units) and defaults. Telemetry
and the normalizer's atomics are relaxed or release/acquire cells, not sequentially
consistent: a read may return any value the cell has had since what the reader has
already acquired.

### Stream components: a sample is what it is made of

Sequential stages are checked for what blocks of any size do to them. A sample is its
number, or the set of products `<<coefficient, input frame>>` it sums, or the weight of each
path in it; a transform is the convolution it computes; arithmetic that only scales
samples disappears, while every index, count, clock, ring position, ramp and history stays.
The property is then that the output of a long sequence of calls, resets and failures is,
frame by frame, that of one ideal call.

*DspChainFinish* and *OutputRenderChain* take one round of a loop of the code as a step; a
frame is loud or silent.

## 3. Runs and bounds

| Run | Instance | What it asks |
|---|---|---|
| `convolver_handoff` | 2 control threads, 2 kernels, 2 rates, ramps of 2 callbacks, 1 teardown | ownership, quiescence, finish lock, fades in every interleaving |
| `convolver_live` | 1 control thread, 3 kernels, 1 rate, fairness | quiescence and adoption when every place is full |
| `convolver_teardown_counts` | 1 control thread, 1 teardown | disagreement 2 |
| `convolver_bypass` | 2 control threads | disagreement 1 |
| `playback` | 2 requests, fades of 0 and 3 frames, blocks of 0 and 2, tails up to 3; two kinds of host; fairness | racing requests, status, fades, a settled end |
| `shared_state` | five parts, see below | use after free, an atomic database, fresh rows, ramps, gradual levels |
| `live_parts` | two parts with fairness | torn snapshots, catching up; bytes, trim, cancelling, calls that return |
| `chains` | two parts with fairness | bounded tails, order, refinement of `ChainContract`; what a render puts out, limits, reports; termination of both |
| `chain_capped` | 2 stages, 1 failure | disagreement 3 |
| `fresh_rows` | 2 workers that measure, store and ask; 1 file that changes once | disagreement 4 |
| `streams` | seven parts | blocks of any size, against one ideal call |
| `stages` | six parts | the same, and transitions, ceiling, refinement of `FrameWindow` |

The unions:

- `shared_state`: `SnapshotPublication` with 2 writers, 2 realtime readers, 4 addresses, 3
  publications; `LoudnessDatabase` with 2 workers of different roles, 1 local and 1 remote
  track, 2 builds, 1 crash, 3 calls; `SmoothedStages`; `DynamicLoudness`; `LoudnessNormalizer`
  with blocks of 0 to 2 frames, 3 frames in all, and 2 stores at any point.
- `live_parts`: `SnapshotPublication` with 2 writers, 1 realtime and 1 control reader, 3
  addresses, 2 publications; `StreamingDecoder` over resources of 5 bytes and a replacement of
  4, prefetch of 2, 2 attempts, one foreign packet, delay 3 and padding 1 in packets of 2
  frames.
- `chains`: `DspChainFinish` with up to 3 stages of 3 kinds, 2 policies, blocks of 0 and 2, 1
  failure; `OutputRenderChain` with 6 chains of source stages, 3 ratios, programmes of 1 and 5
  frames, 2 block sizes, 4 kinds of loudness, parameters that change once.
- `streams`: `SpectrumAnalyzer`, `SaturationCore`, `SincStream`, `ResamplerKernels`,
  `StreamingResampler`, and of `PlaybackParameters` the setters and the telemetry.
- `stages`: `SaturationAdapter`, `OutputGuard`, `FFTConvolver`, `BlockStream`, `RingBuffer`,
  `NoiseShaping`.

Why these bounds reach the interesting cases:

- *Convolver.* Two kernels give supersession, replacement, a rate mismatch of either kernel
  and a full retirement slot; the third of `convolver_live` fills `retired`,
  `pending_retire` and `incoming` at once, which is all there is to fill. A ramp of two
  callbacks can be interrupted in its middle. The proofs cover any number.
- *Playback.* Two racing requests make a compare-exchange fail and coalesce. One kind of host
  has two controllers and a sound chain; the other has one controller and an owner that
  calls `reset` and `finish` between callbacks, with stages that fail. A fade of three frames
  in blocks of two ends inside a block; the tail is longer than a block.
- *Snapshots.* Three publications into four addresses reuse one while a reader holds a stale
  pointer to it, with two boxes pinned by two readers. The control reader runs against one
  publication by each writer, which is what a lost edit takes.
- *Database.* One worker writes batches and albums while the other asks and deletes; a crash
  falls between any two statements; two builds make rows outdated; a written file during a
  measurement takes one change.
- *Decoder.* Five bytes at a prefetch of two cross two range boundaries; delay and padding
  end inside packets; a seek may land in the delay, the programme or the padding.
- *Chain, render.* Three stages give a barrier behind a look-ahead behind an unknown tail; the
  hold is shorter than, and equal to, the cap; blocks are shorter and longer than both;
  the loud positions include a tail that comes back after a hold.
- *Ring, histories.* More frames than two or three times the storage pass through every
  ring, in blocks shorter, equal and longer than it. Every kernel, ratio and
  curve has a case in which its delay, its prefill and its last block are not multiples of one
  another.
- *Limiter.* Peaks at, above and far above the ceiling, in windows of three frames, follow
  each other in every order; the ceiling moves in between.

Bounds that only cut off the search are named (`MaxKernels`, `MaxRequests`, `MaxPublishes`,
`MaxCalls`, `MaxFrames`, `MaxGiven`, ...) and stand in the guards of the actions.

Symmetry is used for control threads in the hand-off, for readers, writers and unused
addresses in `shared_state`, for the workers in `fresh_rows` and for two qualities with the same tail in `stages`; none of
these runs checks liveness. Deadlock is checked wherever the host may always call again. It
is off (`CHECK_DEADLOCK FALSE`) in `shared_state`, `fresh_rows`, `streams` and `stages`: their
parts stop when their bound is used up.

### Fairness

Safety needs none. Liveness uses the following, which the code's scheduling justifies:

- a call that has begun returns: weak fairness on the steps inside calls. No call has a
  blocking loop but for compare-exchange retries, whose competitors are bounded, and requests
  to an origin, which has a timeout (a reader that was told `Interrupted` may try again for
  ever, which `CallsReturn` allows for); the model's writers wait for a mutex whose holder also
  proceeds;
- the host of the convolver renders (`SF` on `Process`, since `finish` and `reset` may
  intervene), polls `finish` after the end of a stream, and some control thread goes on
  calling `reclaim_retired` (`SF`: the mutex may be taken by others in between);
- the device asks for non-empty blocks (`SF`, because an empty one may be asked for
  instead), and callbacks keep polling their parameters;
- a host that began to finish a chain calls again with room for output; a render is one call.

Nothing is assumed about publications, toggles, requests, resets or teardowns. The liveness
properties are stated for behaviours in which the disturbance ends (`<>[]...` premises).

## 4. What the runs show

*Convolver.* Every kernel is in exactly one place or freed exactly once (`UniqueOwnership`:
an overwritten local owner would drop a kernel on the audio thread). A true answer of
`is_quiescent` means that nothing is alive (`QuiescentMeansEmpty`), though the check is
seven loads in turn, which the model takes in four steps: the two slots are one
(`CheckSlots`), and so are the two generations (`CheckDrained`) and the two slots looked at
again (`RecheckSlots`, `control.rs:252-263`). The mutex is held all the while, so only the
audio side moves in between. A kernel whose tail was promised stays until that tail has been
rendered (`FinishLockHolds`). Disabling fades before it retires if `process` saw the flag
(`FadesBeforeRetiring`); a toggle between the two reads of the flag is excluded by the
premise, and in that case the kernel does go without a fade. A bypassed, running processor
reaches quiescence (`EventuallyQuiescent`), and no publication waits for ever
(`PublicationsResolve`).

*Playback.* No block is given to a chain that has begun to finish, even when a fade is
requested during a drain (`NeverRefused`, without offline finishing by the owner); nothing
gets louder after a stop until a reset (`FadeNeverRises`); a status that is settled was read
when the callback had consumed every request, and shows a later state (`SettledIsTruthful`);
requests are applied and a last drain or stop ends in `Idle` (`RequestsSettle`). What a
setter accepted is what the stages get, in its documented range and grouped, and the gains
of a display belong to its factor or to a later update (`FacadeIsFaithful`).

*Snapshots.* No use after free nor of reused memory, no leak, at most one retired box per
handle (`NoUseAfterFree`); values and generations that belong together, and no lost edit
(`Coherent`); readers never go back (`NeverGoesBack`) and obtain the newest snapshot
(`ReadersCatchUp`).

*Ring.* For a client that advances before the next write, reads deliver a contiguous stream
apart from reported losses (`ImplementsWindow`).

*Chain.* Every tail is bounded by what stages declare, or by the cap plus the frames protected
for look-ahead; it is cut only after its latency and a full hold; no stage gets input after
its own finish began (`TailsEndInTime`); `ChainContract` is implemented, with failures too
(`KeepsContract`); draining ends (`DrainTerminates`).

*Render.* Programme, latencies and finite tails come out, but for the frames the resampler
held back when the observation of an unknown tail began (`held`), and every safety limit is
large enough unless parameters changed after it was computed (`RenderKeepsProgramme`); a
report of truncation is true and independent of the block size, with one exception below
(`ReportIsTruthful`); every render ends (`RenderEnds`).

*Sources.* A read returns the bytes of its position, of one length of representation, and at
most one request is sent after a cancellation (`ReadsAreFaithful`); what is heard since the
start or the last seek is a prefix of the programme, all of it at the end (`TrimIsExact`); a
call returns, or the source has told the reader of the cancellation, which is the kind
`Interrupted` (`CallsReturn`): retries, broken bodies, refused ranges and skipped packets do
not keep it.

*Database.* It implements a cache whose calls take effect at one moment or, with an error or
a crash, not at all (`ImplementsCache`); the row `get_fresh` judges has the stamp of the
file, and both that row and the one its second query returns were measured by this build and
describe the file as far as their stamps can tell: a row with the file's stamp is of the
file's content unless it was measured while the file was written, or the file was written
twice within the resolution of a stamp (`FreshIsVouched`). That the row returned has the
file's stamp is not so: disagreement 4.

*Stages and streams.* Transitions of the saturation never mix in a core that missed frames
the others had since the stream began or, for the oversampling, since the high-pass mode
last changed: that is a hard change, which empties the oversampling and the source history
of all cores at once, in the middle of a stream (`saturation.rs:492-498`). And a promised
tail is what is rendered (`TransitionsAreClean`); the latency does not move while a stream
runs (`LatencyFrozen`); switching quality or mode in the core leaves no seam
(`CoreIsSeamless`). The limiter holds the ceiling it leaves for the very setting of the
shaper that follows (`CeilingHolds`). Ramps arrive where they were sent (`RampsArrive`), the
shaper feeds back its own last errors (`FeedbackIsHistory`), and levels change gradually
(`LoudnessIsGradual`: the head-room and the boost of dynamic loudness never step; the
normalizer takes its gain up where it left it, replays nothing after a bypass and keeps the
gain of the analysed track). Convolver, kernels, sinc interpolator, block resampler,
multi-channel resampler and spectrum give, for calls of any size, what one call would give
(`ConvolutionIsExact`, `KernelsAreExact`, `SincIsExact`, `ResamplerIsExact`,
`ChannelsStayTogether`, `SpectrumIsExact`).

### Disagreements between code and documentation

1. `pipeline.rs:1220` documents the enable switch as one that bypasses convolution "without
   discarding the loaded kernel". The callback retires the kernel once it sees the disabled
   flag (`convolver.rs:266`): `convolver_bypass`.
2. `control.rs:37` documents `pending_reclamations` as the retired kernels that await
   reclamation by a control thread. A dropped processor frees the kernel it was about to hand
   back without counting it, and the number stays positive: `convolver_teardown_counts`.
3. `dsp_chain.rs:621` documents the capped flag as an unknown tail having reached the safety
   cap. When a later stage fails on the very block that completes the hold, the next call sets
   the flag for a tail that was silent: `chain_capped`.
4. `loudness_db.rs:658-660` promises of `get_fresh` that version, modification time and size of
   the file "must all still match". It judges one row and then asks for the row again (665-669);
   another worker may store an older record in between, which is returned unjudged: `fresh_rows`.

Met while modelling, and allowed for in the properties rather than listed as runs:

- *Ring.* With `LateAdvance = TRUE` a `write` may come between `read` and
  `advance_read_pos`; if it overflows, frames are counted twice and the refinement fails.
- *Status.* With `GenModulus = 2` the 40-bit generation wraps and `SettledIsTruthful` fails,
  because the status takes the maximum of the applied and the requested generation
  (`pipeline.rs:304`). It takes 2^40 requests.
- *Sources.* A cancellation during a read surfaces as an error of the decoder or the probe
  (`streaming.rs:473`, `754-762`), not as `Canceled`; a back-off sleep is not interrupted.
  The read fails with the kind `Interrupted` (`http.rs:661`), and the token is one-way: a
  reader that takes it for a call to try again, as loops that read an exact number of bytes
  do, gets it again and again, and the call does not return, although `error.rs:214` asks
  every holder of the token "to stop as soon as possible". Whether a container reader does
  so is outside the source; `Retried` allows it, and `CallsReturn` ends at the answer.
  Replacements of the same length mix. A broken packet does not move the cursor, so the
  padding is cut late until the next seek; a seek into the delay region hears it. With a
  delay and padding larger than the stream the cursor passes the end of the programme.
- *Render.* When a source stage uses up its budget while the resampler holds the deciding
  frames, the report of truncation depends on the block size (`output_chain.rs:1852-1859`,
  against 1645). A compensated render may lose one frame to rounding.
- *Stages.* After the ceiling was lowered, frames in the look-ahead may exceed it for the
  length of the ramp; disabling the limiter drops its look-ahead. The volume starts at 1.0,
  and `reset` restores the unmuted volume (`lockfree_params.rs:1208`). The equalizer
  restarts its crossfade from the old bank on every publication; its ramp and the
  crossfeed's stand still while they are disabled. A high-pass of the saturation that is
  enabled again starts from old filter memory.
- *Dynamic loudness.* A new tuning does not recompute the factor before the next volume
  change; the adapter never calls `set_enabled`, so enabling again steps to the held
  head-room instead of the documented fade (`dynamic_loudness.rs:477-481`, `728-741`).
- *Normalizer.* Leaving the streaming mode keeps the gain that mode had set (`track_gain` is
  never read again); `calculate_gain` for a gapless preload, documented to avoid a premature
  gain update (`normalizer.rs:219-223`), feeds the next track to the meter that the
  streaming mode reads.
- *Database.* A crash between the commit of a new schema and its `VACUUM` leaves the old
  pages behind. A file written while it is measured gets a row that later looks fresh
  (`raced`). Storing a record again erases its album gain.
- *Resamplers.* A channel that fails leaves the channels before it ahead until the reset,
  and a call made before it interleaves frames of different times; `ChannelsStayTogether`
  claims nothing there. A polyphase finish with a strong decimation may miss the frame of
  the last coefficient.

## 5. What is proved

Eight modules hold proofs. A theorem is about the specification without fairness and about
every value of the constants that satisfies the named assumption of its module; the
bounds that cut off TLC's search are constants like any other, so nothing rests on them.

| Module | Theorem | States |
|---|---|---|
| `ConvolverHandoffProofs` | `TypeCorrect`, `Ownership`, `Quiescence`, `IdleAnswer`, `FinishLock`, `WetKernel`, `FadeFirst` | `TypeOK`, `UniqueOwnership`, `QuiescentMeansEmpty`, `IdleIsTruthful`, `FinishLockHolds`, `WetNeedsKernel`, `FadesBeforeRetiring` |
| `SharedStateProofs` | `TypeCorrect`, `MemorySafety`, `Coherence`, `Monotone`, `RingImplementsWindow`, `SpectrumStaysExact` | `TypeOK`, `NoUseAfterFree`, `Coherent`, `NeverGoesBack`, `ImplementsWindow`, `SpectrumIsExact` |
| `PlaybackLifecycleProofs` | `TypeCorrect`, `FadeFalls`, `CallbackAccepted`, `StatusTruthful`, `FacadeFaithful` | `LifecycleTypeOK`, `FadeNeverRises`, `NeverRefused`, `SettledIsTruthful`, `FacadeIsFaithful` |
| `DspChainFinishProofs` | `TypeCorrect`, `DrainsAreBounded`, `ContractKept` | `TypeOK`, `TailsEndInTime`, `KeepsContract` |
| `LoudnessProofs` | `DatabaseTypes`, `FreshRowsAreVouched`, `DatabaseImplementsCache`, `HeadroomGradual`, `NormalizerSeamless`, `LevelGradual`, `RampsReach`, `CoreStaysSeamless` | `DatabaseTypeOK`, `FreshIsVouched`, `ImplementsCache`, the parts and the whole of `LoudnessIsGradual`, `RampsArrive`, `CoreIsSeamless` |
| `StreamingDecoderProofs` | `StreamingTypes`, `SourceIsFaithful`, `TrimExact` | types, `ReadsAreFaithful`, `TrimIsExact` |
| `StageProofs` | `CleanTransitions`, `LatencyStands`, `HistoryFedBack`, `ResamplerExact`, `CeilingKept`, `ChannelsInStep`, `SincInterpolatesInPlace` | `TransitionsAreClean`, `LatencyFrozen`, `FeedbackIsHistory`, `ResamplerIsExact`, `CeilingHolds`, `ChannelsStayTogether`, `SincIsExact` |
| `OutputRenderChainProofs` | `RenderInvariant`, `NothingElseIsCut`, `ReportsAreTruthful` | types, `RenderKeepsProgramme`, `ReportIsTruthful` |

Eight hypotheses go beyond the types of the constants:

- `StatusTruthful` assumes `[]NoWrap`: fewer requests were issued than the generation field
  counts (2^40). Beyond it the property is false (section 4).
- `RingImplementsWindow` assumes `~LateAdvance`, the protocol the type documents.
- `ChainAssumption` says that among the policies one has the longest cap; the code has one
  policy at a time, and without a longest cap no budget bounds all streams.
- `TrimExact` assumes `RegionsFit`: delay and padding fit into every representation of the
  resource. Beyond it the cursor is not truthful (section 4).
- `ShapingAssumption` has the longer tap list at least as long as the shorter (9 and 5 in
  `noise_shaper.rs`): the history is allocated for the longer one.
- `BlockAssumption` says of a kernel that it transforms a whole number of output frames at
  once, gives per block no more than it announces (`MostOf`), and that its delay is shorter
  than what it gives for the blocks of silence `finish` waits for (64). Without the last,
  `finish` of a very short programme fails with a stalled backend.
- `CoreAssumption` ties the sizes of the saturation core to each other: the filters' group delay
  is the fixed latency of 4 frames, and replaying the 10 frames of source history fills them
  (`saturation.rs:52,61`).
- `SpectrumAssumption` takes the unit of levels so that a peak falls by a whole number of units
  in a sample (`spectrum.rs:14,1025` compute in floating point, where no rounding is at stake),
  and the edges of the bands to rise by steps that do not shrink, as the edges spaced evenly in
  the logarithm do (`spectrum.rs:707`). A band of decreasing width could go back to a finer tier.

### The arguments

None of the properties is inductive. Each proof names the strengthening, shows that it
holds initially, that each action preserves each conjunct it can disturb, and derives the
property; the temporal step comes last.

*Hand-off.* `IInv` adds to the types: `GateInv` (the thread inside a control operation
holds the mutex, so the locals `cgen` and `replaced` have one user); `PublishInv` (what a
publication in progress knows of its generation); `ExclusiveInv`, `NotFreedInv`, `CoverInv`
(`UniqueOwnership` owner by owner); `DrainInv`: every kernel on the audio side or in the
published slot is newer than the acknowledged generation, and the generation held by an
acknowledgement under way is older than whatever arrived since, which is what makes
the order "empty, load, still empty, store" sound; `CheckInv`: what each read of
`is_quiescent` has established. Audio steps are grouped by the move of ownership they
make. `FinishLock`, `WetKernel` and `FadeFirst` rest on control flow instead: `FinishFlow`
(no synchronisation while a stream drains), `FinishMatches` (the kernel of a promised
tail has the rate of the stream), `FadedInv` (a kernel held through the synchronisation
of a disabled call is silent).

*Snapshots.* `MutexInv` (who holds which mutex at which label) and `CountInv` (how
generation, sequence, `current` and the boxed value run apart during a publication and agree
between two) tie the counters; `BoxInv` says which boxes are allocated. `HandleInv` and
`LoadInv` follow a reader: once its second look at the sequence found the pointer unmoved,
the box is `Protected`: the retirement scan has not reached the reader's slot yet, or will
find the address in it. `SparedInv` counts: each retired box the scan has spared was in the
slot of a handle of its own, which since then can hold only that box or the current one; so
at most as many boxes as handles stay behind. `UiInv` is the seqlock of the control reader.

*Playback.* `FadeInv`: outside `Idle` the gain in effect is at most the last one heard, for
which the fractions' order must survive a ramp restarted from the middle of another.
`OpenInv`: only a drain begins the finish of the chain, and only a reset leaves it.
`StatusInv`: what a status has read bounds what was applied since.

*Ring.* `RingInv`: the slot of every frame not yet consumed holds it, with the modulo
arithmetic of a block longer than the storage.

*Chain.* `OrderInv` (only stages up to the current one have begun), `ObservationInv` (the
counters of an observation belong to the current stage), `BudgetInv`: the frames rendered are
paid for out of what the stage declares, of what was protected, or of the frames counted
against the cap; what was emitted is at most the sum over the stages before plus what the
current one rendered. `CutInv` gives the latency and the hold. Sums over stages are
`Total`, the number of the stages' frames, about which the module proves the lemmas it
needs by counting. `ContractKept` maps each round to a step of `ChainContract` or a
stutter.

*Database.* `LockInv` and `TransactionInv`: the rows inside a transaction are those on disk
after the first `done` statements of the request, so that its commit is one step of
`LoudnessCache`. `VersionInv` and `VouchInv`: rows in flight are of the running build, and a
row not measured while its file was written is of a content the file has had, with a stamp
no newer. So any row of the running build `Describes` its file (`RowsDescribe`), the one the
second query of `get_fresh` finds as well as the one the first query judged.

*Dynamic loudness.* `BoostSound` is about the core: the band aims at factor times strength, a
smoother that is not under way has arrived (`SmootherSound`), and the coefficients applied are
those of a band less than `UpdateEpsilon` away, or of none (`BandFollows`). `DynamicSound` says
that what is heard is what the core applies. So adopted parameters and tunings move nothing
(`SamePlace`), a block moves each smoother at most half of its way or its last two steps, and
the idle stage bypasses itself only where head-room and band have arrived.

*Normalizer.* `GainFollows`: the shared gain is where the last normalized block left it, and a
block during which nothing was stored has seen what is there. `LineFollows`: while the stage
runs, each place of the limiter's line holds the frame that is due there, or silence if it came
before the gap. `ExactSound`: a gain in units of `Exact` is a multiple of the power of two that
the frames still to come divide by, so that the block in closed form (`Remaining`) ends where
the frames end one by one; the bound on frames (`MaxGiven`) is what makes whole numbers stand
for the code's reals, and the theorem holds for every value of it.

*Render.* What a render keeps is a function of the frames the source stages have given, not
of the blocks they came in. `OutInv` gives the frames the resampler has made of them;
`DrainedInv` counts them: the programme, what the stages before declared (`Before`) and what
the current one rendered, as long as every tail so far was finite. The limit of a finite
stage is its declaration plus a block, so it ends within it (`FlowInv`, while the parameters
stand still). The first unknown tail begins an observation, and `Watched` says what the
detector's counters know: from the place where the protected frames end (`Base`, a function
of the declared timings alone) up to the frames collected, it has met no silence that held,
and the quiet it counts (`QuietFor`) is the one since the last loud position. Where an
observation stops is thus a property of the signal (`Verdict`), and it has one value
(`OneVerdict`). What is collected after the stage used up its budget (`Enough`) would pass
the cap, which `EnoughFrames` and `Overrun` show through the three roundings of
`ProtectedFrames`, its way back to the source rate and the frames of the resampler; so an
observation that has not stopped by the end of the boundary does not exist, and `DoneInv`
and `AnsweredInv` say what is in the output. `ResultsInv` states of every stored result that
it is `Closed`: the verdict on the signal, or all that is owed; two results of one signal
are therefore equal, but for `ranOut`. The sums of a chain's latencies and tails come from
the definition of `AddUp` (`AddUpExists`, by `SetInduction`).

*Ramps.* `RampSound` ties a ramp to the frames processed since it was last sent elsewhere: the
frames it has left and those gone are at most its length (`Ending`). What is left of a ramp of
even steps does not pass the target although the step is rounded (`StepsSound`); a blend is
the rounded share of its whole distance (`BlendSound`), which only grows. The volume halves
its distance: `Within` says from how far n frames suffice, and `SmoothAssumption` that
`VolumeFrames` suffice for the whole range.

*Sources.* `SourceInv`: `BufferInv` (what is buffered is the resource from `start` on, of a
version of the opened length), `RequestInv` (what each purpose asks for), `WaitInv`,
`FaithInv`, `TokenInv` (after the token at most one request). `StreamingIInv` adds how far
the decoder is in terms of the source (`PhaseInv`, `ReplyInv`, `PositionInv`, `LateInv`),
and `GaplessInv` what cursor, base and frames heard have to do with each other under each
owner of the trim (`TrimInv`).

*Parameters.* `FacadeSound`: who has the writer lock edits a copy that is still what is published,
and every parameter holds what was last accepted for it. `MeterSound`: gains not being stored
are of the current update, so a factor that is stored last comes with gains at least as new.

*Saturation.* `CoreSound`: the cores the next frame mixes (`Mixed`: those with a weight, and
the target of a transition) have run in step since the stream began, and when the effect is
heard or will be (`Rings`) their nonlinear state has too. A change of the high-pass mode
empties the memory of the oversampling in every core at once, so that a core that missed
frames has missed nothing any more (`ModeSound`; `Oversampling` are the qualities whose
filters reach further than the fixed latency); the weights always leave one core audible.
`FinishSound` ties the promise to what is rendered and owed. A block is a recursive function
of its frames, so each frame's step is proved first (`FrameSound`) and the block by
induction (`FramesSound`).

*Saturation core.* `HoldsLast` and `Retains`: rings keep the last frames and samples at their
places (`PlacesApart`: places of fewer positions than the ring is long differ). `Fed`: the
oversampling filter's doubly written window holds the residuals of a list of samples, the
newest first. Replaying the retained samples feeds a new filter from the first of them
(`ReplayFeeds`, by induction), and since `CoreAssumption` makes the history longer than the
window reaches, that is the window of a filter fed all of them (`FedPrefix`). The declared
tail is then as far as the window reaches (`TailFrames`).

*Noise shaper.* `Remembers`: the doubly written ring, read from its head, is the list of the
last errors since the history was cleared and zeros before, also for the shorter of two
curves; one frame moves the head by one and the list by one.

*Resampler.* `Accounted`: what the kernel gave is what was dropped, what came out and what is
pending, in this order. `Fed`: it was fed what was accepted except for what is collected.
`Ends`: emitted frames stay within the budget, and a finished stream has used it up.
`Patient`: since `finish` last flushed, the kernel gave no more than it drops. The lemmas
about kernels say that blocks together give no less than apart (`KernelGives`) and never
more than their duration (`DurationGrows`); hence a round that cannot proceed does not happen
(`NeverStuck`), and silence produces frames before `finish` gives up (`SilenceIsHeard`).

*Streaming resampler.* A backend that does not fail is a function of how many frames it was fed
and has made (`Backend`), so channels cannot differ except in whose turn it is: in a round
those that had theirs are one `Step` ahead of the others, and the step is the same for all
(`BackendInv`, `RoundInv`). What came out is the run of frames from the first
(`More`, which a run that follows extends: `MoreJoined`), as many as the frames fed have made
ready, or in `finish` as many as their rounded duration (`Limit`). A round of `process` always
takes or makes a frame (`TakingIs`), so its error for no progress does not happen; a
drain that gives less than its room has reached the duration (`DrainedIs`), so `finish` ends on
it. A thread of a one-shot conversion has at any point the prefix for its offset (`ThreadInv`)
and never stalls; all prefixes end at the one duration. After a failure nothing is claimed
until a reset replaces every backend (`~broken => StreamInv`). That the foreign
backend makes the rounded duration, and a frame once its look-ahead was fed, is what the
model says of it, not something proved.

*Sinc interpolator.* The clock counts within virtual blocks, with an index and a base that both
jump; the invariant keeps only their sum, the place of the pending frame (`ClockAt`), and
`ClockPrepared` shows that a jump to the next productive block exists and keeps it. From the
place follow the windows and rows of the points, whatever the block (`PointsAre`): a row that
falls off the bank belongs to the next or the last window (`RowShifts`). `Holds` says what the
doubly written ring has of the last frames, so a window within it is read in one piece
(`WindowRead`). Windows only move on (`DueGrows`), at most two frames apart (`DueIs`), and once
the budget is used up the next one lies beyond the input (`SincBudgetIs`); so what is written
never passes the first pending window by more than the ring, a prefetch always finds room, and
the guards of `Emitted` never fire.

*Spectrum.* `SpectrumInv` gives the whole state as a function of the number n of samples pushed
since the last reset: a decimator keeps the last numbers of its two phases and the odd one out
(`DecimatorHolds`), so a filter that is fed n samples in pieces gives the frames 1 to n/2 in order;
a ring keeps the last numbers at their position modulo its size (`RingKeeps`), which read from
`pos` on is the window; `filled` and `since` say how far n is from the first and the last time
the tier was due. `UntilEvent` never steps over a due position, so a round ends at one or meets
none (`DuePositions` is counted round by round). A peak is its last top less the decay of the
time it was not held (`PeakHolds`), which a fall in two parts does not change because the decay
of a sample is whole. That the bands leave no gap needs the tier of a wider band not to be
finer, and the rounding of its two edges to meet.

*Limiter.* `QueueSound`: the queue of peaks falls and has, for every frame in the delay line, a
peak that is no lower and not yet due to expire; so its front is the greatest peak of the
look-ahead. `Held`: with k of a ramp's frames gone since a peak was seen, the gain minus the
step times the moves that are left keeps that peak under one of the last k thresholds.
`LimiterSound` says so of every frame of the line and `OutSound` of the one that leaves, whose
moves are over. A ramp that is armed again in the middle only gets steeper, also with the
step rounded up, and a release never passes the target (`MovedHolds`).

Induction. The library's induction theorems take an operator, which no installed prover can
instantiate. `SetInduction` takes a set instead: it is proved from the least element of a set
of naturals (`WFMin`), and applied to the set of numbers of frames for which a recursive
function keeps an invariant, and to the exponents of `TwoTo` (the prover knows nothing of `^`).

### Model-checked only

- Liveness: `EventuallyQuiescent`, `PublicationsResolve`, `RequestsSettle`,
  `ReadersCatchUp`, `CallsReturn`, `DrainTerminates`, `RenderEnds`. Liveness under fairness
  and `ENABLED` are out of the prover's reach.
- The output of stages for calls of any size (`ConvolutionIsExact`, `KernelsAreExact`): sums
  and products over a history compare a recursive computation with a closed form, over
  several buffers at once. Induction reaches such a computation (above), but each is a proof
  of its own.
- The four disagreements: TLC gives the counterexamples.

## 6. Abstractions

- Memory order. Every shared access is a step. Steps are sequentially consistent in
  `ConvolverHandoff`, `PlaybackLifecycle` and `SnapshotPublication` (the code uses `SeqCst`
  for the hazard protocol and acquire/release elsewhere; behaviours that only weaker
  orders allow are not explored). `PlaybackParameters` (telemetry) and `LoudnessNormalizer`
  model relaxed and release/acquire cells.
- Sample values. Filters, floating-point gains, thresholds and meters are replaced by the
  control decisions they feed, by exact fractions or integers, or by what they are made of.
  Dither, drive, mix, tilt and window shapes are left out; the design of filters is external.
- External parts: SQLite (a statement or a commit takes effect at once or fails), the origin
  of a resource, container and codec, foreign resampler backends, loudness meters.
- Validation of arguments fails before any state changes and is left out, as are a stage
  whose own `reset` fails inside a chain and the error of a stage that makes no progress.
- A poisoned mutex is recovered in the code; the model's cannot be poisoned.
- Counters saturate or wrap at 64 bits in the code and are unbounded here; only the 40-bit
  generation has a width (`GenModulus`).
- `process_pre_quantize` is modelled for one buffer after construction, when it converts the rate;
  there is no public way back from a render. Kernels get whole chunks from
  `BlockStream`; other sizes are those of their own tests. The saturation core is
  enabled throughout: its adapter disables it only together with the hard bypass
  (`adapters.rs:628,962,1204`), when no frame reaches it.

## 7. Not modelled

The analysis of whole buffers (true peak, bit depth, transients and the like) and the auto-mix
crate are sequential floating-point code without state between calls, which neither TLC nor
TLAPS can judge; so are filter coefficients, the FIR equalizer and the downmix matrices. The
encoder behind the render chain and the composition of a built pipeline's stages are
plain sequencing. The read-only counts of the database, the soxr backend, network and file
input are external.

## 8. Plan

Done: the components of section 2, with eight proof modules. Next proofs, each in the proof
module whose names it does not meet: `ConvolutionIsExact`, with the tiers' buffers as functions
of the frames fed and the deadline of the late tier as an inequality between them; then
`KernelsAreExact`, kernel by kernel.

A property that is proved needs no wide run:
the runs of proved modules can shrink when others need room.
