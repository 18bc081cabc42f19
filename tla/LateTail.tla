------------------------------ MODULE LateTail ------------------------------
(***************************************************************************)
(* The late tier of the FFT convolver: while one period of input is being   *)
(* captured, the previous one is transformed, multiplied with every         *)
(* partition of the impulse response and transformed back, one quantum at a *)
(* time, at frames spread over the period by an error accumulator; the      *)
(* result must be complete when the next period starts to play it.          *)
(*                                                                         *)
(* A block of samples is what it sums: <<p, k>> is the product of partition *)
(* p of the response with the input of period k, of which `first` is the    *)
(* first half and `second` the one that overlaps the next period.  Periods  *)
(* are numbered from the construction on, a reset starts a new one.         *)
(* FFTConvolver composes this tier with the other two.                      *)
(***************************************************************************)
EXTENDS Integers, Sequences

CONSTANTS
  Period,          \* PARTITION
  BasePeriod,      \* BASE_PERIOD, the partition of the early tier
  EdgeGuard,       \* GUARD
  TransformWeight, \* TRANSFORM_WEIGHT
  Geometries       \* [channels, partitions] of the kernels

ASSUME LateAssumption ==
  /\ BasePeriod \in Nat \ {0} /\ EdgeGuard \in Nat /\ 2 * EdgeGuard < BasePeriod
  /\ Period \in Nat \ {0} /\ Period % BasePeriod = 0
  /\ TransformWeight \in Nat \ {0}
  /\ Geometries \subseteq [channels : Nat \ {0}, partitions : Nat \ {0}]

VARIABLES
  geometry,    \* channels and partitions
  clock,       \* position, active, schedule_error and the step of the frame
  job,         \* job_channel, job_stage, history_slot, cursor, valid_slots
  blocks,      \* the buffers of each channel
  \* history: the period being captured, the first one since the reset
  now, first

lateVars == <<geometry, clock, job, blocks, now, first>>

SCHEDULE_FRAMES == (Period \div BasePeriod) * (BasePeriod - 2 * EdgeGuard)
WorkPerPeriod == geometry.channels * (geometry.partitions + 2 * TransformWeight)
Channels == 1..geometry.channels
Never == -1
SilentBlock == [first |-> <<>>, second |-> <<>>]

IdleJob == [channel |-> 1, stage |-> 0, slot |-> 0, cursor |-> 0, valid |-> 0]

LateInit ==
  /\ geometry \in Geometries
  /\ clock = [position |-> 0, active |-> FALSE, error |-> 0, step |-> "frame"]
  /\ job = IdleJob
  /\ blocks = [c \in Channels |->
                 [history |-> [s \in 0..geometry.partitions - 1 |-> Never],
                  captured |-> Never, output |-> SilentBlock, pending |-> SilentBlock,
                  overlap |-> <<>>, sum |-> <<>>]]
  /\ now = 0 /\ first = 0

\* A frame is captured and played; if it is away from the boundaries of the early
\* tier, it earns its share of the period's work.
LateFrame ==
  LET base == clock.position % BasePeriod
      earns == clock.active /\ base >= EdgeGuard /\ base < BasePeriod - EdgeGuard
  IN /\ clock.step = "frame"
     /\ clock' = [clock EXCEPT !.step = "work",
                               !.error = IF earns THEN @ + WorkPerPeriod ELSE @]
     /\ UNCHANGED <<geometry, job, blocks, now, first>>

Weight == IF job.stage \in {0, geometry.partitions + 1} THEN TransformWeight ELSE 1
Due == clock.step = "work" /\ clock.error >= SCHEDULE_FRAMES * Weight

NextStage(j) ==
  IF j.stage + 1 = geometry.partitions + 2
  THEN [j EXCEPT !.stage = 0, !.channel = @ + 1] ELSE [j EXCEPT !.stage = @ + 1]

\* Slots of before the reset are not cleared, only invalid.
Valid(slot, partition) == partition = 0 \/ slot < job.valid

\* `run_quantum`: a forward transform, the product with one partition, or the
\* inverse transform with its overlap.
Quantum ==
  /\ Due
  /\ clock' = [clock EXCEPT !.error = @ - SCHEDULE_FRAMES * Weight]
  /\ LET c == job.channel
         partition == job.stage - 1
         last == geometry.partitions - 1
     IN /\ c \in Channels
        /\ \/ /\ job.stage = 0
              /\ blocks' = [blocks EXCEPT ![c].history[job.cursor] = blocks[c].captured]
              /\ job' = NextStage([job EXCEPT !.slot = job.cursor])
           \/ /\ job.stage \in 1..geometry.partitions
              /\ blocks' = [blocks EXCEPT ![c].sum =
                   IF Valid(job.slot, partition)
                   THEN Append(@, <<partition, blocks[c].history[job.slot]>>) ELSE @]
              /\ job' = NextStage([job EXCEPT !.slot = IF @ = 0 THEN last ELSE @ - 1])
           \/ /\ job.stage = geometry.partitions + 1
              /\ blocks' = [blocks EXCEPT ![c].pending = [first |-> blocks[c].sum,
                                                          second |-> blocks[c].overlap],
                                          ![c].overlap = blocks[c].sum, ![c].sum = <<>>]
              /\ job' = NextStage(job)
  /\ UNCHANGED <<geometry, now, first>>

\* The position moves on; `advance_period` at the end of a period.
Move ==
  /\ clock.step = "work" /\ ~Due
  /\ IF clock.position + 1 < Period
     THEN /\ clock' = [clock EXCEPT !.position = @ + 1, !.step = "frame"]
          /\ UNCHANGED <<job, blocks, now>>
     ELSE /\ clock' = [clock EXCEPT !.position = 0, !.active = TRUE, !.step = "frame"]
          /\ LET cursor == IF clock.active THEN (job.cursor + 1) % geometry.partitions
                           ELSE job.cursor
                 valid == IF clock.active /\ job.valid < geometry.partitions
                          THEN job.valid + 1 ELSE job.valid
             IN job' = [IdleJob EXCEPT !.slot = cursor, !.cursor = cursor, !.valid = valid]
          /\ blocks' = [c \in Channels |->
               [blocks[c] EXCEPT !.captured = now, !.output = blocks[c].pending,
                                 !.pending = blocks[c].output]]
          /\ now' = now + 1
  /\ UNCHANGED <<geometry, first>>

\* The history is invalidated, and the captured input is overwritten before it is
\* read again.
Clear(b) == [b EXCEPT !.output = SilentBlock, !.pending = SilentBlock, !.overlap = <<>>, !.sum = <<>>]

\* `reset`, between two calls.
LateReset ==
  /\ clock.step = "frame"
  /\ clock' = [position |-> 0, active |-> FALSE, error |-> 0, step |-> "frame"]
  /\ job' = IdleJob /\ blocks' = [c \in Channels |-> Clear(blocks[c])]
  /\ now' = now + 1 /\ first' = now + 1
  /\ UNCHANGED geometry

LateNext == LateFrame \/ Quantum \/ Move \/ LateReset

\* Asserted by `advance_period`: the work of the period is done when it ends.
WorkIsDone ==
  /\ Due => job.channel \in Channels
  /\ clock.active /\ clock.step = "work" /\ ~Due /\ clock.position + 1 = Period =>
       clock.error = 0 /\ job.stage = 0 /\ job.channel = geometry.channels + 1

=============================================================================
